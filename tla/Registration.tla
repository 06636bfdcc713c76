---------------------------- MODULE Registration ----------------------------
(***************************************************************************)
(* How an e-mail address becomes an account (src/modules/auth/             *)
(* auth.service.ts): register, verifyOtp, signUp with the salon's or       *)
(* stylist's profile, the password resets, which also give a password, and *)
(* updateUser, which makes up for a missing profile.                       *)
(*                                                                         *)
(* One address, one row of User.  A request reads the row, decides, and    *)
(* writes later what it decided; nothing locks the row in between.  Phone  *)
(* numbers, which two addresses could contend for, are left out.           *)
(***************************************************************************)
EXTENDS Naturals, FiniteSets

CONSTANTS
  Codes,        \* bound: OTPs generated; all different
  NoCode,       \* no OTP; also what a user types who has none
  Kinds,        \* account types
  Profiled,     \* those with a profile row: salon, stylist
  Requests,     \* calls that may be in flight at the same time
  MaxAttempts,  \* OTP_MAX_ATTEMPTS
  MaxTicks,     \* bound: times that something ages
  MaxFaults,    \* bound: crashes and mails not sent
  Resets        \* TRUE if passwords are also given by a reset

ASSUME AccountAssumption ==
  /\ NoCode \notin Codes /\ Profiled \subseteq Kinds /\ Kinds # {}
  /\ MaxAttempts \in Nat \ {0} /\ MaxTicks \in Nat /\ MaxFaults \in Nat
  /\ Resets \in BOOLEAN

VARIABLES
  registered,  \* there is a row
  kind,        \* User.accountType
  code, age,   \* otpHash, and how old it is: otpExpiresAt
  attempts,    \* otpAttempts
  verified,    \* verifyStatus, and how old it is: otpVerifiedAt
  password,    \* User.password is set
  resetToken,  \* passwordResetTokenHash is set, and not expired
  profiles,    \* the kinds the user has a profile row for
  inbox,       \* OTPs that reached the user
  request,     \* what each worker is doing
  used,        \* OTPs generated so far
  ticks, faults,
  lost,        \* OTPs whose mail was never sent
  late,        \* register wrote over a row verified or signed up since it was read, or
               \* signUp over one whose verification was taken back since
  reset        \* a password was given by a reset

row == <<registered, kind, code, age, attempts, verified, password, resetToken>>
bounds == <<ticks, faults>>
outcomes == <<lost, late, reset>>
registrationVars == <<row, profiles, inbox, request, used, bounds, outcomes>>

RequestSteps == {"idle", "store", "mail", "accept", "reject", "setPassword", "findProfile",
          "createProfile", "session", "newPassword", "overwrite"}
AnyKind == CHOOSE k \in Kinds : TRUE
Blank == [registered |-> FALSE, verified |-> "no", attempts |-> 0, password |-> FALSE]
NoRequest == [step |-> "idle", kind |-> AnyKind, code |-> NoCode, opens |-> FALSE, seen |-> Blank]
Row == [registered |-> registered, verified |-> verified, attempts |-> attempts,
        password |-> password]

RegistrationInit ==
  /\ registered = FALSE /\ kind = AnyKind /\ code = NoCode /\ age = "none"
  /\ attempts = 0 /\ verified = "no" /\ password = FALSE /\ resetToken = FALSE
  /\ profiles = {} /\ inbox = {} /\ used = {}
  /\ request = [w \in Requests |-> NoRequest]
  /\ ticks = 0 /\ faults = 0
  /\ lost = {} /\ late = FALSE /\ reset = FALSE

At(w, s) == request[w].step = s
Proceed(w, s) == request' = [request EXCEPT ![w].step = s]
Finish(w) == request' = [request EXCEPT ![w] = NoRequest]

-----------------------------------------------------------------------------
(* register *)

\* Mutant: the guard against a double tap does not look at the time.
RegisterOnce(w, k) ==
  /\ At(w, "idle")
  /\ ~password /\ verified # "recent"
  /\ ~(code # NoCode /\ verified # "past")
  /\ request' = [request EXCEPT ![w] = [NoRequest EXCEPT !.step = "store", !.kind = k,
                                                             !.seen = Row]]
  /\ UNCHANGED <<row, profiles, inbox, used, bounds, outcomes>>

\* Mutant: a password is not looked for.
RegisterAnyone(w, k) ==
  /\ At(w, "idle")
  /\ verified # "recent"
  /\ ~(code # NoCode /\ age = "new" /\ verified # "past")
  /\ request' = [request EXCEPT ![w] = [NoRequest EXCEPT !.step = "store", !.kind = k,
                                                             !.seen = Row]]
  /\ UNCHANGED <<row, profiles, inbox, used, bounds, outcomes>>

\* Refused if there is a password or a verification that still counts; answered
\* at once if the last OTP is less than five seconds old.
Register(w, k) ==
  /\ At(w, "idle")
  /\ ~password /\ verified # "recent"
  /\ ~(code # NoCode /\ age = "new" /\ verified # "past")
  /\ request' = [request EXCEPT ![w] = [NoRequest EXCEPT !.step = "store", !.kind = k,
                                                             !.seen = Row]]
  /\ UNCHANGED <<row, profiles, inbox, used, bounds, outcomes>>

\* generateOtp: a new one
NewCode == CHOOSE c \in Codes : c \notin used

\* Mutant: the guard against a double tap comes after the update.
StoreCodeThenGuard(w) ==
  /\ At(w, "store")
  /\ ~request[w].seen.registered => ~registered
  /\ used # Codes
  /\ code' = NewCode /\ used' = used \cup {NewCode}
  /\ request' = [request EXCEPT ![w] = IF age = "new" THEN NoRequest
                                       ELSE [@ EXCEPT !.step = "mail", !.code = NewCode]]
  /\ registered' = TRUE /\ kind' = request[w].kind /\ age' = "new" /\ attempts' = 0
  /\ verified' = IF request[w].seen.verified = "past" THEN "no" ELSE request[w].seen.verified
  /\ late' = (late \/ password # request[w].seen.password
                 \/ verified # request[w].seen.verified)
  /\ UNCHANGED <<password, resetToken, profiles, inbox, bounds, lost, reset>>

\* A new OTP.  The row is inserted, which fails if there is one by now, or it is
\* updated, with what was read of the verification before: an expired one is reset.
StoreCode(w) ==
  /\ At(w, "store")
  /\ LET seen == request[w].seen
     IN \/ /\ ~seen.registered /\ registered
           /\ Finish(w)
           /\ UNCHANGED <<row, used, late>>
        \/ /\ seen.registered \/ ~registered
           /\ used # Codes
           /\ code' = NewCode /\ used' = used \cup {NewCode}
           /\ request' = [request EXCEPT ![w].step = "mail", ![w].code = NewCode]
           /\ registered' = TRUE /\ kind' = request[w].kind /\ age' = "new" /\ attempts' = 0
           /\ verified' = IF seen.verified = "past" THEN "no" ELSE seen.verified
           /\ late' = (late \/ password # seen.password \/ verified # seen.verified)
           /\ UNCHANGED <<password, resetToken>>
  /\ UNCHANGED <<profiles, inbox, bounds, lost, reset>>

\* sendOtpEmail
MailCode(w) ==
  /\ At(w, "mail")
  /\ inbox' = inbox \cup {request[w].code}
  /\ Finish(w)
  /\ UNCHANGED <<row, profiles, used, bounds, outcomes>>

-----------------------------------------------------------------------------
(* verifyOtp *)

VerifyOtp(w, c) ==
  /\ At(w, "idle")
  /\ c \in inbox \cup {NoCode}
  /\ registered /\ code # NoCode /\ attempts < MaxAttempts /\ age # "expired"
  /\ request' = [request EXCEPT ![w] =
                   [NoRequest EXCEPT !.step = IF c = code THEN "accept" ELSE "reject",
                                     !.code = c, !.seen = Row]]
  /\ UNCHANGED <<row, profiles, inbox, used, bounds, outcomes>>

\* The OTP matched the one read; whatever OTP the row has by now is cleared.
AcceptCode(w) ==
  /\ At(w, "accept")
  /\ verified' = "recent" /\ code' = NoCode /\ age' = "none" /\ attempts' = 0
  /\ Finish(w)
  /\ UNCHANGED <<registered, kind, password, resetToken, profiles, inbox, used, bounds,
                 lost, late, reset>>

RejectCode(w) ==
  /\ At(w, "reject")
  /\ attempts' = request[w].seen.attempts + 1
  /\ Finish(w)
  /\ UNCHANGED <<registered, kind, code, age, verified, password, resetToken,
                 profiles, inbox, used, bounds, outcomes>>

-----------------------------------------------------------------------------
(* signUp *)

SignUp(w) ==
  /\ At(w, "idle")
  /\ registered /\ ~password /\ verified = "recent"
  /\ request' = [request EXCEPT ![w] = [NoRequest EXCEPT !.step = "setPassword"]]
  /\ UNCHANGED <<row, profiles, inbox, used, bounds, outcomes>>

\* Mutant: the profile of the first kind only is made.
SetPasswordForOneKind(w) ==
  /\ At(w, "setPassword")
  /\ password' = TRUE /\ late' = (late \/ verified = "no")
  /\ request' = [request EXCEPT ![w].step = IF kind \in Profiled /\ kind = AnyKind
                                             THEN "findProfile" ELSE "session",
                                ![w].kind = kind, ![w].opens = TRUE]
  /\ UNCHANGED <<registered, kind, code, age, attempts, verified, resetToken,
                 profiles, inbox, used, bounds, lost, reset>>

\* The updated row says which profile is needed.
SetPassword(w) ==
  /\ At(w, "setPassword")
  /\ password' = TRUE /\ late' = (late \/ verified = "no")
  /\ request' = [request EXCEPT ![w].step = IF kind \in Profiled THEN "findProfile" ELSE "session",
                                ![w].kind = kind, ![w].opens = TRUE]
  /\ UNCHANGED <<registered, kind, code, age, attempts, verified, resetToken,
                 profiles, inbox, used, bounds, lost, reset>>

AfterProfile(w) == IF request[w].opens THEN Proceed(w, "session") ELSE Finish(w)

FindProfile(w) ==
  /\ At(w, "findProfile")
  /\ IF request[w].kind \in profiles THEN AfterProfile(w) ELSE Proceed(w, "createProfile")
  /\ UNCHANGED <<row, profiles, inbox, used, bounds, outcomes>>

\* userId is unique in Salon and in Stylist: a second insert throws.
CreateProfile(w) ==
  /\ At(w, "createProfile")
  /\ IF request[w].kind \in profiles THEN Finish(w) ELSE AfterProfile(w)
  /\ profiles' = profiles \cup {request[w].kind}
  /\ UNCHANGED <<row, inbox, used, bounds, outcomes>>

\* The refresh token is stored and the answer sent.
OpenSession(w) ==
  /\ At(w, "session") /\ Finish(w)
  /\ UNCHANGED <<row, profiles, inbox, used, bounds, outcomes>>

\* updateUser with a business name, by an account that can sign in.
UpdateUser(w) ==
  /\ At(w, "idle") /\ password /\ verified # "no" /\ kind \in Profiled \ profiles
  /\ request' = [request EXCEPT ![w] = [NoRequest EXCEPT !.step = "findProfile", !.kind = kind]]
  /\ UNCHANGED <<row, profiles, inbox, used, bounds, outcomes>>

-----------------------------------------------------------------------------
(* passwordReset, newPassword, newPasswordWithoutToken *)

PasswordReset(w) ==
  /\ Resets /\ At(w, "idle") /\ registered
  /\ resetToken' = TRUE
  /\ UNCHANGED <<registered, kind, code, age, attempts, verified, password,
                 profiles, inbox, request, used, bounds, outcomes>>

\* newPassword with the token that is stored
NewPassword(w) ==
  /\ At(w, "idle") /\ resetToken
  /\ request' = [request EXCEPT ![w] = [NoRequest EXCEPT !.step = "newPassword"]]
  /\ UNCHANGED <<row, profiles, inbox, used, bounds, outcomes>>

NewPasswordWithoutToken(w) ==
  /\ Resets /\ At(w, "idle") /\ registered
  /\ request' = [request EXCEPT ![w] = [NoRequest EXCEPT !.step = "overwrite"]]
  /\ UNCHANGED <<row, profiles, inbox, used, bounds, outcomes>>

StoreNewPassword(w) ==
  /\ At(w, "newPassword") \/ At(w, "overwrite")
  /\ resetToken' = (resetToken /\ At(w, "overwrite"))
  /\ password' = TRUE /\ reset' = TRUE
  /\ Finish(w)
  /\ UNCHANGED <<registered, kind, code, age, attempts, verified, profiles, inbox,
                 used, bounds, lost, late>>

-----------------------------------------------------------------------------
(* Time and faults *)

\* Five seconds after an OTP was stored.
SettleCode ==
  /\ age = "new" /\ age' = "old"
  /\ UNCHANGED <<registered, kind, code, attempts, verified, password, resetToken,
                 profiles, inbox, request, used, bounds, outcomes>>

\* OTP_TTL_MINUTES after it was stored.
ExpireCode ==
  /\ ticks < MaxTicks /\ ticks' = ticks + 1
  /\ age = "old" /\ age' = "expired"
  /\ UNCHANGED <<registered, kind, code, attempts, verified, password, resetToken,
                 profiles, inbox, request, used, faults, outcomes>>

\* OTP_VERIFIED_TTL_MINUTES after an OTP was accepted.
ExpireVerification ==
  /\ ticks < MaxTicks /\ ticks' = ticks + 1
  /\ verified = "recent" /\ verified' = "past"
  /\ UNCHANGED <<registered, kind, code, age, attempts, password, resetToken,
                 profiles, inbox, request, used, faults, outcomes>>

\* A request ends where it is: the mail server refuses, or a statement throws.
FailRequest(w) ==
  /\ faults < MaxFaults /\ faults' = faults + 1
  /\ ~At(w, "idle") /\ Finish(w)
  /\ lost' = IF At(w, "mail") THEN lost \cup {request[w].code} ELSE lost
  /\ UNCHANGED <<row, profiles, inbox, used, ticks, late, reset>>

Continue(w) ==
  \/ StoreCode(w) \/ MailCode(w) \/ AcceptCode(w) \/ RejectCode(w) \/ SetPassword(w)
  \/ FindProfile(w) \/ CreateProfile(w) \/ OpenSession(w) \/ StoreNewPassword(w)

RegistrationNext ==
  \/ \E w \in Requests :
       \/ \E k \in Kinds : Register(w, k)
       \/ \E c \in Codes \cup {NoCode} : VerifyOtp(w, c)
       \/ SignUp(w) \/ UpdateUser(w)
       \/ PasswordReset(w) \/ NewPassword(w) \/ NewPasswordWithoutToken(w)
       \/ Continue(w) \/ FailRequest(w)
  \/ SettleCode \/ ExpireCode \/ ExpireVerification

RegistrationSpec == RegistrationInit /\ [][RegistrationNext]_registrationVars

\* The user registers again, types an OTP that arrived, and signs up, again and
\* again; calls go on; five seconds pass.
Fairness ==
  /\ \A w \in Requests : WF_registrationVars(Continue(w))
  /\ SF_registrationVars(\E w \in Requests, k \in Kinds : Register(w, k))
  /\ SF_registrationVars(\E w \in Requests : code \in inbox /\ VerifyOtp(w, code))
  /\ SF_registrationVars(\E w \in Requests : SignUp(w))
  /\ WF_registrationVars(SettleCode)

FairSpec == RegistrationSpec /\ Fairness

-----------------------------------------------------------------------------
\* The row, the calls and the histories have their types.
RegistrationTypeOK ==
  /\ {registered, password, resetToken, late, reset} \subseteq BOOLEAN
  /\ kind \in Kinds /\ code \in Codes \cup {NoCode}
  /\ age \in {"none", "new", "old", "expired"}
  /\ verified \in {"no", "recent", "past"}
  /\ attempts \in 0..MaxAttempts
  /\ profiles \subseteq Profiled /\ inbox \subseteq used /\ used \subseteq Codes /\ lost \subseteq used
  /\ request \in [Requests ->
                  [step : RequestSteps, kind : Kinds, code : Codes \cup {NoCode}, opens : BOOLEAN,
                   seen : [registered : BOOLEAN, verified : {"no", "recent", "past"},
                           attempts : 0..MaxAttempts, password : BOOLEAN]]]
  /\ ticks \in 0..MaxTicks /\ faults \in 0..MaxFaults

\* The OTP the row has is one the user has, or is about to get, unless its mail
\* was lost: no order of registrations leaves an OTP nobody was told.
LiveCodeMailed ==
  code # NoCode =>
    \/ code \in inbox \cup lost
    \/ \E w \in Requests : At(w, "mail") /\ request[w].code = code

\* An account that has signed up can sign in: its verification is not taken back,
\* except by a register request that crossed the verification or the sign-up.
CanSignIn == password /\ verified = "no" => late \/ reset

\* A salon or stylist that has signed up has its profile, is being given it, or
\* lost it to a failed request, to a reset before signing up, or to a late register.
ProfileExplained ==
  password /\ kind \in Profiled \ profiles =>
    \/ faults > 0 \/ reset \/ late
    \/ \E w \in Requests : /\ request[w].step \in {"findProfile", "createProfile"}
                          /\ request[w].kind = kind

\* Who keeps trying gets an account, as long as there are new OTPs.
SignsUp == <>(password \/ used = Codes)

\* An OTP that was mailed is not replaced within five seconds.
MailedCodeStays ==
  [][age = "new" /\ code \in inbox => code' \in {code, NoCode}]_registrationVars
=============================================================================
