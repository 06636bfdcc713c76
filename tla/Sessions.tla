------------------------------- MODULE Sessions -------------------------------
(***************************************************************************)
(* The sessions of one account: signIn, refresh and signOut of AuthService *)
(* (src/modules/auth/auth.service.ts), the check every guarded request     *)
(* goes through (jwt.strategy.ts) and the hourly cleanup of tokens.        *)
(*                                                                         *)
(* A sign-in and each rotation of its refresh token make a grant: a        *)
(* RefreshToken row and an access token, a JWT that is stored nowhere and  *)
(* is good until it expires or is on the blocklist.  The grants that go    *)
(* back to one sign-in are a session.                                      *)
(***************************************************************************)
EXTENDS Naturals, FiniteSets

CONSTANTS
  Grants,   \* grants the account may be given (bounds sign-ins and rotations)
  Workers,  \* calls that may be in flight at the same time
  None,     \* "no grant"
  MaxExpired  \* bound: how many grants expire

ASSUME GrantsAssumption == None \notin Grants /\ MaxExpired \in Nat

VARIABLES
  refreshToken,    \* the RefreshToken row of each grant
  refreshExpired,  \* grants whose refresh token is past expiresAt
  accessExpired,   \* grants whose access token is past exp
  blocklist,       \* AccessTokenBlocklist: grants whose access token is on it
  session,         \* the sign-in each grant goes back to
  held,            \* grants an answer was sent for
  call,            \* what each worker is doing
  blocked,         \* history: access tokens that were put on the blocklist
  signedOut,       \* history: sessions that were signed out
  crossed          \* history: sessions with a rotation that crossed another
                   \* rotation or a sign-out

tokens == <<refreshToken, refreshExpired, accessExpired, blocklist, session>>
history == <<blocked, signedOut, crossed>>
vars == <<tokens, held, call, history>>

Steps == {"idle", "rotate", "create", "answer", "block", "revoke"}
\* grant: the one presented or made; target: the refresh token to sign out,
\* None for all of them.
Calls == [step : Steps, grant : Grants \cup {None}, target : Grants \cup {None}]
Idle == [step |-> "idle", grant |-> None, target |-> None]

Live == {g \in Grants : refreshToken[g] = "live"}
Unused == {g \in Grants : refreshToken[g] = "none"}
Rows(f) == {g \in Grants : session[g] = f}

Init ==
  /\ refreshToken = [g \in Grants |-> "none"]
  /\ refreshExpired = {} /\ accessExpired = {} /\ blocklist = {}
  /\ session = [g \in Grants |-> None]
  /\ held = {}
  /\ call = [w \in Workers |-> Idle]
  /\ blocked = {} /\ signedOut = {} /\ crossed = {}

Goto(w, step) == call' = [call EXCEPT ![w].step = step]
Return(w) == call' = [call EXCEPT ![w] = Idle]

-----------------------------------------------------------------------------
\* signIn with the right password.
SignIn(w) ==
  /\ call[w].step = "idle"
  /\ Goto(w, "create")
  /\ UNCHANGED <<tokens, held, history>>

\* refresh looks the token up: it must be neither revoked nor expired.
Refresh(w, g) ==
  /\ call[w].step = "idle"
  /\ g \in (held \cap Live) \ refreshExpired
  /\ call' = [call EXCEPT ![w] = [Idle EXCEPT !.step = "rotate", !.grant = g]]
  /\ UNCHANGED <<tokens, held, history>>

\* Mutant: the old refresh token stays good.
KeepOld(w) ==
  /\ call[w].step = "rotate"
  /\ Goto(w, "create")
  /\ UNCHANGED <<tokens, held, history>>

\* The old token is revoked, whatever has become of it since it was looked up; a
\* row that is gone makes the update throw.
RevokeOld(w) ==
  LET g == call[w].grant
  IN /\ call[w].step = "rotate"
     /\ \/ /\ refreshToken[g] = "gone"
           /\ Return(w)
           /\ UNCHANGED <<refreshToken, crossed>>
        \/ /\ refreshToken[g] # "gone"
           /\ Goto(w, "create")
           /\ refreshToken' = [refreshToken EXCEPT ![g] = "revoked"]
           /\ crossed' = IF g \in Live THEN crossed ELSE crossed \cup {session[g]}
     /\ UNCHANGED <<refreshExpired, accessExpired, blocklist, session, held, blocked, signedOut>>

\* The new refresh token is stored and an access token signed ...
CreateGrant(w) ==
  LET g == call[w].grant
  IN /\ call[w].step = "create"
     /\ \E new \in Unused :
          /\ refreshToken' = [refreshToken EXCEPT ![new] = "live"]
          /\ session' = [session EXCEPT ![new] = IF g = None THEN new ELSE session[g]]
          /\ call' = [call EXCEPT ![w] = [Idle EXCEPT !.step = "answer", !.grant = new]]
     /\ UNCHANGED <<refreshExpired, accessExpired, blocklist, held, history>>

\* ... and both are sent.
Answer(w) ==
  /\ call[w].step = "answer"
  /\ held' = held \cup {call[w].grant}
  /\ Return(w)
  /\ UNCHANGED <<tokens, history>>

\* signOut, for a request whose access token JwtStrategy.validate accepts, of
\* one refresh token or of all.
SignOut(w, g, target) ==
  /\ call[w].step = "idle"
  /\ g \in held \ (accessExpired \cup blocklist)
  /\ target \in held \cup {None}
  /\ call' = [call EXCEPT ![w] = [step |-> "block", grant |-> g, target |-> target]]
  /\ UNCHANGED <<tokens, held, history>>

BlockAccess(w) ==
  LET g == call[w].grant
  IN /\ call[w].step = "block"
     /\ blocklist' = blocklist \cup {g}
     /\ blocked' = blocked \cup {g}
     /\ Goto(w, "revoke")
     /\ UNCHANGED <<refreshToken, refreshExpired, accessExpired, session, held, signedOut, crossed>>

\* The refresh tokens a sign-out is about.
Targets(w) == IF call[w].target = None THEN Live ELSE Live \cap {call[w].target}

\* Mutant: without a target, the grant the request came with is revoked.
RevokeOwnToken(w) ==
  LET g == call[w].grant
  IN /\ call[w].step = "revoke"
     /\ refreshToken' = [refreshToken EXCEPT ![g] = IF g \in Live THEN "revoked" ELSE @]
     /\ signedOut' = signedOut \cup {session[h] : h \in Targets(w)}
     /\ Return(w)
     /\ UNCHANGED <<refreshExpired, accessExpired, blocklist, session, held, blocked, crossed>>

\* updateMany: a token that was rotated meanwhile is not live, and with it as
\* the target nothing is revoked.
RevokeTokens(w) ==
  LET rotating == {session[call[u].grant] :
                     u \in {v \in Workers : call[v].step = "create" /\ call[v].grant # None}}
      out == {session[g] : g \in Targets(w)}
  IN /\ call[w].step = "revoke"
     /\ refreshToken' = [g \in Grants |-> IF g \in Targets(w) THEN "revoked" ELSE refreshToken[g]]
     /\ signedOut' = signedOut \cup out
     /\ crossed' = crossed \cup (out \cap rotating)
     /\ Return(w)
     /\ UNCHANGED <<refreshExpired, accessExpired, blocklist, session, held, blocked>>

\* A statement throws, or the process stops: the call ends where it is.
Fail(w) ==
  /\ call[w].step # "idle"
  /\ Return(w)
  /\ UNCHANGED <<tokens, held, history>>

-----------------------------------------------------------------------------
\* Time: an access token expires before the refresh token it came with.
ExpireAccess(g) ==
  /\ g \in Grants \ (Unused \cup accessExpired)
  /\ Cardinality(accessExpired) < MaxExpired
  /\ accessExpired' = accessExpired \cup {g}
  /\ UNCHANGED <<refreshToken, refreshExpired, blocklist, session, held, call, history>>

ExpireRefresh(g) ==
  /\ g \in accessExpired \ refreshExpired
  /\ refreshExpired' = refreshExpired \cup {g}
  /\ UNCHANGED <<refreshToken, accessExpired, blocklist, session, held, call, history>>

\* handleCleanup deletes the expired rows of both tables, in parallel.
CleanRefreshTokens ==
  /\ \E g \in refreshExpired : refreshToken[g] # "gone"
  /\ refreshToken' = [g \in Grants |-> IF g \in refreshExpired THEN "gone" ELSE refreshToken[g]]
  /\ UNCHANGED <<refreshExpired, accessExpired, blocklist, session, held, call, history>>

\* Mutant: the blocklist is emptied every hour.
CleanWholeBlocklist ==
  /\ blocklist # {}
  /\ blocklist' = {}
  /\ UNCHANGED <<refreshToken, refreshExpired, accessExpired, session, held, call, history>>

CleanBlocklist ==
  /\ blocklist \cap accessExpired # {}
  /\ blocklist' = blocklist \ accessExpired
  /\ UNCHANGED <<refreshToken, refreshExpired, accessExpired, session, held, call, history>>

Next ==
  \/ \E w \in Workers :
       \/ SignIn(w)
       \/ \E g \in Grants : Refresh(w, g)
       \/ \E g \in Grants, target \in Grants \cup {None} : SignOut(w, g, target)
       \/ RevokeOld(w) \/ CreateGrant(w) \/ Answer(w)
       \/ BlockAccess(w) \/ RevokeTokens(w) \/ Fail(w)
  \/ \E g \in Grants : ExpireAccess(g) \/ ExpireRefresh(g)
  \/ CleanRefreshTokens \/ CleanBlocklist

Spec == Init /\ [][Next]_vars

-----------------------------------------------------------------------------
\* Tokens, calls and histories have their types; every row belongs to a session,
\* and what was sent out was stored before.
TypeOK ==
  /\ refreshToken \in [Grants -> {"none", "live", "revoked", "gone"}]
  /\ session \in [Grants -> Grants \cup {None}]
  /\ \A g \in Grants : session[g] = None <=> g \in Unused
  /\ refreshExpired \subseteq accessExpired
  /\ accessExpired \cup blocklist \cup held \subseteq Grants \ Unused
  /\ call \in [Workers -> Calls]
  /\ blocked \subseteq Grants /\ signedOut \subseteq Grants /\ crossed \subseteq Grants

\* A session that was signed out stays out: none of its refresh tokens is good,
\* unless a rotation crossed the sign-out, or made two sessions of it before.
SignedOutStaysOut ==
  \A g \in Live : session[g] \in signedOut => session[g] \in crossed

\* A refresh token buys one successor: a session has one good refresh token at
\* most, unless two rotations of the same token crossed (refresh looks it up
\* and revokes it in separate statements).
OneTokenPerSession ==
  \A f \in Grants : Cardinality(Rows(f) \cap Live) > 1 => f \in crossed

\* An access token that was signed out is on the blocklist for as long as its
\* signature would be accepted: the cleanup never forgets it too early.
BlockedWhileValid == blocked \subseteq blocklist \cup accessExpired
=============================================================================
