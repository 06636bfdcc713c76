----------------------------- MODULE Auth_proofs -----------------------------
(***************************************************************************)
(* Proofs about the two halves of auth.service.ts: Sessions, for any       *)
(* number of sign-ins, rotations, sign-outs and calls in flight; and       *)
(* Registration, for any number of OTPs, requests in flight and faults.    *)
(***************************************************************************)
EXTENDS Sessions, Registration, FiniteSetTheorems, TLAPS

-----------------------------------------------------------------------------
(* Sessions: the inductive invariant *)

Used == Grants \ Unused

\* The session a grant belongs to is one that exists.
Rooted ==
  /\ \A g \in Used : session[g] \in Used
  /\ signedOut \subseteq Used

\* OneTokenPerSession without counting.
NoTwins ==
  \A g, h \in Live : (g # h /\ session[g] = session[h]) => session[g] \in crossed

\* A rotation that has revoked its old token and not stored the new one.
Rotating(w) == call[w].step = "create" /\ call[w].grant # None

\* What a call in flight was given exists, and a rotation under way has left its
\* session without a good token, and with no sign-out behind it, unless it
\* crossed another call.
CallsRely ==
  /\ \A w \in Workers :
       /\ call[w].step \in {"rotate", "answer", "block", "revoke"} => call[w].grant \in Used
       /\ call[w].step = "idle" => call[w].grant = None
       /\ Rotating(w) => call[w].grant \in Used
       /\ Rotating(w) =>
            ((\/ session[call[w].grant] \in signedOut
              \/ \E g \in Live : session[g] = session[call[w].grant]) =>
                session[call[w].grant] \in crossed)
  /\ \A u, w \in Workers :
       (u # w /\ Rotating(u) /\ Rotating(w) /\ session[call[u].grant] = session[call[w].grant]) =>
          session[call[u].grant] \in crossed

SInv == TypeOK /\ Rooted /\ NoTwins /\ SignedOutStaysOut /\ BlockedWhileValid /\ CallsRely

\* It holds before the first sign-in.
LEMMA InitSInv == Init => SInv
<1> SUFFICES ASSUME Init PROVE SInv
  OBVIOUS
<1>1. Unused = Grants /\ Live = {} /\ Used = {}
  BY DEF Init, Unused, Live, Used
<1>2. Idle \in Calls /\ Idle.step = "idle" /\ Idle.grant = None
  BY DEF Idle, Calls, Steps
<1>3. TypeOK
  BY <1>1, <1>2 DEF Init, TypeOK
<1>4. CallsRely
  BY <1>2 DEF Init, CallsRely, Rotating
<1>5. QED
  BY <1>1, <1>3, <1>4 DEF Init, SInv, Rooted, NoTwins, SignedOutStaysOut, BlockedWhileValid

-----------------------------------------------------------------------------
(* One lemma per group of actions *)

\* A call that goes on, at a step that is no rotation under way unless it was
\* one, with a grant that exists; no refresh token changes.
LEMMA CallGoesOn ==
  ASSUME SInv, NEW w \in Workers, NEW k \in Calls, call' = [call EXCEPT ![w] = k],
         UNCHANGED <<refreshToken, refreshExpired, accessExpired, session, signedOut, crossed>>,
         k.step \in {"rotate", "answer", "block", "revoke"} => k.grant \in Used,
         k.step \in {"create", "idle"} => k.grant = None,
         held' \subseteq Used, blocklist' \subseteq Used, blocked' \subseteq Grants,
         blocked' \subseteq blocklist' \cup accessExpired
  PROVE  SInv'
<1>1. Unused' = Unused /\ Live' = Live /\ Used' = Used
  BY DEF Unused, Live, Used
<1>2. TypeOK'
  BY <1>1 DEF SInv, TypeOK, Used
<1>3. Rooted' /\ NoTwins' /\ SignedOutStaysOut' /\ BlockedWhileValid'
  BY <1>1 DEF SInv, Rooted, NoTwins, SignedOutStaysOut, BlockedWhileValid
<1>4. \A u \in Workers : /\ call'[u] = IF u = w THEN k ELSE call[u]
                         /\ Rotating(u)' => u # w /\ Rotating(u)
  BY DEF SInv, TypeOK, Rotating
<1>5. CallsRely'
  BY <1>1, <1>4 DEF SInv, CallsRely
<1>6. QED
  BY <1>2, <1>3, <1>5 DEF SInv

\* A call ends, or starts, or sends what it has made.
LEMMA StepsOutside ==
  ASSUME SInv, NEW w \in Workers,
         \/ SignIn(w) \/ \E g \in Grants : Refresh(w, g)
         \/ \E g \in Grants, target \in Grants \cup {None} : SignOut(w, g, target)
         \/ Answer(w) \/ BlockAccess(w) \/ Fail(w)
  PROVE  SInv'
<1>1. /\ call[w] \in Calls /\ held \subseteq Used /\ blocklist \subseteq Used
      /\ blocked \subseteq Grants /\ blocked \subseteq blocklist \cup accessExpired
      /\ call[w].step \in {"rotate", "answer", "block", "revoke"} => call[w].grant \in Used
      /\ Used \subseteq Grants
  BY DEF SInv, TypeOK, BlockedWhileValid, CallsRely, Used
<1>2. Idle \in Calls /\ Idle.step = "idle" /\ Idle.grant = None
  BY DEF Idle, Calls, Steps
<1>3. CASE SignIn(w)
  <2> DEFINE k == [call[w] EXCEPT !.step = "create"]
  <2>1. call[w].grant = None
    BY <1>3 DEF SignIn, SInv, CallsRely
  <2>2. k \in Calls /\ k.step = "create" /\ k.grant = None
    BY <1>1, <2>1 DEF Calls, Steps
  <2>3. call' = [call EXCEPT ![w] = k]
    BY <1>3 DEF SignIn, Goto
  <2> HIDE DEF k
  <2>4. QED
    BY <1>1, <1>3, <2>2, <2>3, CallGoesOn DEF SignIn, tokens, history
<1>4. ASSUME NEW g \in Grants, Refresh(w, g)
      PROVE  SInv'
  <2> DEFINE k == [Idle EXCEPT !.step = "rotate", !.grant = g]
  <2>1. k \in Calls /\ k.step = "rotate" /\ k.grant \in Used
    BY <1>1, <1>4 DEF Refresh, Idle, Calls, Steps
  <2>2. call' = [call EXCEPT ![w] = k]
    BY <1>4 DEF Refresh
  <2> HIDE DEF k
  <2>3. QED
    BY <1>1, <1>4, <2>1, <2>2, CallGoesOn DEF Refresh, tokens, history
<1>5. ASSUME NEW g \in Grants, NEW target \in Grants \cup {None}, SignOut(w, g, target)
      PROVE  SInv'
  <2> DEFINE k == [step |-> "block", grant |-> g, target |-> target]
  <2>1. k \in Calls /\ k.step = "block" /\ k.grant \in Used
    BY <1>1, <1>5 DEF SignOut, Calls, Steps
  <2>2. call' = [call EXCEPT ![w] = k]
    BY <1>5 DEF SignOut
  <2> HIDE DEF k
  <2>3. QED
    BY <1>1, <1>5, <2>1, <2>2, CallGoesOn DEF SignOut, tokens, history
<1>6. CASE Answer(w)
  <2>1. held' \subseteq Used
    BY <1>1, <1>6 DEF Answer
  <2>2. QED
    BY <1>1, <1>2, <1>6, <2>1, CallGoesOn DEF Answer, Return, tokens, history
<1>7. CASE BlockAccess(w)
  <2> DEFINE k == [call[w] EXCEPT !.step = "revoke"]
  <2>1. k \in Calls /\ k.step = "revoke" /\ k.grant = call[w].grant
    BY <1>1 DEF Calls, Steps
  <2>2. call' = [call EXCEPT ![w] = k] /\ call[w].grant \in Used
    BY <1>1, <1>7 DEF BlockAccess, Goto
  <2>3. /\ blocklist' \subseteq Used /\ blocked' \subseteq Grants
        /\ blocked' \subseteq blocklist' \cup accessExpired /\ held' \subseteq Used
        /\ UNCHANGED <<refreshToken, refreshExpired, accessExpired, session, signedOut, crossed>>
    BY <1>1, <1>7, <2>2 DEF BlockAccess
  <2> HIDE DEF k
  <2>4. QED
    BY <2>1, <2>2, <2>3, CallGoesOn
<1>8. CASE Fail(w)
  BY <1>1, <1>2, <1>8, CallGoesOn DEF Fail, Return, tokens, history
<1>9. QED
  BY <1>3, <1>4, <1>5, <1>6, <1>7, <1>8

\* A rotation revokes its old token.  If that was good, no other was, and no
\* rotation of the session was under way, unless they crossed.
LEMMA RevokeOldInv ==
  ASSUME SInv, NEW w \in Workers, RevokeOld(w)
  PROVE  SInv'
<1> DEFINE g == call[w].grant
<1>1. call[w] \in Calls /\ call[w].step = "rotate" /\ g \in Used /\ g \in Grants
  BY DEF RevokeOld, SInv, TypeOK, CallsRely, Used
<1>2. CASE refreshToken[g] = "gone" /\ Return(w) /\ UNCHANGED <<refreshToken, crossed>>
  <2>1. Idle \in Calls /\ Idle.step = "idle" /\ Idle.grant = None
    BY DEF Idle, Calls, Steps
  <2>2. QED
    BY <1>2, <2>1, CallGoesOn
       DEF RevokeOld, Return, SInv, TypeOK, BlockedWhileValid, Used
<1>3. CASE /\ refreshToken[g] # "gone" /\ Goto(w, "create")
           /\ refreshToken' = [refreshToken EXCEPT ![g] = "revoked"]
           /\ crossed' = IF g \in Live THEN crossed ELSE crossed \cup {session[g]}
  <2> DEFINE k == [call[w] EXCEPT !.step = "create"]
  <2>1. k \in Calls /\ k.step = "create" /\ k.grant = g
    BY <1>1 DEF Calls, Steps
  <2>2. /\ call' = [call EXCEPT ![w] = k] /\ call'[w] = k
        /\ \A u \in Workers \ {w} : call'[u] = call[u]
        /\ UNCHANGED <<refreshExpired, accessExpired, blocklist, session, held, blocked, signedOut>>
    BY <1>3 DEF RevokeOld, Goto, SInv, TypeOK
  <2>3. Unused' = Unused /\ Used' = Used /\ Live' = Live \ {g}
    BY <1>1, <1>3 DEF SInv, TypeOK, Unused, Used, Live
  <2>4. crossed \subseteq crossed' /\ (g \notin Live => session[g] \in crossed')
        /\ session[g] \in Used
    BY <1>1, <1>3 DEF SInv, Rooted
  <2>5. /\ \A h \in Live' : session[h] = session[g] => session[g] \in crossed'
        /\ session[g] \in signedOut => session[g] \in crossed'
    BY <2>3, <2>4 DEF SInv, NoTwins, SignedOutStaysOut
  <2>6. ASSUME NEW u \in Workers \ {w}, Rotating(u), session[call[u].grant] = session[g]
        PROVE  session[g] \in crossed'
    BY <2>4, <2>6 DEF SInv, CallsRely
  <2> HIDE DEF k, g
  <2>7. TypeOK'
    <3>1. crossed' \subseteq Grants
      BY <1>3, <2>4 DEF SInv, TypeOK, Used
    <3>2. refreshToken' \in [Grants -> {"none", "live", "revoked", "gone"}]
      BY <1>3 DEF SInv, TypeOK
    <3>3. QED
      BY <2>1, <2>2, <2>3, <3>1, <3>2 DEF SInv, TypeOK
  <2>8. Rooted' /\ NoTwins' /\ SignedOutStaysOut' /\ BlockedWhileValid'
    BY <2>2, <2>3, <2>4 DEF SInv, Rooted, NoTwins, SignedOutStaysOut, BlockedWhileValid
  <2>9. CallsRely'
    <3>1. /\ \A u \in Workers \ {w} : Rotating(u)' <=> Rotating(u)
          /\ call'[w].step = "create" /\ call'[w].grant = g
      BY <2>1, <2>2 DEF Rotating
    <3>2. ASSUME NEW u \in Workers
          PROVE  /\ call'[u].step \in {"rotate", "answer", "block", "revoke"} => call'[u].grant \in Used'
                 /\ call'[u].step = "idle" => call'[u].grant = None
                 /\ Rotating(u)' => call'[u].grant \in Used'
                 /\ Rotating(u)' =>
                      ((\/ session'[call'[u].grant] \in signedOut'
                        \/ \E h \in Live' : session'[h] = session'[call'[u].grant]) =>
                           session'[call'[u].grant] \in crossed')
      BY <1>1, <2>2, <2>3, <2>4, <2>5, <3>1 DEF SInv, CallsRely, g
    <3>3. ASSUME NEW u \in Workers, NEW v \in Workers, u # v, Rotating(u)', Rotating(v)',
                 session'[call'[u].grant] = session'[call'[v].grant]
          PROVE  session'[call'[u].grant] \in crossed'
      <4>1. CASE u = w
        BY <2>2, <2>6, <3>1, <3>3, <4>1
      <4>2. CASE v = w
        BY <2>2, <2>6, <3>1, <3>3, <4>2
      <4>3. CASE u # w /\ v # w
        BY <2>2, <2>4, <3>1, <3>3, <4>3 DEF SInv, CallsRely
      <4>4. QED
        BY <4>1, <4>2, <4>3
    <3>4. QED
      BY <3>2, <3>3 DEF CallsRely
  <2>10. QED
    BY <2>7, <2>8, <2>9 DEF SInv
<1>4. QED
  BY <1>2, <1>3 DEF RevokeOld

\* The new token joins the session of the old one, which has no good token left;
\* a sign-in's token starts a session of its own.
LEMMA CreateGrantInv ==
  ASSUME SInv, NEW w \in Workers, CreateGrant(w)
  PROVE  SInv'
<1> DEFINE g == call[w].grant
<1>1. PICK new \in Unused :
        /\ refreshToken' = [refreshToken EXCEPT ![new] = "live"]
        /\ session' = [session EXCEPT ![new] = IF g = None THEN new ELSE session[g]]
        /\ call' = [call EXCEPT ![w] = [Idle EXCEPT !.step = "answer", !.grant = new]]
  BY DEF CreateGrant
<1>2. /\ UNCHANGED <<refreshExpired, accessExpired, blocklist, held, blocked, signedOut, crossed>>
      /\ call[w].step = "create" /\ call[w] \in Calls
      /\ g # None => Rotating(w) /\ g \in Used /\ session[g] \in Used
      /\ new \in Grants /\ new \notin Used
  BY DEF CreateGrant, history, SInv, TypeOK, CallsRely, Rotating, Rooted, Unused, Used
<1> DEFINE k == [Idle EXCEPT !.step = "answer", !.grant = new]
           f == IF g = None THEN new ELSE session[g]
<1>3. k \in Calls /\ k.step = "answer" /\ k.grant = new
  BY <1>2 DEF Idle, Calls, Steps
<1>4. /\ call'[w] = k /\ \A u \in Workers \ {w} : call'[u] = call[u]
      /\ call' \in [Workers -> Calls]
  BY <1>1, <1>3 DEF SInv, TypeOK
<1>5. /\ f \in Grants /\ session'[new] = f
      /\ \A h \in Grants \ {new} : session'[h] = session[h] /\ refreshToken'[h] = refreshToken[h]
      /\ session' \in [Grants -> Grants \cup {None}]
      /\ refreshToken' \in [Grants -> {"none", "live", "revoked", "gone"}]
      /\ refreshToken'[new] = "live"
  BY <1>1, <1>2 DEF SInv, TypeOK, Used
<1>6. Used' = Used \cup {new} /\ Live' = Live \cup {new} /\ Unused' = Unused \ {new}
  BY <1>2, <1>5 DEF Unused, Used, Live
<1>7. Live \subseteq Used /\ new \notin Live
  BY <1>2 DEF Live, Used, Unused
<1>8. /\ f \in Used'
      /\ \A h \in Live : session[h] = f => f \in crossed
      /\ f \in signedOut => f \in crossed
      /\ \A u \in Workers \ {w} : (Rotating(u) /\ session[call[u].grant] = f) => f \in crossed
  <2>1. CASE g = None
    <3>1. \A u \in Workers : Rotating(u) => session[call[u].grant] \in Used
      BY DEF SInv, CallsRely, Rooted
    <3>2. \A h \in Used : session[h] # new
      BY <1>2 DEF SInv, Rooted
    <3>3. QED
      BY <1>2, <1>6, <1>7, <2>1, <3>1, <3>2 DEF SInv, Rooted
  <2>2. CASE g # None
    BY <1>2, <1>6, <2>2 DEF SInv, CallsRely
  <2>3. QED
    BY <2>1, <2>2
<1> HIDE DEF k, f, g
<1>9. TypeOK'
  <2>1. \A h \in Grants : session'[h] = None <=> h \in Unused'
    BY <1>2, <1>5, <1>6, GrantsAssumption DEF SInv, TypeOK
  <2>2. /\ refreshExpired' \subseteq accessExpired' /\ blocked' \subseteq Grants
        /\ signedOut' \subseteq Grants /\ crossed' \subseteq Grants
        /\ accessExpired' \cup blocklist' \cup held' \subseteq Grants \ Unused'
    BY <1>2, <1>6 DEF SInv, TypeOK
  <2>3. QED
    BY <1>4, <1>5, <2>1, <2>2 DEF TypeOK
<1>10. Rooted'
  BY <1>2, <1>5, <1>6, <1>8 DEF SInv, Rooted, Used
<1>11. NoTwins'
  BY <1>2, <1>5, <1>6, <1>7, <1>8 DEF SInv, NoTwins, Live
<1>12. SignedOutStaysOut' /\ BlockedWhileValid'
  BY <1>2, <1>5, <1>6, <1>7, <1>8 DEF SInv, SignedOutStaysOut, BlockedWhileValid, Live
<1>13. CallsRely'
  <2>1. /\ ~Rotating(w)' /\ \A u \in Workers \ {w} : Rotating(u)' <=> Rotating(u)
        /\ call'[w].step = "answer" /\ call'[w].grant = new
    BY <1>3, <1>4 DEF Rotating
  <2>2. ASSUME NEW u \in Workers, Rotating(u)'
        PROVE  /\ u # w /\ Rotating(u) /\ call'[u] = call[u] /\ call[u].grant \in Used
               /\ session'[call[u].grant] = session[call[u].grant]
    BY <1>2, <1>4, <1>5, <2>1, <2>2 DEF SInv, CallsRely, Used
  <2>3. ASSUME NEW u \in Workers
        PROVE  /\ call'[u].step \in {"rotate", "answer", "block", "revoke"} => call'[u].grant \in Used'
               /\ call'[u].step = "idle" => call'[u].grant = None
    BY <1>4, <1>6, <2>1 DEF SInv, CallsRely
  <2>4. ASSUME NEW u \in Workers, Rotating(u)'
        PROVE  /\ call'[u].grant \in Used'
               /\ (\/ session'[call'[u].grant] \in signedOut'
                   \/ \E h \in Live' : session'[h] = session'[call'[u].grant]) =>
                     session'[call'[u].grant] \in crossed'
    <3>1. \A h \in Live : session'[h] = session[h]
      BY <1>5, <1>7 DEF Live
    <3>2. QED
      BY <1>2, <1>5, <1>6, <1>8, <2>2, <2>4, <3>1 DEF SInv, CallsRely
  <2>5. ASSUME NEW u \in Workers, NEW v \in Workers, u # v, Rotating(u)', Rotating(v)',
               session'[call'[u].grant] = session'[call'[v].grant]
        PROVE  session'[call'[u].grant] \in crossed'
    BY <1>2, <2>2, <2>5 DEF SInv, CallsRely
  <2>6. QED
    BY <2>3, <2>4, <2>5 DEF CallsRely
<1>14. QED
  BY <1>9, <1>10, <1>11, <1>12, <1>13 DEF SInv

\* A sign-out revokes good tokens and leaves a mark on their sessions; where
\* another good token or a rotation of the session is left, something crossed.
LEMMA RevokeTokensInv ==
  ASSUME SInv, NEW w \in Workers, RevokeTokens(w)
  PROVE  SInv'
<1> DEFINE rotating == {session[call[u].grant] :
                          u \in {v \in Workers : call[v].step = "create" /\ call[v].grant # None}}
           out == {session[g] : g \in Targets(w)}
<1>1. /\ refreshToken' = [g \in Grants |-> IF g \in Targets(w) THEN "revoked" ELSE refreshToken[g]]
      /\ signedOut' = signedOut \cup out /\ crossed' = crossed \cup (out \cap rotating)
      /\ call' = [call EXCEPT ![w] = Idle]
      /\ UNCHANGED <<refreshExpired, accessExpired, blocklist, session, held, blocked>>
  BY DEF RevokeTokens, Return
<1>2. /\ Idle \in Calls /\ Idle.step = "idle" /\ Idle.grant = None
      /\ call' \in [Workers -> Calls] /\ call'[w] = Idle
      /\ \A u \in Workers \ {w} : call'[u] = call[u]
  BY <1>1 DEF Idle, Calls, Steps, SInv, TypeOK
<1>3. /\ Targets(w) \subseteq Live /\ Live \subseteq Used /\ Live \subseteq Grants
      /\ \A g \in Live \ Targets(w) : \A h \in Targets(w) : call[w].target = h /\ g # h
  BY DEF Targets, Live, Used, Unused
<1>4. /\ Unused' = Unused /\ Used' = Used /\ Live' = Live \ Targets(w)
      /\ refreshToken' \in [Grants -> {"none", "live", "revoked", "gone"}]
  BY <1>1, <1>3 DEF SInv, TypeOK, Unused, Used, Live
<1>5. out \subseteq Used /\ crossed \subseteq crossed'
      /\ \A s \in out : s \in rotating => s \in crossed'
  BY <1>1, <1>3 DEF SInv, Rooted
<1>6. \A s \in out : \E h \in Targets(w) : s = session[h]
  OBVIOUS
<1>7. \A u \in Workers : Rotating(u) => session[call[u].grant] \in rotating
  BY DEF Rotating
<1> HIDE DEF out, rotating
<1>8. TypeOK'
  <2>1. crossed' \subseteq Grants /\ signedOut' \subseteq Grants
    BY <1>1, <1>5 DEF SInv, TypeOK, Used
  <2>2. QED
    BY <1>1, <1>2, <1>4, <2>1 DEF SInv, TypeOK
<1>9. Rooted' /\ NoTwins' /\ BlockedWhileValid'
  BY <1>1, <1>4, <1>5 DEF SInv, Rooted, NoTwins, BlockedWhileValid
<1>10. SignedOutStaysOut'
  <2>1. ASSUME NEW g \in Live', session[g] \in signedOut'
        PROVE  session[g] \in crossed'
    <3>1. CASE session[g] \in signedOut
      BY <1>4, <1>5, <3>1 DEF SInv, SignedOutStaysOut
    <3>2. CASE session[g] \in out
      BY <1>3, <1>4, <1>5, <1>6, <3>2 DEF SInv, NoTwins
    <3>3. QED
      BY <1>1, <2>1, <3>1, <3>2
  <2>2. QED
    BY <1>1, <2>1 DEF SignedOutStaysOut
<1>11. CallsRely'
  <2>1. ~Rotating(w)' /\ \A u \in Workers \ {w} : Rotating(u)' <=> Rotating(u)
    BY <1>2 DEF Rotating
  <2>2. ASSUME NEW u \in Workers
        PROVE  /\ call'[u].step \in {"rotate", "answer", "block", "revoke"} => call'[u].grant \in Used'
               /\ call'[u].step = "idle" => call'[u].grant = None
               /\ Rotating(u)' => call'[u].grant \in Used'
    BY <1>2, <1>4, <2>1 DEF SInv, CallsRely
  <2>3. ASSUME NEW u \in Workers, Rotating(u)',
               \/ session[call[u].grant] \in signedOut'
               \/ \E h \in Live' : session[h] = session[call[u].grant]
        PROVE  session[call[u].grant] \in crossed'
    BY <1>1, <1>4, <1>5, <1>7, <2>1, <2>3 DEF SInv, CallsRely
  <2>4. ASSUME NEW u \in Workers, NEW v \in Workers, u # v, Rotating(u)', Rotating(v)',
               session[call[u].grant] = session[call[v].grant]
        PROVE  session[call[u].grant] \in crossed'
    BY <1>5, <2>1, <2>4 DEF SInv, CallsRely
  <2>5. QED
    BY <1>1, <1>2, <2>1, <2>2, <2>3, <2>4 DEF CallsRely
<1>12. QED
  BY <1>8, <1>9, <1>10, <1>11 DEF SInv

\* Expiry and the cleanup: tokens only get worse, and the blocklist forgets only
\* what has expired.
LEMMA TimeInv ==
  ASSUME SInv,
         \/ \E g \in Grants : ExpireAccess(g) \/ ExpireRefresh(g)
         \/ CleanRefreshTokens \/ CleanBlocklist
  PROVE  SInv'
<1>1. /\ UNCHANGED <<session, held, call, history>>
      /\ Live' \subseteq Live /\ Unused' = Unused /\ Used' = Used
      /\ refreshToken' \in [Grants -> {"none", "live", "revoked", "gone"}]
  <2>1. CASE CleanRefreshTokens
    <3>1. \A g \in refreshExpired : g \in Grants /\ refreshToken[g] # "none"
      BY DEF SInv, TypeOK, Unused
    <3>2. QED
      BY <2>1, <3>1 DEF CleanRefreshTokens, SInv, TypeOK, Live, Unused, Used
  <2>2. CASE ~CleanRefreshTokens
    BY <2>2 DEF ExpireAccess, ExpireRefresh, CleanBlocklist, SInv, TypeOK, Live, Unused, Used
  <2>3. QED
    BY <2>1, <2>2
<1>2. /\ refreshExpired' \subseteq accessExpired'
      /\ accessExpired' \cup blocklist' \cup held' \subseteq Used
      /\ blocked' \subseteq blocklist' \cup accessExpired'
  BY DEF ExpireAccess, ExpireRefresh, CleanRefreshTokens, CleanBlocklist, SInv, TypeOK,
         BlockedWhileValid, Used, history
<1>3. TypeOK'
  BY <1>1, <1>2 DEF SInv, TypeOK, Used, history
<1>4. Rooted' /\ NoTwins' /\ SignedOutStaysOut' /\ BlockedWhileValid'
  BY <1>1, <1>2 DEF SInv, Rooted, NoTwins, SignedOutStaysOut, BlockedWhileValid, history
<1>5. CallsRely'
  BY <1>1 DEF SInv, CallsRely, Rotating, history
<1>6. QED
  BY <1>3, <1>4, <1>5 DEF SInv

-----------------------------------------------------------------------------
(* Theorems *)

\* Every action keeps the invariant.
LEMMA NextSInv == SInv /\ [Next]_vars => SInv'
<1> SUFFICES ASSUME SInv, [Next]_vars PROVE SInv'
  OBVIOUS
<1>1. CASE Next
  BY <1>1, StepsOutside, RevokeOldInv, CreateGrantInv, RevokeTokensInv, TimeInv DEF Next
<1>2. CASE UNCHANGED vars
  <2>1. Live' = Live /\ Unused' = Unused /\ Used' = Used
    BY <1>2 DEF vars, tokens, Live, Unused, Used
  <2>2. TypeOK' /\ Rooted' /\ NoTwins' /\ SignedOutStaysOut' /\ BlockedWhileValid'
    BY <1>2, <2>1 DEF vars, tokens, history, SInv, TypeOK, Rooted, NoTwins,
                      SignedOutStaysOut, BlockedWhileValid
  <2>3. CallsRely'
    BY <1>2, <2>1 DEF vars, tokens, history, SInv, CallsRely, Rotating
  <2>4. QED
    BY <2>2, <2>3 DEF SInv
<1>3. QED
  BY <1>1, <1>2

\* The inductive invariant holds of every behaviour.
THEOREM SInvHolds == Spec => []SInv
<1>1. QED
  BY InitSInv, NextSInv, PTL DEF Spec

\* Rows, calls and histories have their types, and what was sent out was stored.
THEOREM TypeCorrect == Spec => []TypeOK
<1>1. SInv => TypeOK
  BY DEF SInv
<1>2. QED
  BY <1>1, SInvHolds, PTL

\* A session that was signed out stays out, unless a rotation crossed the
\* sign-out or another rotation.
THEOREM SignedOutCorrect == Spec => []SignedOutStaysOut
<1>1. SInv => SignedOutStaysOut
  BY DEF SInv
<1>2. QED
  BY <1>1, SInvHolds, PTL

\* A session has one good refresh token at most, unless two rotations crossed.
THEOREM OneTokenCorrect == Spec => []OneTokenPerSession
<1>1. ASSUME SInv, NEW f \in Grants, f \notin crossed
      PROVE  ~(Cardinality(Rows(f) \cap Live) > 1)
  <2> DEFINE S == Rows(f) \cap Live
  <2>1. \A g, h \in S : g = h
    BY <1>1 DEF SInv, NoTwins, Rows
  <2> HIDE DEF S
  <2>2. S = {} \/ \E g : S = {g}
    BY <2>1
  <2>3. Cardinality(S) = 0 \/ Cardinality(S) = 1
    BY <2>2, FS_EmptySet, FS_Singleton
  <2>4. QED
    BY <2>3 DEF S
<1>2. SInv => OneTokenPerSession
  BY <1>1 DEF OneTokenPerSession
<1>3. QED
  BY <1>2, SInvHolds, PTL

\* An access token that was signed out is refused for as long as its signature
\* would be accepted.
THEOREM BlockedCorrect == Spec => []BlockedWhileValid
<1>1. SInv => BlockedWhileValid
  BY DEF SInv
<1>2. QED
  BY <1>1, SInvHolds, PTL

-----------------------------------------------------------------------------
(* Registration: its inductive invariant, and what a request is. *)

\* What a request knows.
Seen == [registered : BOOLEAN, verified : {"no", "recent", "past"},
         attempts : 0..MaxAttempts, password : BOOLEAN]
Request == [step : RequestSteps, kind : Kinds, code : Codes \cup {NoCode}, opens : BOOLEAN,
            seen : Seen]

\* A register call saw no password, a mail carries an OTP that was generated, a
\* wrong OTP was counted below the limit, and a profile is made for those who have
\* one.
KnownRequest(k, codes) ==
  /\ k.step = "store" => ~k.seen.password
  /\ k.step = "mail" => k.code \in codes
  /\ k.step = "reject" => k.seen.attempts < MaxAttempts
  /\ k.step \in {"findProfile", "createProfile"} => k.kind \in Profiled

RequestsKnown == \A w \in Requests : KnownRequest(request[w], used)

RegistrationInv ==
  /\ RegistrationTypeOK /\ RequestsKnown
  /\ LiveCodeMailed /\ CanSignIn /\ ProfileExplained

\* Request w goes on as k, the others as before.
RequestBecomes(w, k) ==
  /\ k \in Request
  /\ request' \in [Requests -> Request]
  /\ request'[w] = k
  /\ \A v \in Requests \ {w} : request'[v] = request[v]

LEMMA RequestType ==
  ASSUME RegistrationTypeOK
  PROVE  /\ request \in [Requests -> Request]
         /\ NoRequest \in Request /\ NoRequest.step = "idle" /\ Row \in Seen
<1>1. AnyKind \in Kinds
  BY AccountAssumption DEF AnyKind
<1>2. Blank \in Seen
  BY AccountAssumption DEF Blank, Seen
<1>3. NoRequest \in Request /\ NoRequest.step = "idle"
  BY <1>1, <1>2 DEF NoRequest, Request, RequestSteps
<1>4. Row \in Seen
  BY DEF RegistrationTypeOK, Row, Seen
<1>5. QED
  BY <1>3, <1>4 DEF RegistrationTypeOK, Request, Seen

LEMMA FinishIs ==
  ASSUME RegistrationTypeOK, NEW w \in Requests, Finish(w)
  PROVE  RequestBecomes(w, NoRequest)
<1>1. request \in [Requests -> Request] /\ NoRequest \in Request
  BY RequestType
<1> HIDE DEF NoRequest, Request
<1>2. QED  BY <1>1 DEF Finish, RequestBecomes

LEMMA ProceedIs ==
  ASSUME RegistrationTypeOK, NEW w \in Requests, NEW s \in RequestSteps, Proceed(w, s)
  PROVE  \E k \in Request :
           /\ RequestBecomes(w, k) /\ k.step = s
           /\ k.kind = request[w].kind /\ k.opens = request[w].opens
<1> DEFINE k == [request[w] EXCEPT !.step = s]
<1>1. request \in [Requests -> Request] /\ request[w] \in Request
  BY RequestType
<1>2. /\ k \in Request /\ k.step = s
      /\ k.kind = request[w].kind /\ k.opens = request[w].opens
  BY <1>1 DEF Request
<1>3. request' = [request EXCEPT ![w] = k]
  BY DEF Proceed
<1> HIDE DEF k, Request
<1>4. RequestBecomes(w, k)
  BY <1>1, <1>2, <1>3 DEF RequestBecomes
<1>5. QED  BY <1>2, <1>4

\* A request that starts out has read the row, and nothing else happens.
LEMMA BeginIs ==
  ASSUME RegistrationTypeOK, NEW w \in Requests, NEW k \in Request,
         request' = [request EXCEPT ![w] = k]
  PROVE  RequestBecomes(w, k)
<1>1. request \in [Requests -> Request]
  BY RequestType
<1>2. QED  BY <1>1 DEF RequestBecomes

\* A request goes on, and nothing else changes: neither its mail nor the profile
\* it was about to make is forgotten.
LEMMA RequestMoves ==
  ASSUME RegistrationInv, NEW w \in Requests, NEW k \in Request, RequestBecomes(w, k),
         KnownRequest(k, used),
         UNCHANGED <<row, profiles, inbox, used, ticks, late, reset>>,
         \/ faults' = faults /\ lost' = lost
         \/ /\ faults < MaxFaults /\ faults' = faults + 1
            /\ lost' = IF At(w, "mail") THEN lost \cup {request[w].code} ELSE lost,
         At(w, "mail") => faults' # faults,
         At(w, "findProfile") \/ At(w, "createProfile") =>
           \/ faults' # faults \/ request[w].kind \in profiles
           \/ k.step = "createProfile" /\ k.kind = request[w].kind
  PROVE  RegistrationInv'
<1> USE DEF row
<1>1. \A v \in Requests : request'[v] = IF v = w THEN k ELSE request[v]
  BY DEF RequestBecomes
<1>2. faults \in Nat /\ faults' \in 0..MaxFaults /\ (faults' = faults \/ faults' > 0)
  BY AccountAssumption DEF RegistrationInv, RegistrationTypeOK
<1>3. RegistrationTypeOK'
  <2>1. lost' \subseteq used
    BY DEF RegistrationInv, RegistrationTypeOK, RequestsKnown, KnownRequest, At
  <2>2. QED
    BY <1>2, <2>1 DEF RegistrationInv, RegistrationTypeOK, RequestBecomes, Request, Seen
<1>4. RequestsKnown'
  BY <1>1 DEF RegistrationInv, RequestsKnown, KnownRequest
<1>5. LiveCodeMailed'
  BY <1>1 DEF RegistrationInv, LiveCodeMailed, At
<1>6. CanSignIn'
  BY DEF RegistrationInv, CanSignIn
<1>7. ProfileExplained'
  BY <1>1, <1>2 DEF RegistrationInv, ProfileExplained, At
<1>8. QED  BY <1>3, <1>4, <1>5, <1>6, <1>7 DEF RegistrationInv

-----------------------------------------------------------------------------
\* Calls that read the row, and decide.
LEMMA BeginSteps ==
  ASSUME RegistrationInv, NEW w \in Requests,
         \/ \E k \in Kinds : Register(w, k)
         \/ \E c \in Codes \cup {NoCode} : VerifyOtp(w, c)
         \/ SignUp(w) \/ UpdateUser(w) \/ NewPassword(w) \/ NewPasswordWithoutToken(w)
  PROVE  RegistrationInv'
<1> USE DEF row, bounds, outcomes
<1>1. /\ NoRequest \in Request /\ NoRequest.step = "idle" /\ Row \in Seen
      /\ request[w].step = "idle"
  BY RequestType DEF RegistrationInv, Register, VerifyOtp, SignUp, UpdateUser, NewPassword,
     NewPasswordWithoutToken, At
<1>2. ASSUME NEW k \in Request, request' = [request EXCEPT ![w] = k], KnownRequest(k, used),
             UNCHANGED <<row, profiles, inbox, used, bounds, outcomes>>
      PROVE  RegistrationInv'
  BY <1>1, <1>2, BeginIs, RequestMoves DEF RegistrationInv, At
<1>3. ASSUME NEW k \in Kinds, Register(w, k)
      PROVE  RegistrationInv'
  <2> DEFINE q == [NoRequest EXCEPT !.step = "store", !.kind = k, !.seen = Row]
  <2>1. q \in Request /\ q.step = "store" /\ q.seen = Row
    BY <1>1 DEF Request, RequestSteps
  <2>2. Row.password = password
    BY DEF Row
  <2>3. request' = [request EXCEPT ![w] = q] /\ ~password
    BY <1>3 DEF Register
  <2> HIDE DEF q
  <2>4. QED  BY <1>2, <1>3, <2>1, <2>2, <2>3 DEF KnownRequest, Register
<1>4. ASSUME NEW c \in Codes \cup {NoCode}, VerifyOtp(w, c)
      PROVE  RegistrationInv'
  <2> DEFINE s == IF c = code THEN "accept" ELSE "reject"
             q == [NoRequest EXCEPT !.step = s, !.code = c, !.seen = Row]
  <2>1. s \in {"accept", "reject"} /\ s \in RequestSteps
    BY DEF RequestSteps
  <2> HIDE DEF s
  <2>2. q \in Request /\ q.step = s /\ q.seen = Row
    BY <1>1, <2>1 DEF Request
  <2>3. Row.attempts = attempts /\ attempts < MaxAttempts
    BY <1>4 DEF Row, VerifyOtp
  <2>4. request' = [request EXCEPT ![w] = q]
    BY <1>4 DEF VerifyOtp, s
  <2> HIDE DEF q
  <2>5. QED  BY <1>2, <1>4, <2>1, <2>2, <2>3, <2>4 DEF KnownRequest, VerifyOtp
<1>5. ASSUME NEW s \in {"setPassword", "newPassword", "overwrite"},
             request' = [request EXCEPT ![w] = [NoRequest EXCEPT !.step = s]],
             UNCHANGED <<row, profiles, inbox, used, bounds, outcomes>>
      PROVE  RegistrationInv'
  <2> DEFINE q == [NoRequest EXCEPT !.step = s]
  <2>1. q \in Request /\ q.step = s
    BY <1>1 DEF Request, RequestSteps
  <2>2. request' = [request EXCEPT ![w] = q]
    BY <1>5
  <2> HIDE DEF q
  <2>3. QED  BY <1>2, <1>5, <2>1, <2>2 DEF KnownRequest
<1>6. CASE UpdateUser(w)
  <2> DEFINE q == [NoRequest EXCEPT !.step = "findProfile", !.kind = kind]
  <2>1. kind \in Kinds /\ kind \in Profiled
    BY <1>6 DEF UpdateUser, RegistrationInv, RegistrationTypeOK
  <2>2. q \in Request /\ q.step = "findProfile" /\ q.kind = kind
    BY <1>1, <2>1 DEF Request, RequestSteps
  <2>3. request' = [request EXCEPT ![w] = q]
    BY <1>6 DEF UpdateUser
  <2> HIDE DEF q
  <2>4. QED  BY <1>2, <1>6, <2>1, <2>2, <2>3 DEF KnownRequest, UpdateUser
<1>7. CASE SignUp(w)
  BY <1>5, <1>7 DEF SignUp
<1>8. CASE NewPassword(w)
  BY <1>5, <1>8 DEF NewPassword
<1>9. CASE NewPasswordWithoutToken(w)
  BY <1>5, <1>9 DEF NewPasswordWithoutToken
<1>10. QED  BY <1>3, <1>4, <1>6, <1>7, <1>8, <1>9

LEMMA FindProfileStep ==
  ASSUME RegistrationInv, NEW w \in Requests, FindProfile(w) \/ OpenSession(w) \/ FailRequest(w)
  PROVE  RegistrationInv'
<1> USE DEF row, bounds, outcomes
<1>1. /\ NoRequest \in Request /\ KnownRequest(NoRequest, used)
      /\ "session" \in RequestSteps /\ "createProfile" \in RequestSteps
  BY RequestType DEF RegistrationInv, KnownRequest, RequestSteps
<1>2. CASE Finish(w) /\ (FindProfile(w) => request[w].kind \in profiles)
  <2>1. RequestBecomes(w, NoRequest)
    BY <1>2, FinishIs DEF RegistrationInv
  <2>2. faults' = faults + 1 => faults' # faults
    BY DEF RegistrationInv, RegistrationTypeOK
  <2>3. At(w, "findProfile") \/ At(w, "createProfile") => faults' # faults \/ request[w].kind \in profiles
    BY <1>2, <2>2 DEF FindProfile, OpenSession, FailRequest, At, AfterProfile, Proceed
  <2>4. QED
    BY <1>1, <2>1, <2>2, <2>3, RequestMoves DEF FindProfile, OpenSession, FailRequest, At
<1>3. CASE Proceed(w, "session") /\ FindProfile(w) /\ request[w].kind \in profiles
  <2>1. PICK k \in Request : RequestBecomes(w, k) /\ k.step = "session"
    BY <1>1, <1>3, ProceedIs DEF RegistrationInv
  <2>2. QED
    BY <1>3, <2>1, RequestMoves DEF FindProfile, At, KnownRequest
<1>4. CASE Proceed(w, "createProfile") /\ FindProfile(w)
  <2>1. PICK k \in Request : /\ RequestBecomes(w, k) /\ k.step = "createProfile"
                             /\ k.kind = request[w].kind
    BY <1>1, <1>4, ProceedIs DEF RegistrationInv
  <2>2. request[w].kind \in Profiled
    BY <1>4 DEF FindProfile, At, RegistrationInv, RequestsKnown, KnownRequest
  <2>3. QED
    BY <1>4, <2>1, <2>2, RequestMoves DEF FindProfile, At, KnownRequest
<1>5. QED
  BY <1>2, <1>3, <1>4 DEF FindProfile, OpenSession, FailRequest, AfterProfile

LEMMA StoreCodeStep ==
  ASSUME RegistrationInv, NEW w \in Requests, StoreCode(w)
  PROVE  RegistrationInv'
<1> DEFINE seen == request[w].seen
<1>1. /\ request \in [Requests -> Request] /\ request[w] \in Request
      /\ request[w].step = "store" /\ ~seen.password
  BY RequestType DEF StoreCode, At, RegistrationInv, RequestsKnown, KnownRequest
<1>2. CASE Finish(w) /\ UNCHANGED <<row, used, late>>
  <2>1. /\ RequestBecomes(w, NoRequest) /\ NoRequest \in Request /\ KnownRequest(NoRequest, used)
    BY <1>2, FinishIs, RequestType DEF RegistrationInv, KnownRequest
  <2>2. QED
    BY <1>1, <1>2, <2>1, RequestMoves DEF StoreCode, At, bounds
<1>3. CASE /\ used # Codes
           /\ code' = NewCode /\ used' = used \cup {NewCode}
           /\ request' = [request EXCEPT ![w].step = "mail", ![w].code = NewCode]
           /\ registered' = TRUE /\ kind' = request[w].kind /\ age' = "new" /\ attempts' = 0
           /\ verified' = IF seen.verified = "past" THEN "no" ELSE seen.verified
           /\ late' = (late \/ password # seen.password \/ verified # seen.verified)
           /\ UNCHANGED <<password, resetToken>>
  <2> DEFINE k == [request[w] EXCEPT !.step = "mail", !.code = NewCode]
  <2>1. NewCode \in Codes \ used
    BY <1>3 DEF NewCode, RegistrationInv, RegistrationTypeOK
  <2>2. k \in Request /\ k.step = "mail" /\ k.code = NewCode
    BY <1>1, <2>1 DEF Request, RequestSteps
  <2>3. request' = [request EXCEPT ![w] = k]
    BY <1>1, <1>3
  <2> HIDE DEF k
  <2>4. \A v \in Requests : request'[v] = IF v = w THEN k ELSE request[v]
    BY <1>1, <2>3
  <2>5. request' \in [Requests -> Request]
    BY <1>1, <2>2, <2>3
  <2>6. request[w].kind \in Kinds /\ seen.verified \in {"no", "recent", "past"}
    BY <1>1 DEF Request, Seen
  <2>7. UNCHANGED <<profiles, inbox, bounds, lost, reset>>
    BY DEF StoreCode
  <2>8. RegistrationTypeOK'
    BY <1>3, <2>1, <2>5, <2>6, <2>7, AccountAssumption
       DEF RegistrationInv, RegistrationTypeOK, Request, Seen, bounds
  <2>9. RequestsKnown'
    <3>1. \A q \in Request : KnownRequest(q, used) => KnownRequest(q, used')
      BY <1>3 DEF KnownRequest
    <3>2. KnownRequest(k, used')
      BY <1>3, <2>2 DEF KnownRequest
    <3>3. QED  BY <1>1, <2>4, <3>1, <3>2 DEF RegistrationInv, RequestsKnown
  <2>10. LiveCodeMailed'
    BY <1>3, <2>2, <2>4 DEF LiveCodeMailed, At
  <2>11. password => late'
    BY <1>1, <1>3 DEF RegistrationInv, RegistrationTypeOK
  <2>12. CanSignIn' /\ ProfileExplained'
    BY <1>3, <2>11 DEF CanSignIn, ProfileExplained
  <2>13. QED  BY <2>8, <2>9, <2>10, <2>12 DEF RegistrationInv
<1>4. QED  BY <1>2, <1>3 DEF StoreCode

LEMMA MailCodeStep ==
  ASSUME RegistrationInv, NEW w \in Requests, MailCode(w)
  PROVE  RegistrationInv'
<1>1. RequestBecomes(w, NoRequest) /\ NoRequest \in Request /\ NoRequest.step = "idle"
  BY FinishIs, RequestType DEF MailCode, RegistrationInv
<1>2. \A v \in Requests : request'[v] = IF v = w THEN NoRequest ELSE request[v]
  BY <1>1 DEF RequestBecomes
<1>3. inbox' = inbox \cup {request[w].code} /\ request[w].step = "mail" /\ request[w].code \in used
  BY DEF MailCode, At, RegistrationInv, RequestsKnown, KnownRequest
<1>4. UNCHANGED <<row, profiles, used, bounds, outcomes>>
  BY DEF MailCode
<1> USE DEF row, bounds, outcomes
<1> HIDE DEF NoRequest
<1>5. RegistrationTypeOK'
  BY <1>1, <1>3, <1>4 DEF RegistrationInv, RegistrationTypeOK, RequestBecomes, Request, Seen
<1>6. RequestsKnown'
  BY <1>1, <1>2, <1>4 DEF RegistrationInv, RequestsKnown, KnownRequest
<1>7. LiveCodeMailed'
  BY <1>2, <1>3, <1>4 DEF RegistrationInv, LiveCodeMailed, At
<1>8. CanSignIn'
  BY <1>4 DEF RegistrationInv, CanSignIn
<1>9. ProfileExplained'
  BY <1>2, <1>3, <1>4 DEF RegistrationInv, ProfileExplained
<1>10. QED  BY <1>5, <1>6, <1>7, <1>8, <1>9 DEF RegistrationInv

\* The row is written and the call ends.
LEMMA EndingSteps ==
  ASSUME RegistrationInv, NEW w \in Requests,
         AcceptCode(w) \/ RejectCode(w) \/ StoreNewPassword(w)
  PROVE  RegistrationInv'
<1>1. /\ RequestBecomes(w, NoRequest) /\ NoRequest \in Request /\ NoRequest.step = "idle"
      /\ request[w] \in Request
  BY FinishIs, RequestType DEF AcceptCode, RejectCode, StoreNewPassword, RegistrationInv
<1>2. \A v \in Requests : request'[v] = IF v = w THEN NoRequest ELSE request[v]
  BY <1>1 DEF RequestBecomes
<1> HIDE DEF NoRequest
<1>3. /\ request[w].step \in {"accept", "reject", "newPassword", "overwrite"}
      /\ UNCHANGED <<registered, kind, profiles, inbox, used, bounds, lost, late>>
  BY DEF AcceptCode, RejectCode, StoreNewPassword, At, outcomes
<1>4. /\ attempts' \in 0..MaxAttempts /\ code' \in {code, NoCode}
      /\ age' \in {age, "none"} /\ verified' \in {verified, "recent"}
      /\ {password', reset', resetToken'} \subseteq BOOLEAN
      /\ (reset => reset') /\ (password' => password \/ reset')
  <2>1. RegistrationTypeOK
    BY DEF RegistrationInv
  <2>2. CASE AcceptCode(w)
    BY <2>1, <2>2, AccountAssumption DEF AcceptCode, RegistrationTypeOK
  <2>3. CASE RejectCode(w)
    <3>1. request[w].seen.attempts \in 0..MaxAttempts /\ request[w].seen.attempts < MaxAttempts
      BY <1>1, <2>3 DEF RejectCode, At, RegistrationInv, RequestsKnown, KnownRequest, Request, Seen
    <3>2. QED
      BY <2>1, <2>3, <3>1, AccountAssumption DEF RejectCode, outcomes, RegistrationTypeOK
  <2>4. CASE StoreNewPassword(w)
    BY <2>1, <2>4 DEF StoreNewPassword, RegistrationTypeOK, At
  <2>5. QED  BY <2>2, <2>3, <2>4
<1>5. RegistrationTypeOK'
  BY <1>1, <1>3, <1>4 DEF RegistrationInv, RegistrationTypeOK, RequestBecomes, Request, Seen, bounds
<1>6. RequestsKnown'
  BY <1>1, <1>2, <1>3 DEF RegistrationInv, RequestsKnown, KnownRequest
<1>7. LiveCodeMailed'
  BY <1>2, <1>3, <1>4 DEF RegistrationInv, LiveCodeMailed, At
<1>8. CanSignIn'
  BY <1>3, <1>4 DEF RegistrationInv, CanSignIn
<1>9. ProfileExplained'
  BY <1>2, <1>3, <1>4 DEF RegistrationInv, ProfileExplained, bounds
<1>10. QED  BY <1>5, <1>6, <1>7, <1>8, <1>9 DEF RegistrationInv

\* The password is set, and whoever needs a profile is on the way to it.
LEMMA SetPasswordStep ==
  ASSUME RegistrationInv, NEW w \in Requests, SetPassword(w)
  PROVE  RegistrationInv'
<1> DEFINE s == IF kind \in Profiled THEN "findProfile" ELSE "session"
<1>1. /\ request \in [Requests -> Request] /\ request[w] \in Request
      /\ request[w].step = "setPassword" /\ kind \in Kinds
      /\ s \in RequestSteps /\ s \in {"findProfile", "session"} /\ (s = "findProfile" <=> kind \in Profiled)
  BY RequestType DEF SetPassword, At, RegistrationInv, RegistrationTypeOK, RequestSteps
<1>2. request' = [request EXCEPT ![w].step = s, ![w].kind = kind, ![w].opens = TRUE]
  BY DEF SetPassword
<1> HIDE DEF s
<1>3. PICK k \in Request : /\ k.step = s /\ k.kind = kind
                           /\ \A v \in Requests : request'[v] = IF v = w THEN k ELSE request[v]
                           /\ request' \in [Requests -> Request]
  <2> DEFINE k == [request[w] EXCEPT !.step = s, !.kind = kind, !.opens = TRUE]
  <2>1. k \in Request /\ k.step = s /\ k.kind = kind
    BY <1>1 DEF Request
  <2>2. request' = [request EXCEPT ![w] = k]
    BY <1>1, <1>2
  <2> HIDE DEF k
  <2>3. (\A v \in Requests : request'[v] = IF v = w THEN k ELSE request[v])
        /\ request' \in [Requests -> Request]
    BY <1>1, <2>1, <2>2
  <2>4. QED  BY <2>1, <2>3
<1>4. /\ password' = TRUE /\ late' = (late \/ verified = "no")
      /\ UNCHANGED <<registered, kind, code, age, attempts, verified, resetToken,
                     profiles, inbox, used, bounds, lost, reset>>
  BY DEF SetPassword
<1>5. RegistrationTypeOK'
  BY <1>3, <1>4 DEF RegistrationInv, RegistrationTypeOK, Request, Seen, bounds
<1>6. RequestsKnown'
  BY <1>1, <1>3, <1>4 DEF RegistrationInv, RequestsKnown, KnownRequest
<1>7. LiveCodeMailed'
  BY <1>1, <1>3, <1>4 DEF RegistrationInv, LiveCodeMailed, At
<1>8. CanSignIn'
  BY <1>4 DEF CanSignIn
<1>9. ProfileExplained'
  BY <1>1, <1>3, <1>4 DEF ProfileExplained
<1>10. QED  BY <1>5, <1>6, <1>7, <1>8, <1>9 DEF RegistrationInv

LEMMA CreateProfileStep ==
  ASSUME RegistrationInv, NEW w \in Requests, CreateProfile(w)
  PROVE  RegistrationInv'
<1>1. /\ request \in [Requests -> Request] /\ request[w] \in Request
      /\ request[w].step = "createProfile" /\ request[w].kind \in Profiled
      /\ "session" \in RequestSteps /\ NoRequest.step = "idle"
  BY RequestType DEF CreateProfile, At, RegistrationInv, RequestsKnown, KnownRequest, RequestSteps
<1>2. PICK k \in Request : RequestBecomes(w, k) /\ k.step \in {"idle", "session"}
  <2>1. CASE Finish(w)
    BY <1>1, <2>1, FinishIs DEF RegistrationInv, RequestBecomes
  <2>2. CASE Proceed(w, "session")
    BY <1>1, <2>2, ProceedIs DEF RegistrationInv
  <2>3. QED  BY <2>1, <2>2 DEF CreateProfile, AfterProfile
<1>3. \A v \in Requests : request'[v] = IF v = w THEN k ELSE request[v]
  BY <1>2 DEF RequestBecomes
<1>4. /\ profiles' = profiles \cup {request[w].kind}
      /\ UNCHANGED <<row, inbox, used, bounds, outcomes>>
  BY DEF CreateProfile
<1> USE DEF row, bounds, outcomes
<1>5. RegistrationTypeOK'
  BY <1>1, <1>2, <1>4 DEF RegistrationInv, RegistrationTypeOK, RequestBecomes, Request, Seen
<1>6. RequestsKnown'
  BY <1>2, <1>3, <1>4 DEF RegistrationInv, RequestsKnown, KnownRequest
<1>7. LiveCodeMailed'
  BY <1>1, <1>3, <1>4 DEF RegistrationInv, LiveCodeMailed, At
<1>8. CanSignIn'
  BY <1>4 DEF RegistrationInv, CanSignIn
<1>9. ProfileExplained'
  BY <1>3, <1>4 DEF RegistrationInv, ProfileExplained
<1>10. QED  BY <1>5, <1>6, <1>7, <1>8, <1>9 DEF RegistrationInv

\* Something ages, or a reset is asked for.
LEMMA AgeingSteps ==
  ASSUME RegistrationInv,
         SettleCode \/ ExpireCode \/ ExpireVerification \/ \E w \in Requests : PasswordReset(w)
  PROVE  RegistrationInv'
<1>1. UNCHANGED <<registered, kind, code, attempts, password, profiles, inbox, request, used,
                  faults, lost, late, reset>>
  BY DEF SettleCode, ExpireCode, ExpireVerification, PasswordReset, bounds, outcomes
<1>2. /\ age' \in {"none", "new", "old", "expired"} /\ ticks' \in 0..MaxTicks
      /\ resetToken' \in BOOLEAN
      /\ verified' = verified \/ (verified = "recent" /\ verified' = "past")
  <2>1. RegistrationTypeOK
    BY DEF RegistrationInv
  <2>2. CASE SettleCode
    BY <2>1, <2>2 DEF RegistrationTypeOK, SettleCode, bounds
  <2>3. CASE ExpireCode
    BY <2>1, <2>3, AccountAssumption DEF RegistrationTypeOK, ExpireCode
  <2>4. CASE ExpireVerification
    BY <2>1, <2>4, AccountAssumption DEF RegistrationTypeOK, ExpireVerification
  <2>5. CASE \E w \in Requests : PasswordReset(w)
    BY <2>1, <2>5 DEF RegistrationTypeOK, PasswordReset, bounds
  <2>6. QED  BY <2>2, <2>3, <2>4, <2>5
<1>3. RegistrationTypeOK'
  BY <1>1, <1>2 DEF RegistrationInv, RegistrationTypeOK
<1>4. RequestsKnown' /\ LiveCodeMailed' /\ CanSignIn' /\ ProfileExplained'
  BY <1>1, <1>2 DEF RegistrationInv, RequestsKnown, LiveCodeMailed, CanSignIn, ProfileExplained, At
<1>5. QED  BY <1>3, <1>4 DEF RegistrationInv

-----------------------------------------------------------------------------
LEMMA RegistrationInitInv == RegistrationInit => RegistrationInv
<1> SUFFICES ASSUME RegistrationInit PROVE RegistrationInv
  OBVIOUS
<1>1. AnyKind \in Kinds
  BY AccountAssumption DEF AnyKind
<1>2. NoRequest \in Request /\ NoRequest.step = "idle"
  BY <1>1, AccountAssumption DEF NoRequest, Blank, Request, RequestSteps, Seen
<1> HIDE DEF NoRequest
<1>3. request \in [Requests -> Request]
  BY <1>2 DEF RegistrationInit
<1>4. RegistrationTypeOK
  <2>1. /\ kind \in Kinds /\ code \in Codes \cup {NoCode} /\ age = "none" /\ verified = "no"
        /\ profiles = {} /\ inbox = {} /\ used = {} /\ lost = {}
    BY <1>1 DEF RegistrationInit
  <2>2. attempts \in 0..MaxAttempts /\ ticks \in 0..MaxTicks /\ faults \in 0..MaxFaults
    BY AccountAssumption DEF RegistrationInit
  <2>3. {registered, password, resetToken, late, reset} \subseteq BOOLEAN
    BY DEF RegistrationInit
  <2>4. QED  BY <1>3, <2>1, <2>2, <2>3 DEF RegistrationTypeOK, Request, Seen
<1>5. RequestsKnown
  BY <1>2 DEF RegistrationInit, RequestsKnown, KnownRequest
<1>6. LiveCodeMailed /\ CanSignIn /\ ProfileExplained
  BY DEF RegistrationInit, LiveCodeMailed, CanSignIn, ProfileExplained
<1>7. QED  BY <1>4, <1>5, <1>6 DEF RegistrationInv

LEMMA RegistrationNextInv ==
  RegistrationInv /\ [RegistrationNext]_registrationVars => RegistrationInv'
<1> SUFFICES ASSUME RegistrationInv, [RegistrationNext]_registrationVars PROVE RegistrationInv'
  OBVIOUS
<1>1. ASSUME NEW w \in Requests, Continue(w) \/ FailRequest(w)
      PROVE  RegistrationInv'
  BY <1>1, StoreCodeStep, MailCodeStep, EndingSteps, SetPasswordStep, FindProfileStep,
     CreateProfileStep DEF Continue
<1>2. ASSUME NEW w \in Requests,
             \/ \E k \in Kinds : Register(w, k)
             \/ \E c \in Codes \cup {NoCode} : VerifyOtp(w, c)
             \/ SignUp(w) \/ UpdateUser(w)
             \/ PasswordReset(w) \/ NewPassword(w) \/ NewPasswordWithoutToken(w)
      PROVE  RegistrationInv'
  BY <1>2, BeginSteps, AgeingSteps
<1>3. CASE SettleCode \/ ExpireCode \/ ExpireVerification
  BY <1>3, AgeingSteps
<1>4. CASE UNCHANGED registrationVars
  BY <1>4 DEF registrationVars, row, bounds, outcomes, RegistrationInv, RegistrationTypeOK,
     RequestsKnown, LiveCodeMailed, CanSignIn, ProfileExplained, At
<1>5. QED  BY <1>1, <1>2, <1>3, <1>4 DEF RegistrationNext

LEMMA RegistrationInvHolds == RegistrationSpec => []RegistrationInv
BY RegistrationInitInv, RegistrationNextInv, PTL DEF RegistrationSpec

\* The row, the calls and the histories have their types: no order of wrong OTPs
\* counts more attempts than OTP_MAX_ATTEMPTS allows, and no address gets a
\* profile of a kind that has none.
THEOREM RegistrationTypeCorrect == RegistrationSpec => []RegistrationTypeOK
<1>1. RegistrationInv => RegistrationTypeOK
  BY DEF RegistrationInv
<1>2. QED  BY <1>1, RegistrationInvHolds, PTL

\* However many calls of register cross each other, the row never has an OTP that
\* was neither mailed, nor is being mailed, nor had its mail lost.
THEOREM LiveCodeMailedCorrect == RegistrationSpec => []LiveCodeMailed
<1>1. RegistrationInv => LiveCodeMailed
  BY DEF RegistrationInv
<1>2. QED  BY <1>1, RegistrationInvHolds, PTL

\* An account that signed up can sign in, unless a register call wrote over a row
\* it had read before the verification or the sign-up, or a reset gave the
\* password.
THEOREM CanSignInCorrect == RegistrationSpec => []CanSignIn
<1>1. RegistrationInv => CanSignIn
  BY DEF RegistrationInv
<1>2. QED  BY <1>1, RegistrationInvHolds, PTL

\* A salon or stylist that signed up has its profile or is being given it, unless
\* a call failed, a reset gave the password, or register crossed the sign-up.
THEOREM ProfileExplainedCorrect == RegistrationSpec => []ProfileExplained
<1>1. RegistrationInv => ProfileExplained
  BY DEF RegistrationInv
<1>2. QED  BY <1>1, RegistrationInvHolds, PTL
=============================================================================
