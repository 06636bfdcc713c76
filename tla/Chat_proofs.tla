----------------------------- MODULE Chat_proofs -----------------------------
(***************************************************************************)
(* Proofs about Chat, for any number of users, conversations, messages,    *)
(* calls in flight and faults.                                             *)
(***************************************************************************)
EXTENDS Chat, FiniteSetTheorems, WellFoundedInduction, TLAPS

-----------------------------------------------------------------------------
(* The inductive invariant *)

Gone == {i \in Sent : messages[i].state = "gone"}

\* What call w looked at before it fixed the marker it is about to write: every
\* message of the others up to the marker was stored and is seen, was open and is
\* overtaken, or was rolled back.
Looked(w) ==
  \A i \in In(call[w].conv) :
    (i <= call[w].mark /\ messages[i].sender # call[w].user) =>
      i \in call[w].seen \cup overtaken \cup Gone

\* A call works on a conversation that is there; one that is about to commit has
\* a message open.
Known(w) ==
  /\ call[w].step \notin {"idle", "count", "emit"} => call[w].user \in Users
  /\ call[w].step \in {"dedupe", "insert", "commit", "mark"} => call[w].conv \in existing
  /\ At(w, "commit") => /\ call[w].mark \in Open
                        /\ messages[call[w].mark].conv = call[w].conv
                        /\ messages[call[w].mark].sender = call[w].user
  /\ call[w].step \in {"commit", "mark"} => Looked(w) /\ call[w].mark \in Sent
  /\ At(w, "emit") => call[w].to \in Users

CallsKnown == \A w \in Workers : Known(w)

\* Two calls do not commit the same message.
OneWriter ==
  \A w, v \in Workers : (w # v /\ At(w, "commit") /\ At(v, "commit")) => call[w].mark # call[v].mark

\* NothingMissed, said of the messages that are open as well.
MarkersSound ==
  \A u \in Users, i \in Sent :
    (messages[i].sender # u /\ i <= read[messages[i].conv][u]) =>
      i \in covered[u] \cup overtaken \cup Gone

\* No marker is beyond the messages there are.
MarkersReached == \A k \in Conversations, u \in Users : read[k][u] <= Len(messages)

\* A message knows the older ones that are open still.
RivalsKnown ==
  \A i \in Sent, m \in Open :
    (messages[m].conv = messages[i].conv /\ m < i) => m \in messages[i].rivals

\* Call w is going to count for u, or brings u the count that holds now.
Owes(w, u) ==
  \/ At(w, "count") /\ u \in call[w].todo
  \/ At(w, "emit") /\ u \in call[w].todo \ {call[w].to}
BringsNews(w, u) == Brings(w, u) /\ call[w].count = Cardinality(Unread(u))

\* Unless a call was cut short or counts crossed, a user is owed a count, is
\* brought the one that holds, or was told it; if the user read over HTTP since,
\* at least none is on its way.
Told ==
  faults = 0 =>
    \A u \in Users \ crossed :
      \/ \E w \in Workers : Owes(w, u) \/ BringsNews(w, u)
      \/ /\ u \in untold \/ badge[u] = Cardinality(Unread(u))
         /\ \A w \in Workers : ~Brings(w, u)

IInv ==
  /\ TypeOK /\ CallsKnown /\ OneWriter /\ MarkersSound /\ MarkersReached /\ RivalsKnown
  /\ LastIsNewest /\ Told

-----------------------------------------------------------------------------
(* What the operators do. *)

\* Of some places in the list one is the last: Latest finds it.
LEMMA LatestPlace ==
  ASSUME NEW n \in Nat, NEW S \in SUBSET (1..n), S # {}
  PROVE  Latest(S) \in S /\ \A j \in S : j <= Latest(S)
<1> DEFINE R == {p \in Nat \X Nat : p[1] < p[2]}
           Above == {m \in 0..n : \A j \in S : j <= m}
<1>1. IsWellFoundedOn(R, Nat)
  BY NatLessThanWellFounded DEF OpToRel
<1>2. Above \in SUBSET Nat /\ n \in Above
  OBVIOUS
<1>3. PICK m \in Above : \A a \in Above : ~(<<a, m>> \in R)
  <2> HIDE DEF R, Above
  <2>1. QED  BY <1>1, <1>2, WFMin
<1>4. ASSUME NEW a \in Above, a < m
      PROVE  FALSE
  <2>1. <<a, m>> \in Nat \X Nat /\ <<a, m>>[1] = a /\ <<a, m>>[2] = m
    BY <1>3
  <2>2. QED  BY <1>3, <1>4, <2>1
<1>5. m \in S
  <2>1. m # 0
    <3>1. \A j \in S : j <= m
      BY <1>3
    <3>2. PICK j \in S : j \in 1..n
      OBVIOUS
    <3>3. QED  BY <3>1, <3>2
  <2>2. m - 1 \in 0..n /\ m - 1 < m
    BY <1>3, <2>1
  <2>3. m - 1 \notin Above
    BY <1>4, <2>2
  <2>4. QED
    BY <1>3, <2>2, <2>3
<1>6. \E i \in S : \A j \in S : j <= i
  BY <1>3, <1>5
<1>7. QED  BY <1>6 DEF Latest

\* A message's state changes, and nothing else of the list.
LEMMA StateChange ==
  ASSUME messages \in Seq(Messages), NEW m \in Sent, NEW s \in {"open", "stored", "gone"},
         messages' = [messages EXCEPT ![m].state = s]
  PROVE  /\ messages' \in Seq(Messages) /\ Len(messages') = Len(messages)
         /\ \A i \in Sent :
              /\ messages'[i].sender = messages[i].sender /\ messages'[i].conv = messages[i].conv
              /\ messages'[i].rivals = messages[i].rivals
              /\ messages'[i].state = IF i = m THEN s ELSE messages[i].state
<1> DEFINE new == [messages[m] EXCEPT !.state = s]
<1>1. messages[m] \in Messages
  BY DEF Sent
<1>2. /\ new \in Messages /\ new.state = s /\ new.sender = messages[m].sender
      /\ new.conv = messages[m].conv /\ new.rivals = messages[m].rivals
  BY <1>1 DEF Messages
<1>3. messages' = [messages EXCEPT ![m] = new]
  OBVIOUS
<1> HIDE DEF new
<1>4. messages' \in Seq(Messages) /\ Len(messages') = Len(messages)
  BY <1>2, <1>3 DEF Sent
<1>5. \A i \in Sent : messages'[i] = IF i = m THEN new ELSE messages[i]
  BY <1>3 DEF Sent
<1>6. QED  BY <1>2, <1>4, <1>5

\* A message is added at the end.
LEMMA Added ==
  ASSUME NEW ms \in Seq(Messages), NEW e \in Messages, NEW out, out = Append(ms, e)
  PROVE  /\ out \in Seq(Messages) /\ Len(out) = Len(ms) + 1
         /\ \A i \in 1..Len(ms) : out[i] = ms[i]
         /\ out[Len(ms) + 1] = e
  OBVIOUS

LEMMA UnreadCount ==
  ASSUME TypeOK, NEW u \in Users
  PROVE  Cardinality(Unread(u)) \in Nat
<1>1. Len(messages) \in Nat
  BY DEF TypeOK
<1>2. IsFiniteSet(1..Len(messages))
  BY <1>1, FS_Interval
<1>3. Unread(u) \in SUBSET (1..Len(messages))
  BY DEF Unread, Stored, Sent
<1> HIDE DEF Unread
<1>4. QED  BY <1>2, <1>3, FS_Subset, FS_CardinalityType

-----------------------------------------------------------------------------
\* Call w goes on as k, the others as before.
Becomes(w, k) ==
  /\ call' \in [Workers -> Calls]
  /\ \A v \in Workers : call'[v] = IF v = w THEN k ELSE call[v]

LEMMA BecomesIs ==
  ASSUME TypeOK, NEW w \in Workers, NEW k \in Calls, call' = [call EXCEPT ![w] = k]
  PROVE  Becomes(w, k)
  BY DEF TypeOK, Becomes

LEMMA IdleType ==
  /\ Idle \in Calls /\ Idle.step = "idle" /\ Idle.todo = {}
  BY DEF Idle, Calls, Steps

\* A call that tells users.
LEMMA TellIs ==
  ASSUME TypeOK, NEW w \in Workers, NEW us \in SUBSET Users, Tell(w, us)
  PROVE  \E k \in Calls : Becomes(w, k) /\ k.step = "count" /\ k.todo = us
<1> DEFINE k == [Idle EXCEPT !.step = "count", !.todo = us]
<1>1. k \in Calls /\ k.step = "count" /\ k.todo = us
  BY DEF Idle, Calls, Steps
<1>2. call' = [call EXCEPT ![w] = k]
  BY DEF Tell
<1> HIDE DEF k
<1>3. QED  BY <1>1, <1>2, BecomesIs

LEMMA GotoIs ==
  ASSUME TypeOK, NEW w \in Workers, NEW s \in Steps, Goto(w, s)
  PROVE  \E k \in Calls :
           /\ Becomes(w, k) /\ k.step = s
           /\ k.user = call[w].user /\ k.conv = call[w].conv
<1> DEFINE k == [call[w] EXCEPT !.step = s]
<1>1. call[w] \in Calls
  BY DEF TypeOK
<1>2. k \in Calls /\ k.step = s /\ k.user = call[w].user /\ k.conv = call[w].conv
  BY <1>1 DEF Calls
<1>3. call' = [call EXCEPT ![w] = k]
  BY DEF Goto, TypeOK
<1> HIDE DEF k
<1>4. QED  BY <1>2, <1>3, BecomesIs

LEMMA ReturnIs ==
  ASSUME TypeOK, NEW w \in Workers, Return(w)
  PROVE  Becomes(w, Idle)
  BY IdleType, BecomesIs DEF Return

-----------------------------------------------------------------------------
\* What was looked at stays looked at while messages stay or go, and overtaken
\* ones stay overtaken.
SameMessages ==
  /\ Sent \subseteq Sent'
  /\ \A i \in Sent : /\ messages'[i].sender = messages[i].sender
                     /\ messages'[i].conv = messages[i].conv
                     /\ messages'[i].rivals = messages[i].rivals
                     /\ messages[i].state # "open" => messages'[i].state = messages[i].state

\* A call that tells nobody yet moves along; no message and no marker changes.
LEMMA CallMoves ==
  ASSUME IInv, NEW w \in Workers, NEW k \in Calls, Becomes(w, k),
         UNCHANGED <<last, messages, read, badge, faults, covered, crossed, untold>>,
         reads' \in 0..MaxReads, overtaken' \subseteq Nat, overtaken \subseteq overtaken',
         existing \subseteq existing', existing' \subseteq Conversations,
         existing' # {} => recent' \in existing',
         call[w].step \notin {"count", "emit"}, k.step \notin {"commit", "emit"},
         k.step \in {"find", "create", "dedupe", "insert", "mark"} => k.user \in Users,
         k.step \in {"dedupe", "insert", "mark"} => k.conv \in existing',
         k.step = "mark" => k.mark \in Sent,
         k.step = "mark" =>
           \A i \in In(k.conv) : (i <= k.mark /\ messages[i].sender # k.user) =>
             i \in k.seen \cup overtaken' \cup Gone
  PROVE  IInv'
<1>1. \A v \in Workers : call'[v] = IF v = w THEN k ELSE call[v]
  BY DEF Becomes
<1>2. UNCHANGED <<Sent, Stored, Open, Gone>>
  BY DEF Sent, Stored, Open, Gone
<1>3. \A u \in Users : UNCHANGED Unread(u)
  BY <1>2 DEF Unread
<1>4. TypeOK'
  BY DEF IInv, TypeOK, Becomes
<1>5. CallsKnown'
  <2>1. \A c \in Conversations : UNCHANGED In(c)
    BY <1>2 DEF In
  <2> SUFFICES ASSUME NEW v \in Workers
               PROVE  Known(v)'
    BY DEF CallsKnown
  <2>2. CASE v = w
    <3>1. k.step \in Steps
      BY DEF Calls
    <3>2. k.step \in {"commit", "mark"} => Looked(w)' /\ k.mark \in Sent
      BY <1>1, <1>2, <2>2 DEF Looked, In
    <3>3. QED  BY <1>1, <1>2, <2>2, <3>1, <3>2 DEF Known, At, Steps
  <2>3. CASE v # w
    <3>1. call'[v] = call[v]
      BY <1>1, <2>3
    <3>2. Looked(v) => Looked(v)'
      BY <1>2, <3>1 DEF Looked, In
    <3>3. QED
      BY <1>2, <3>1, <3>2 DEF IInv, CallsKnown, Known, At
  <2>4. QED  BY <2>2, <2>3
<1>6. OneWriter'
  BY <1>1 DEF IInv, OneWriter, At
<1>7. MarkersSound' /\ MarkersReached' /\ RivalsKnown' /\ LastIsNewest'
  BY <1>2 DEF IInv, MarkersSound, MarkersReached, RivalsKnown, LastIsNewest
<1>8. Told'
  <2> SUFFICES ASSUME faults = 0, NEW u \in Users \ crossed
               PROVE  \/ \E v \in Workers : Owes(v, u)' \/ BringsNews(v, u)'
                      \/ /\ u \in untold' \/ badge[u] = Cardinality(Unread(u)')
                         /\ \A v \in Workers : ~Brings(v, u)'
    BY DEF Told
  <2>1. \A v \in Workers : (Owes(v, u) => Owes(v, u)') /\ (Brings(v, u)' <=> Brings(v, u))
                           /\ (BringsNews(v, u) => BringsNews(v, u)')
    BY <1>1, <1>3 DEF Owes, Brings, BringsNews, At
  <2>2. QED
    BY <1>3, <2>1 DEF IInv, Told
<1>9. QED  BY <1>4, <1>5, <1>6, <1>7, <1>8 DEF IInv

\* The other calls know what they knew when messages are added, stored or rolled
\* back by call w.
LEMMA OthersKnown ==
  ASSUME IInv, NEW w \in Workers, NEW v \in Workers, v # w, call'[v] = call[v],
         SameMessages, overtaken \subseteq overtaken', existing \subseteq existing',
         \A i \in Sent : i # call[w].mark \/ ~At(w, "commit") =>
                           messages'[i].state = messages[i].state
  PROVE  Known(v)'
<1>1. Known(v)
  BY DEF IInv, CallsKnown
<1>2. At(v, "commit") => call[v].mark \in Open'
  BY <1>1 DEF IInv, OneWriter, Known, SameMessages, Open, At
<1>3. call[v].step \in {"commit", "mark"} => Looked(v)'
  <2> SUFFICES ASSUME call[v].step \in {"commit", "mark"}, NEW i \in Sent',
                      messages'[i].conv = call[v].conv, i <= call[v].mark,
                      messages'[i].sender # call[v].user
               PROVE  i \in call[v].seen \cup overtaken' \cup Gone'
    BY DEF Looked, In
  <2>1. i \in Sent
    BY <1>1 DEF Known, Sent, IInv, TypeOK
  <2>2. i \in In(call[v].conv) /\ messages[i].sender # call[v].user
    BY <2>1 DEF SameMessages, In
  <2>3. i \in call[v].seen \cup overtaken \cup Gone
    BY <1>1, <2>2 DEF Known, Looked
  <2>4. i \in Gone => i \in Gone'
    BY <2>1 DEF SameMessages, Gone
  <2>5. QED  BY <2>3, <2>4
<1>4. QED
  BY <1>1, <1>2, <1>3 DEF Known, At, SameMessages, Open, Sent

-----------------------------------------------------------------------------
(* One lemma for each step that neither writes a message nor carries a count. *)

LEMMA CallType ==
  ASSUME IInv, NEW w \in Workers
  PROVE  /\ call[w] \in Calls /\ call[w].step \in Steps
         /\ call[w].mark \in Nat /\ call[w].todo \in SUBSET Users
         /\ call[w].count \in Nat /\ call[w].seen \in SUBSET Nat
         /\ call[w].client \in Clients \cup {NoClient}
         /\ UNCHANGED existing /\ UNCHANGED recent =>
              existing' \subseteq Conversations /\ (existing' # {} => recent' \in existing')
  BY DEF IInv, TypeOK, Calls

LEMMA MessageType ==
  ASSUME IInv, NEW i \in Sent
  PROVE  /\ i \in Nat /\ i >= 1 /\ i <= Len(messages)
         /\ messages[i].state \in {"open", "stored", "gone"}
         /\ messages[i].conv \in Conversations /\ messages[i].sender \in Users
<1>1. messages \in Seq(Messages) /\ Len(messages) \in Nat
  BY DEF IInv, TypeOK
<1>2. i \in 1..Len(messages)
  BY DEF Sent
<1> HIDE DEF Messages
<1>3. messages[i] \in Messages
  BY <1>1, <1>2
<1>4. QED  BY <1>1, <1>2, <1>3 DEF Messages

LEMMA SendToKeeps ==
  ASSUME IInv, NEW w \in Workers, NEW u \in Users, NEW c \in Clients, SendTo(w, u, c)
  PROVE  IInv'
<1> DEFINE k == [Idle EXCEPT !.step = "find", !.user = u, !.client = c]
<1>1. k \in Calls /\ k.step = "find" /\ k.user = u
  BY DEF Idle, Calls, Steps
<1>2. call' = [call EXCEPT ![w] = k]
  BY DEF SendTo
<1> HIDE DEF k
<1>3. Becomes(w, k)
  BY <1>1, <1>2, BecomesIs DEF IInv
<1>4. QED
  BY <1>1, <1>3, CallType, CallMoves DEF SendTo, At, rows, bounds, history, IInv, TypeOK

LEMMA SendInKeeps ==
  ASSUME IInv, NEW w \in Workers, NEW u \in Users, NEW d \in Conversations, NEW c \in Clients,
         SendIn(w, u, d, c)
  PROVE  IInv'
<1> DEFINE k == [Idle EXCEPT !.step = "dedupe", !.user = u, !.conv = d, !.client = c]
<1>1. k \in Calls /\ k.step = "dedupe" /\ k.user = u /\ k.conv = d
  BY DEF Idle, Calls, Steps
<1>2. call' = [call EXCEPT ![w] = k]
  BY DEF SendIn
<1> HIDE DEF k
<1>3. Becomes(w, k)
  BY <1>1, <1>2, BecomesIs DEF IInv
<1>4. QED
  BY <1>1, <1>3, CallType, CallMoves DEF SendIn, At, rows, bounds, history, IInv, TypeOK

LEMMA FindConversationKeeps ==
  ASSUME IInv, NEW w \in Workers, FindConversation(w)
  PROVE  IInv'
<1>1. Known(w)
  BY DEF IInv, CallsKnown
<1>2. CASE existing = {}
  <2>1. PICK k \in Calls : Becomes(w, k) /\ k.step = "create" /\ k.user = call[w].user
    BY <1>2, GotoIs DEF FindConversation, IInv, Steps
  <2>2. QED
    BY <1>1, <2>1, CallType, CallMoves
       DEF FindConversation, Known, At, rows, bounds, history, IInv, TypeOK
<1>3. CASE existing # {}
  <2> DEFINE k == [call[w] EXCEPT !.step = "dedupe", !.conv = recent]
  <2>1. recent \in existing /\ existing \subseteq Conversations
    BY <1>3 DEF IInv, TypeOK
  <2>2. k \in Calls /\ k.step = "dedupe" /\ k.user = call[w].user /\ k.conv = recent
    BY <2>1, CallType DEF Calls, Steps
  <2>3. call' = [call EXCEPT ![w] = k]
    BY <1>3 DEF FindConversation, IInv, TypeOK
  <2> HIDE DEF k
  <2>4. Becomes(w, k)
    BY <2>2, <2>3, BecomesIs DEF IInv
  <2>5. QED
    BY <1>1, <2>1, <2>2, <2>4, CallType, CallMoves
       DEF FindConversation, Known, At, rows, bounds, history, IInv, TypeOK
<1>4. QED  BY <1>2, <1>3

LEMMA CreateConversationKeeps ==
  ASSUME IInv, NEW w \in Workers, CreateConversation(w)
  PROVE  IInv'
<1>1. Known(w)
  BY DEF IInv, CallsKnown
<1>2. PICK d \in Conversations \ existing :
        /\ existing' = existing \cup {d} /\ recent' = d
        /\ call' = [call EXCEPT ![w].step = "dedupe", ![w].conv = d]
  BY DEF CreateConversation
<1> DEFINE k == [call[w] EXCEPT !.step = "dedupe", !.conv = d]
<1>3. k \in Calls /\ k.step = "dedupe" /\ k.user = call[w].user /\ k.conv = d
  BY CallType DEF Calls, Steps
<1>4. call' = [call EXCEPT ![w] = k]
  BY <1>2 DEF IInv, TypeOK
<1> HIDE DEF k
<1>5. Becomes(w, k)
  BY <1>3, <1>4, BecomesIs DEF IInv
<1>6. existing' \subseteq Conversations /\ d \in existing' /\ existing \subseteq existing'
  BY <1>2 DEF IInv, TypeOK
<1>7. QED
  BY <1>1, <1>2, <1>3, <1>5, <1>6, CallMoves
     DEF CreateConversation, Known, At, bounds, history, IInv, TypeOK

LEMMA FindMessageKeeps ==
  ASSUME IInv, NEW w \in Workers, FindMessage(w)
  PROVE  IInv'
<1>1. Known(w)
  BY DEF IInv, CallsKnown
<1>2. CASE Tell(w, Users)
  <2>1. PICK k \in Calls : Becomes(w, k) /\ k.step = "count"
    BY <1>2, TellIs DEF IInv
  <2>2. QED
    BY <2>1, CallType, CallMoves
       DEF FindMessage, At, rows, bounds, history, IInv, TypeOK
<1>3. CASE Goto(w, "insert")
  <2>1. PICK k \in Calls : Becomes(w, k) /\ k.step = "insert" /\ k.user = call[w].user
                            /\ k.conv = call[w].conv
    BY <1>3, GotoIs DEF IInv, Steps
  <2>2. QED
    BY <1>1, <2>1, CallType, CallMoves
       DEF FindMessage, Known, At, rows, bounds, history, IInv, TypeOK
<1>4. QED  BY <1>2, <1>3 DEF FindMessage

\* The marker is the place of the latest message; what is open below it is overtaken.
LEMMA MarkConversationReadKeeps ==
  ASSUME IInv, NEW w \in Workers, NEW u \in Users, NEW d \in Conversations,
         NEW quiet \in BOOLEAN, MarkConversationRead(w, u, d, quiet)
  PROVE  IInv'
<1> DEFINE there == Stored \cap In(d)
           latest == Latest(there)
<1>1. /\ At(w, "idle") /\ d \in existing /\ reads < MaxReads /\ reads' = reads + 1
      /\ UNCHANGED <<rows, badge, faults, covered, crossed, untold>>
      /\ overtaken' = overtaken \cup {i \in Open \cap In(d) : i < latest}
  BY DEF MarkConversationRead
<1>2. reads' \in 0..MaxReads
  BY <1>1, ChatAssumption DEF IInv, TypeOK
<1>3. Len(messages) \in Nat /\ there \in SUBSET (1..Len(messages))
  BY DEF IInv, TypeOK, Stored, Sent
<1>4. overtaken' \subseteq Nat /\ overtaken \subseteq overtaken'
  <2>1. {i \in Open \cap In(d) : i < latest} \subseteq Nat
    BY MessageType DEF Open
  <2>2. overtaken \subseteq Nat
    BY DEF IInv, TypeOK
  <2> HIDE DEF latest
  <2>3. QED  BY <1>1, <2>1, <2>2
<1>5. CASE there = {}
  <2>1. Answer(w, u, quiet)
    BY <1>5 DEF MarkConversationRead
  <2>2. PICK k \in Calls : Becomes(w, k) /\ k.step \in {"idle", "count"}
    BY <2>1, TellIs, ReturnIs, IdleType DEF Answer, IInv
  <2>3. QED
    BY <1>1, <1>2, <1>4, <2>2, CallType, CallMoves DEF At, rows, IInv, TypeOK
<1>6. CASE there # {}
  <2> DEFINE k == [Idle EXCEPT !.step = "mark", !.user = u, !.conv = d,
                               !.mark = latest, !.seen = there, !.quiet = quiet]
  <2>1. latest \in there /\ \A j \in there : j <= latest
    BY <1>3, <1>6, LatestPlace
  <2>2. latest \in Sent /\ latest \in Nat /\ there \subseteq Nat
    BY <1>3, <2>1 DEF Sent
  <2>3. call' = [call EXCEPT ![w] = k]
    BY <1>6 DEF MarkConversationRead
  <2> HIDE DEF latest, there
  <2>4. /\ k \in Calls /\ k.step = "mark" /\ k.user = u /\ k.conv = d
        /\ k.mark = latest /\ k.seen = there
    BY <2>2 DEF Idle, Calls, Steps
  <2> HIDE DEF k
  <2>5. Becomes(w, k)
    BY <2>3, <2>4, BecomesIs DEF IInv
  <2>6. ASSUME NEW i \in In(d), i <= latest
        PROVE  i \in there \cup overtaken' \cup Gone
    <3>1. messages[i].state \in {"open", "stored", "gone"}
      BY MessageType DEF In
    <3>2. messages[i].state = "stored" => i \in there
      BY DEF In, Stored, there
    <3>3. messages[i].state = "open" => i \in Open /\ i # latest
      BY <2>1 DEF In, Open, Stored, there
    <3>4. messages[i].state = "gone" => i \in Gone
      BY DEF In, Gone
    <3>5. i \in Open /\ i # latest => i < latest
      BY <2>2, <2>6 DEF In, Sent
    <3>6. QED  BY <1>1, <3>1, <3>2, <3>3, <3>4, <3>5
  <2>7. QED
    BY <1>1, <1>2, <1>4, <2>2, <2>4, <2>5, <2>6, CallType, CallMoves DEF At, rows, IInv, TypeOK
<1>7. QED  BY <1>5, <1>6

-----------------------------------------------------------------------------
(* The steps that write a message, a marker or a count *)

\* The row is open: what was open already is its rival, and overtaken.
LEMMA InsertMessageKeeps ==
  ASSUME IInv, NEW w \in Workers, InsertMessage(w)
  PROVE  IInv'
<1> DEFINE d == call[w].conv
           same == IF call[w].client = NoClient THEN {} ELSE Same(call[w].user, d, call[w].client)
           m == Len(messages) + 1
           e == [sender |-> call[w].user, conv |-> d, state |-> "open",
                 client |-> call[w].client, rivals |-> Open \cap In(d)]
           k == [call[w] EXCEPT !.step = "commit", !.mark = m, !.seen = Stored \cap In(d)]
<1>1. /\ At(w, "insert")
      /\ UNCHANGED <<existing, recent, last, read, badge, bounds, covered, crossed, untold>>
  BY DEF InsertMessage
<1>2. call[w].user \in Users /\ d \in existing /\ d \in Conversations
  BY <1>1 DEF IInv, CallsKnown, Known, At, TypeOK
<1>3. CASE Return(w) /\ UNCHANGED <<messages, overtaken>>
  <2>1. Becomes(w, Idle)
    BY <1>3, ReturnIs DEF IInv
  <2>2. QED
    BY <1>1, <1>3, <2>1, IdleType, CallType, CallMoves DEF At, bounds, IInv, TypeOK
<1>4. CASE /\ messages' = Append(messages, e)
           /\ call' = [call EXCEPT ![w].step = "commit", ![w].mark = m,
                                   ![w].seen = Stored \cap In(d)]
           /\ overtaken' = overtaken \cup (Open \cap In(d))
  <2>1. Stored \subseteq Nat /\ Open \subseteq Nat
    BY MessageType DEF Stored, Open
  <2>2. /\ e \in Messages /\ e.sender = call[w].user /\ e.conv = d /\ e.state = "open"
        /\ e.rivals = Open \cap In(d)
    BY <1>2, <2>1, CallType DEF Messages
  <2>3. messages \in Seq(Messages) /\ Len(messages) \in Nat /\ m \in Nat
    BY DEF IInv, TypeOK
  <2>4. /\ k \in Calls /\ k.step = "commit" /\ k.mark = m /\ k.seen = Stored \cap In(d)
        /\ k.user = call[w].user /\ k.conv = d
    BY <2>1, <2>3, CallType DEF Calls, Steps
  <2>5. call' = [call EXCEPT ![w] = k]
    BY <1>4 DEF IInv, TypeOK
  <2> HIDE DEF k, e
  <2>6. Becomes(w, k)
    BY <2>4, <2>5, BecomesIs DEF IInv
  <2>7. /\ messages' \in Seq(Messages) /\ Len(messages') = m
        /\ \A i \in 1..Len(messages) : messages'[i] = messages[i]
        /\ messages'[m] = e
    BY <1>4, <2>2, <2>3, Added
  <2>8. Sent' = Sent \cup {m} /\ m \notin Sent
    BY <2>3, <2>7 DEF Sent
  <2>9. SameMessages /\ \A i \in Sent : messages'[i] = messages[i]
    BY <2>7, <2>8 DEF Sent, SameMessages
  <2>10. Stored' = Stored /\ Gone' = Gone /\ Open' = Open \cup {m}
    BY <2>2, <2>7, <2>8, <2>9 DEF Stored, Gone, Open
  <2>11. \A u \in Users : Unread(u)' = Unread(u)
    <3>1. \A i \in Stored : i \in Sent
      BY DEF Stored
    <3>2. QED  BY <1>1, <2>9, <2>10, <3>1 DEF Unread
  <2> HIDE DEF m, d
  <2>12. TypeOK'
    <3>1. overtaken' \subseteq Nat
      BY <1>4, <2>1 DEF IInv, TypeOK
    <3>2. QED
      BY <1>1, <2>6, <2>7, <3>1 DEF IInv, TypeOK, Becomes, bounds
  <2>13. CallsKnown'
    <3> SUFFICES ASSUME NEW v \in Workers
                 PROVE  Known(v)'
      BY DEF CallsKnown
    <3>1. CASE v = w
      <4>1. call'[w] = k
        BY <2>6 DEF Becomes
      <4>2. m \in Open' /\ messages'[m].conv = d /\ messages'[m].sender = call[w].user
        BY <2>2, <2>7, <2>10
      <4>3. Looked(w)'
        <5> SUFFICES ASSUME NEW i \in Sent', messages'[i].conv = d,
                            messages'[i].sender # call[w].user
                     PROVE  i \in (Stored \cap In(d)) \cup overtaken' \cup Gone'
          BY <2>4, <4>1 DEF Looked, In
        <5>1. i \in Sent
          BY <2>8, <4>2
        <5>2. i \in In(d) /\ messages[i].state \in {"open", "stored", "gone"}
          BY <2>9, <5>1, MessageType DEF In
        <5>3. i \in Stored \/ i \in Open \/ i \in Gone
          BY <5>1, <5>2 DEF Stored, Open, Gone
        <5>4. QED  BY <1>4, <2>10, <5>2, <5>3
      <4>4. QED
        BY <1>1, <1>2, <2>4, <2>8, <3>1, <4>1, <4>2, <4>3 DEF Known, At
    <3>2. CASE v # w
      <4>1. call'[v] = call[v]
        BY <2>6, <3>2 DEF Becomes
      <4>2. QED
        BY <1>1, <1>4, <2>9, <3>2, <4>1, OthersKnown
    <3>3. QED  BY <3>1, <3>2
  <2>14. OneWriter'
    <3>1. \A v \in Workers : At(v, "commit") => call[v].mark \in Sent
      BY DEF IInv, CallsKnown, Known, Open
    <3>2. QED
      BY <2>4, <2>6, <2>8, <3>1 DEF IInv, OneWriter, At, Becomes
  <2>15. MarkersSound'
    <3> SUFFICES ASSUME NEW u \in Users, NEW i \in Sent', messages'[i].sender # u,
                        i <= read[messages'[i].conv][u]
                 PROVE  i \in covered[u] \cup overtaken' \cup Gone'
      BY <1>1 DEF MarkersSound
    <3>1. CASE i \in Sent
      BY <1>4, <2>9, <2>10, <3>1 DEF IInv, MarkersSound
    <3>2. CASE i = m
      <4>1. read[d][u] \in Nat /\ read[d][u] <= Len(messages)
        BY <1>2 DEF IInv, TypeOK, MarkersReached
      <4>2. m <= read[d][u]
        BY <2>2, <2>7, <3>2
      <4>3. QED
        BY <2>3, <4>1, <4>2 DEF m
    <3>3. QED  BY <2>8, <3>1, <3>2
  <2>16. MarkersReached'
    <3>1. \A c \in Conversations, u \in Users : read[c][u] \in Nat /\ read[c][u] <= Len(messages)
      BY DEF IInv, TypeOK, MarkersReached
    <3>2. QED
      BY <1>1, <2>3, <2>7, <3>1 DEF MarkersReached, m
  <2>17. RivalsKnown'
    <3> SUFFICES ASSUME NEW i \in Sent', NEW o \in Open',
                        messages'[o].conv = messages'[i].conv, o < i
                 PROVE  o \in messages'[i].rivals
      BY DEF RivalsKnown
    <3>1. o # m
      <4>1. i <= m
        BY <2>3, <2>8, MessageType DEF m
      <4>2. i \in Nat
        BY <2>3, <2>8, MessageType
      <4>3. QED  BY <2>3, <4>1, <4>2
    <3>2. o \in Open /\ o \in Sent
      BY <2>10, <3>1 DEF Open
    <3>3. CASE i \in Sent
      BY <2>9, <3>2, <3>3 DEF IInv, RivalsKnown
    <3>4. CASE i = m
      BY <2>2, <2>7, <2>9, <3>2, <3>4 DEF In
    <3>5. QED  BY <2>8, <3>3, <3>4
  <2>18. LastIsNewest'
    <3>1. \A i \in Stored : i \in Sent
      BY DEF Stored
    <3>2. QED  BY <1>1, <2>9, <2>10, <3>1 DEF IInv, LastIsNewest
  <2>19. Told'
    <3> SUFFICES ASSUME faults = 0, NEW u \in Users \ crossed
                 PROVE  \/ \E v \in Workers : Owes(v, u)' \/ BringsNews(v, u)'
                        \/ /\ u \in untold' \/ badge[u] = Cardinality(Unread(u)')
                           /\ \A v \in Workers : ~Brings(v, u)'
      BY <1>1 DEF Told, bounds
    <3>1. \A v \in Workers : (Owes(v, u) => Owes(v, u)') /\ (Brings(v, u)' <=> Brings(v, u))
                             /\ (BringsNews(v, u) => BringsNews(v, u)')
      BY <1>1, <2>4, <2>6, <2>11 DEF Owes, Brings, BringsNews, At, Becomes
    <3>2. QED
      BY <1>1, <2>11, <3>1 DEF IInv, Told
  <2>20. QED
    BY <2>12, <2>13, <2>14, <2>15, <2>16, <2>17, <2>18, <2>19 DEF IInv
<1>5. QED
  BY <1>3, <1>4 DEF InsertMessage

\* The sender's marker goes to the message: what is below it was looked at.  A
\* newer message that is stored already knows this one as its rival.
LEMMA CommitKeeps ==
  ASSUME IInv, NEW w \in Workers, Commit(w)
  PROVE  IInv'
<1> DEFINE d == call[w].conv
           s == call[w].user
           m == call[w].mark
<1>1. /\ At(w, "commit") /\ Tell(w, Users)
      /\ messages' = [messages EXCEPT ![m].state = "stored"]
      /\ last' = [last EXCEPT ![d] = m] /\ recent' = d
      /\ read' = [read EXCEPT ![d][s] = m]
      /\ covered' = [covered EXCEPT ![s] = @ \cup call[w].seen]
      /\ UNCHANGED <<existing, badge, bounds, overtaken, crossed, untold>>
  BY DEF Commit
<1>2. /\ s \in Users /\ d \in existing /\ d \in Conversations /\ Looked(w)
      /\ m \in Open /\ m \in Sent /\ messages[m].conv = d /\ messages[m].sender = s
  BY <1>1 DEF IInv, CallsKnown, Known, At, TypeOK, Open
<1>3. messages \in Seq(Messages) /\ Len(messages) \in Nat /\ m \in Nat /\ m <= Len(messages)
  BY <1>2, MessageType DEF IInv, TypeOK
<1>4. /\ messages' \in Seq(Messages) /\ Len(messages') = Len(messages)
      /\ \A i \in Sent :
           /\ messages'[i].sender = messages[i].sender /\ messages'[i].conv = messages[i].conv
           /\ messages'[i].rivals = messages[i].rivals
           /\ messages'[i].state = IF i = m THEN "stored" ELSE messages[i].state
  <2> HIDE DEF m
  <2>1. "stored" \in {"open", "stored", "gone"}
    OBVIOUS
  <2>2. QED  BY <1>1, <1>2, <1>3, <2>1, StateChange
<1>5. Sent' = Sent
  BY <1>4 DEF Sent
<1>6. SameMessages
  BY <1>2, <1>4, <1>5 DEF SameMessages, Open
<1>7. Stored' = Stored \cup {m} /\ Open' = Open \ {m} /\ Gone' = Gone
  BY <1>2, <1>4, <1>5 DEF Stored, Open, Gone
<1>8. PICK k \in Calls : Becomes(w, k) /\ k.step = "count" /\ k.todo = Users
  BY <1>1, TellIs DEF IInv
<1>9. call[w].seen \in SUBSET Nat
  BY CallType
<1> HIDE DEF m, d, s
<1>10. /\ \A c \in Conversations, u \in Users :
            read'[c][u] = IF c = d /\ u = s THEN m ELSE read[c][u]
       /\ \A c \in Conversations : last'[c] = IF c = d THEN m ELSE last[c]
       /\ \A u \in Users : covered'[u] = IF u = s THEN covered[u] \cup call[w].seen ELSE covered[u]
  BY <1>1, <1>2 DEF IInv, TypeOK
<1>11. TypeOK'
  <2>1. last' \in [Conversations -> Nat] /\ read' \in [Conversations -> [Users -> Nat]]
    BY <1>1, <1>2, <1>3 DEF IInv, TypeOK
  <2>2. covered' \in [Users -> SUBSET Nat]
    BY <1>1, <1>2, <1>9 DEF IInv, TypeOK
  <2>3. QED
    BY <1>1, <1>2, <1>4, <1>8, <2>1, <2>2 DEF IInv, TypeOK, Becomes, bounds
<1>12. CallsKnown'
  <2> SUFFICES ASSUME NEW v \in Workers
               PROVE  Known(v)'
    BY DEF CallsKnown
  <2>1. CASE v = w
    BY <1>8, <2>1 DEF Known, At, Becomes
  <2>2. CASE v # w
    <3>1. call'[v] = call[v]
      BY <1>8, <2>2 DEF Becomes
    <3>2. QED
      BY <1>1, <1>4, <1>6, <2>2, <3>1, OthersKnown DEF m
  <2>3. QED  BY <2>1, <2>2
<1>13. OneWriter'
  BY <1>8 DEF IInv, OneWriter, At, Becomes
<1>14. MarkersSound'
  <2> SUFFICES ASSUME NEW u \in Users, NEW i \in Sent, messages[i].sender # u,
                      i <= read'[messages[i].conv][u]
               PROVE  i \in covered'[u] \cup overtaken \cup Gone
    BY <1>1, <1>4, <1>5, <1>7 DEF MarkersSound
  <2>1. messages[i].conv \in Conversations
    BY MessageType
  <2>2. CASE messages[i].conv = d /\ u = s
    <3>1. i \in In(call[w].conv) /\ i <= call[w].mark /\ messages[i].sender # call[w].user
      BY <1>2, <1>10, <2>2 DEF In, d, s, m
    <3>2. i \in call[w].seen \cup overtaken \cup Gone
      BY <1>2, <3>1 DEF Looked
    <3>3. QED  BY <1>10, <2>2, <3>2
  <2>3. CASE ~(messages[i].conv = d /\ u = s)
    <3>1. i <= read[messages[i].conv][u]
      BY <1>10, <2>1, <2>3
    <3>2. i \in covered[u] \cup overtaken \cup Gone
      BY <3>1 DEF IInv, MarkersSound
    <3>3. QED  BY <1>10, <3>2
  <2>4. QED  BY <2>2, <2>3
<1>15. MarkersReached'
  BY <1>3, <1>4, <1>10 DEF IInv, MarkersReached
<1>16. RivalsKnown'
  <2>1. \A o \in Open : o \in Sent
    BY DEF Open
  <2>2. QED  BY <1>4, <1>5, <1>7, <2>1 DEF IInv, RivalsKnown
<1>17. LastIsNewest'
  <2> SUFFICES ASSUME NEW i \in Stored', i > last'[messages'[i].conv]
               PROVE  last'[messages'[i].conv] \in messages'[i].rivals
    BY DEF LastIsNewest
  <2>1. i \in Sent /\ i \in Nat /\ messages'[i].conv = messages[i].conv
        /\ messages'[i].rivals = messages[i].rivals /\ messages[i].conv \in Conversations
    BY <1>4, <1>5, MessageType DEF Stored
  <2>2. CASE messages[i].conv = d
    BY <1>2, <1>10, <2>1, <2>2 DEF IInv, RivalsKnown
  <2>3. CASE messages[i].conv # d
    <3>1. i \in Stored
      BY <1>2, <1>7, <2>3
    <3>2. QED  BY <1>10, <2>1, <2>3, <3>1 DEF IInv, LastIsNewest
  <2>4. QED  BY <2>2, <2>3
<1>18. Told'
  <2>1. \A u \in Users : Owes(w, u)'
    BY <1>8 DEF Owes, At, Becomes
  <2>2. QED  BY <1>1, <2>1 DEF Told
<1>19. QED
  BY <1>11, <1>12, <1>13, <1>14, <1>15, <1>16, <1>17, <1>18 DEF IInv

\* The reader's marker goes to the message that was the latest; the reader alone
\* may have another count, and is told unless the reading came over HTTP.
LEMMA MarkKeeps ==
  ASSUME IInv, NEW w \in Workers, Mark(w)
  PROVE  IInv'
<1> DEFINE d == call[w].conv
           s == call[w].user
           m == call[w].mark
<1>1. /\ At(w, "mark") /\ Answer(w, s, call[w].quiet)
      /\ read' = [read EXCEPT ![d][s] = m]
      /\ covered' = [covered EXCEPT ![s] = @ \cup call[w].seen]
      /\ crossed' = IF call[w].quiet /\ BroughtByOthers(w, s) THEN crossed \cup {s} ELSE crossed
      /\ untold' = IF call[w].quiet THEN untold \cup {s} ELSE untold
      /\ UNCHANGED <<existing, recent, last, messages, badge, bounds, overtaken>>
  BY DEF Mark, Marked
<1>2. s \in Users /\ d \in Conversations /\ Looked(w) /\ m \in Sent
  BY <1>1 DEF IInv, CallsKnown, Known, At, TypeOK
<1>3. Len(messages) \in Nat /\ m \in Nat /\ m <= Len(messages)
  BY <1>2, MessageType DEF IInv, TypeOK
<1>4. Sent' = Sent /\ Stored' = Stored /\ Open' = Open /\ Gone' = Gone
  BY <1>1 DEF Sent, Stored, Open, Gone
<1>5. SameMessages
  BY <1>1, <1>4 DEF SameMessages
<1>6. PICK k \in Calls : /\ Becomes(w, k) /\ k.step \in {"idle", "count"}
                         /\ ~call[w].quiet => k.step = "count" /\ k.todo = {s}
  <2>1. CASE call[w].quiet
    BY <1>1, <2>1, ReturnIs, IdleType DEF Answer, IInv
  <2>2. CASE ~call[w].quiet
    <3>1. {s} \in SUBSET Users /\ Tell(w, {s})
      BY <1>1, <1>2, <2>2 DEF Answer
    <3>2. QED  BY <2>2, <3>1, TellIs DEF IInv
  <2>3. QED  BY <2>1, <2>2
<1>7. call[w].seen \in SUBSET Nat
  BY CallType
<1> HIDE DEF m, d, s
<1>8. /\ \A c \in Conversations, u \in Users :
            read'[c][u] = IF c = d /\ u = s THEN m ELSE read[c][u]
      /\ \A u \in Users : covered'[u] = IF u = s THEN covered[u] \cup call[w].seen ELSE covered[u]
  BY <1>1, <1>2 DEF IInv, TypeOK
<1>9. TypeOK'
  <2>1. read' \in [Conversations -> [Users -> Nat]]
    BY <1>1, <1>2, <1>3 DEF IInv, TypeOK
  <2>2. covered' \in [Users -> SUBSET Nat]
    BY <1>1, <1>2, <1>7 DEF IInv, TypeOK
  <2>3. crossed' \subseteq Users /\ untold' \subseteq Users
    BY <1>1, <1>2 DEF IInv, TypeOK
  <2>4. QED
    BY <1>1, <1>6, <2>1, <2>2, <2>3 DEF IInv, TypeOK, Becomes, bounds
<1>10. CallsKnown'
  <2> SUFFICES ASSUME NEW v \in Workers
               PROVE  Known(v)'
    BY DEF CallsKnown
  <2>1. CASE v = w
    BY <1>6, <2>1 DEF Known, At, Becomes
  <2>2. CASE v # w
    <3>1. call'[v] = call[v]
      BY <1>6, <2>2 DEF Becomes
    <3>2. QED
      BY <1>1, <1>5, <2>2, <3>1, OthersKnown
  <2>3. QED  BY <2>1, <2>2
<1>11. OneWriter'
  BY <1>6 DEF IInv, OneWriter, At, Becomes
<1>12. MarkersSound'
  <2> SUFFICES ASSUME NEW u \in Users, NEW i \in Sent, messages[i].sender # u,
                      i <= read'[messages[i].conv][u]
               PROVE  i \in covered'[u] \cup overtaken \cup Gone
    BY <1>1, <1>4 DEF MarkersSound
  <2>1. messages[i].conv \in Conversations
    BY MessageType
  <2>2. CASE messages[i].conv = d /\ u = s
    <3>1. i \in In(call[w].conv) /\ i <= call[w].mark /\ messages[i].sender # call[w].user
      BY <1>2, <1>8, <2>2 DEF In, d, s, m
    <3>2. i \in call[w].seen \cup overtaken \cup Gone
      BY <1>2, <3>1 DEF Looked
    <3>3. QED  BY <1>8, <2>2, <3>2
  <2>3. CASE ~(messages[i].conv = d /\ u = s)
    <3>1. i <= read[messages[i].conv][u]
      BY <1>8, <2>1, <2>3
    <3>2. i \in covered[u] \cup overtaken \cup Gone
      BY <3>1 DEF IInv, MarkersSound
    <3>3. QED  BY <1>8, <3>2
  <2>4. QED  BY <2>2, <2>3
<1>13. MarkersReached'
  BY <1>1, <1>3, <1>8 DEF IInv, MarkersReached
<1>14. RivalsKnown' /\ LastIsNewest'
  BY <1>1, <1>4 DEF IInv, RivalsKnown, LastIsNewest
<1>15. Told'
  <2> SUFFICES ASSUME faults = 0, NEW u \in Users \ crossed'
               PROVE  \/ \E v \in Workers : Owes(v, u)' \/ BringsNews(v, u)'
                      \/ /\ u \in untold' \/ badge[u] = Cardinality(Unread(u)')
                         /\ \A v \in Workers : ~Brings(v, u)'
    BY <1>1 DEF Told, bounds
  <2>1. CASE u = s
    <3>1. CASE call[w].quiet
      <4>1. \A v \in Workers \ {w} : ~Brings(v, u) /\ call'[v] = call[v]
        BY <1>1, <1>6, <2>1, <3>1 DEF BroughtByOthers, Becomes
      <4>2. \A v \in Workers : ~Brings(v, u)'
        BY <1>6, <4>1 DEF Brings, At, Becomes
      <4>3. QED  BY <1>1, <2>1, <3>1, <4>2
    <3>2. CASE ~call[w].quiet
      BY <1>6, <2>1, <3>2 DEF Owes, At, Becomes
    <3>3. QED  BY <3>1, <3>2
  <2>2. CASE u # s
    <3>1. Unread(u)' = Unread(u)
      <4>1. \A i \in Stored : messages[i].conv \in Conversations
        BY MessageType DEF Stored
      <4>2. QED  BY <1>1, <1>4, <1>8, <2>2, <4>1 DEF Unread
    <3>2. \A v \in Workers : (Owes(v, u) => Owes(v, u)') /\ (Brings(v, u)' <=> Brings(v, u))
                             /\ (BringsNews(v, u) => BringsNews(v, u)')
      BY <1>1, <1>6, <3>1 DEF Owes, Brings, BringsNews, At, Becomes
    <3>3. u \in Users \ crossed /\ (u \in untold' <=> u \in untold)
      BY <1>1, <2>2
    <3>4. QED
      BY <1>1, <3>1, <3>2, <3>3 DEF IInv, Told
  <2>3. QED  BY <2>1, <2>2
<1>16. QED
  BY <1>9, <1>10, <1>11, <1>12, <1>13, <1>14, <1>15 DEF IInv

\* The count that is brought is the one that holds when it is taken.
LEMMA CountKeeps ==
  ASSUME IInv, NEW w \in Workers, Count(w)
  PROVE  IInv'
<1>1. /\ At(w, "count") /\ UNCHANGED <<rows, badge, bounds, history>>
  BY DEF Count
<1>2. PICK s \in call[w].todo :
        call' = [call EXCEPT ![w].step = "emit", ![w].to = s, ![w].count = Cardinality(Unread(s))]
  BY DEF Count
<1>3. s \in Users /\ Cardinality(Unread(s)) \in Nat
  BY <1>2, CallType, UnreadCount DEF IInv
<1> DEFINE k == [call[w] EXCEPT !.step = "emit", !.to = s, !.count = Cardinality(Unread(s))]
<1>4. /\ k \in Calls /\ k.step = "emit" /\ k.to = s /\ k.todo = call[w].todo
      /\ k.count = Cardinality(Unread(s))
  BY <1>3, CallType DEF Calls, Steps
<1>5. call' = [call EXCEPT ![w] = k]
  BY <1>2 DEF IInv, TypeOK
<1> HIDE DEF k
<1>6. Becomes(w, k)
  BY <1>4, <1>5, BecomesIs DEF IInv
<1>7. UNCHANGED <<Sent, Stored, Open, Gone>>
  BY <1>1 DEF Sent, Stored, Open, Gone, rows
<1>8. \A u \in Users : Unread(u)' = Unread(u)
  BY <1>1, <1>7 DEF Unread, rows
<1>9. TypeOK'
  BY <1>1, <1>6 DEF IInv, TypeOK, Becomes, rows, bounds, history
<1>10. CallsKnown'
  <2> SUFFICES ASSUME NEW v \in Workers
               PROVE  Known(v)'
    BY DEF CallsKnown
  <2>1. CASE v = w
    BY <1>3, <1>4, <1>6, <2>1 DEF Known, At, Becomes
  <2>2. CASE v # w
    <3>1. call'[v] = call[v]
      BY <1>6, <2>2 DEF Becomes
    <3>2. SameMessages
      BY <1>1, <1>7 DEF SameMessages, rows
    <3>3. QED
      BY <1>1, <2>2, <3>1, <3>2, OthersKnown DEF rows, history
  <2>3. QED  BY <2>1, <2>2
<1>11. OneWriter'
  BY <1>4, <1>6 DEF IInv, OneWriter, At, Becomes
<1>12. MarkersSound' /\ MarkersReached' /\ RivalsKnown' /\ LastIsNewest'
  BY <1>1, <1>7
     DEF IInv, MarkersSound, MarkersReached, RivalsKnown, LastIsNewest, rows, history
<1>13. Told'
  <2> SUFFICES ASSUME faults = 0, NEW u \in Users \ crossed
               PROVE  \/ \E v \in Workers : Owes(v, u)' \/ BringsNews(v, u)'
                      \/ /\ u \in untold' \/ badge[u] = Cardinality(Unread(u)')
                         /\ \A v \in Workers : ~Brings(v, u)'
    BY <1>1 DEF Told, bounds, history
  <2>1. CASE u = s
    BY <1>4, <1>6, <1>8, <2>1 DEF Brings, BringsNews, At, Becomes
  <2>2. CASE u # s
    <3>1. \A v \in Workers : (Owes(v, u) => Owes(v, u)') /\ (Brings(v, u)' <=> Brings(v, u))
                             /\ (BringsNews(v, u) => BringsNews(v, u)')
      BY <1>1, <1>4, <1>6, <1>8, <2>2 DEF Owes, Brings, BringsNews, At, Becomes
    <3>2. UNCHANGED untold
      BY <1>1 DEF history
    <3>3. QED
      BY <1>8, <3>1, <3>2 DEF IInv, Told
  <2>3. QED  BY <2>1, <2>2
<1>14. QED
  BY <1>9, <1>10, <1>11, <1>12, <1>13 DEF IInv

\* The one that is brought a count shows it, and nobody else brings one unless
\* they crossed.
LEMMA EmitKeeps ==
  ASSUME IInv, NEW w \in Workers, Emit(w)
  PROVE  IInv'
<1> DEFINE s == call[w].to
           left == call[w].todo \ {s}
<1>1. /\ At(w, "emit") /\ UNCHANGED <<rows, bounds, covered, overtaken>>
      /\ badge' = [badge EXCEPT ![s] = call[w].count]
      /\ crossed' = IF BroughtByOthers(w, s) THEN crossed \cup {s} ELSE crossed
      /\ untold' = untold \ {s}
      /\ IF left = {} THEN Return(w) ELSE Tell(w, left)
  BY DEF Emit
<1>2. s \in Users /\ call[w].count \in Nat
  BY <1>1, CallType DEF IInv, CallsKnown, Known
<1>3. PICK k \in Calls : /\ Becomes(w, k) /\ k.step \in {"idle", "count"}
                         /\ left # {} => k.step = "count" /\ k.todo = left
  <2>1. CASE left = {}
    BY <1>1, <2>1, ReturnIs, IdleType DEF IInv
  <2>2. CASE left # {}
    <3>1. left \in SUBSET Users
      BY CallType
    <3>2. QED
      BY <1>1, <2>2, <3>1, TellIs DEF IInv
  <2>3. QED  BY <2>1, <2>2
<1>4. UNCHANGED <<Sent, Stored, Open, Gone>>
  BY <1>1 DEF Sent, Stored, Open, Gone, rows
<1>5. \A u \in Users : Unread(u)' = Unread(u)
  BY <1>1, <1>4 DEF Unread, rows
<1>6. TypeOK'
  <2>1. badge' \in [Users -> Nat] /\ crossed' \subseteq Users /\ untold' \subseteq Users
    BY <1>1, <1>2 DEF IInv, TypeOK
  <2>2. QED
    BY <1>1, <1>3, <2>1 DEF IInv, TypeOK, Becomes, rows, bounds
<1>7. CallsKnown'
  <2> SUFFICES ASSUME NEW v \in Workers
               PROVE  Known(v)'
    BY DEF CallsKnown
  <2>1. CASE v = w
    BY <1>3, <2>1 DEF Known, At, Becomes
  <2>2. CASE v # w
    <3>1. call'[v] = call[v]
      BY <1>3, <2>2 DEF Becomes
    <3>2. SameMessages
      BY <1>1, <1>4 DEF SameMessages, rows
    <3>3. QED
      BY <1>1, <2>2, <3>1, <3>2, OthersKnown DEF rows
  <2>3. QED  BY <2>1, <2>2
<1>8. OneWriter'
  BY <1>3 DEF IInv, OneWriter, At, Becomes
<1>9. MarkersSound' /\ MarkersReached' /\ RivalsKnown' /\ LastIsNewest'
  BY <1>1, <1>4 DEF IInv, MarkersSound, MarkersReached, RivalsKnown, LastIsNewest, rows
<1>10. Told'
  <2> SUFFICES ASSUME faults = 0, NEW u \in Users \ crossed'
               PROVE  \/ \E v \in Workers : Owes(v, u)' \/ BringsNews(v, u)'
                      \/ /\ u \in untold' \/ badge'[u] = Cardinality(Unread(u)')
                         /\ \A v \in Workers : ~Brings(v, u)'
    BY <1>1 DEF Told, bounds
  <2>1. /\ u \in Users \ crossed
        /\ \A v \in Workers \ {w} : call'[v] = call[v] /\ Owes(v, u)' = Owes(v, u)
        /\ call'[w] = k /\ ~Brings(w, u)'
    BY <1>1, <1>3 DEF Becomes, Owes, Brings, At
  <2>2. CASE u = s
    <3>1. \A v \in Workers \ {w} : ~Brings(v, u) /\ ~Brings(v, u)'
      BY <1>1, <2>1, <2>2 DEF BroughtByOthers, Brings, At
    <3>2. ~Owes(w, u) /\ Brings(w, u)
      BY <1>1, <2>2 DEF Owes, Brings, At
    <3>3. CASE \E v \in Workers : Owes(v, u)
      BY <2>1, <3>2, <3>3
    <3>4. CASE BringsNews(w, u)
      <4>1. badge'[u] = Cardinality(Unread(u)')
        BY <1>1, <1>2, <1>5, <2>2, <3>4 DEF BringsNews, IInv, TypeOK
      <4>2. QED  BY <2>1, <3>1, <4>1
    <3>5. QED
      BY <3>1, <3>2, <3>3, <3>4, <2>1 DEF IInv, Told, BringsNews
  <2>3. CASE u # s
    <3>1. badge'[u] = badge[u]
      BY <1>1, <2>3 DEF IInv, TypeOK
    <3>2. Owes(w, u) => Owes(w, u)'
      BY <1>1, <1>3, <2>1 DEF Owes, At
    <3>3. ~Brings(w, u)
      BY <2>3 DEF Brings
    <3>4. \A v \in Workers \ {w} : (Brings(v, u)' <=> Brings(v, u))
                                   /\ (BringsNews(v, u) => BringsNews(v, u)')
      BY <1>5, <2>1 DEF Brings, BringsNews, At
    <3>5. QED
      BY <1>1, <1>5, <2>1, <2>3, <3>1, <3>2, <3>3, <3>4 DEF IInv, Told, BringsNews
  <2>4. QED  BY <2>2, <2>3
<1>11. QED
  BY <1>6, <1>7, <1>8, <1>9, <1>10 DEF IInv

\* An open message is rolled back: nobody took it for read.
LEMMA FailKeeps ==
  ASSUME IInv, NEW w \in Workers, Fail(w)
  PROVE  IInv'
<1> DEFINE m == call[w].mark
<1>1. /\ faults < MaxFaults /\ faults' = faults + 1 /\ Return(w)
      /\ messages' = IF At(w, "commit") THEN [messages EXCEPT ![m].state = "gone"] ELSE messages
      /\ UNCHANGED <<existing, recent, last, read, badge, reads, history>>
  BY DEF Fail
<1>2. messages \in Seq(Messages) /\ Len(messages) \in Nat
  BY DEF IInv, TypeOK
<1>3. At(w, "commit") => m \in Open /\ m \in 1..Len(messages)
  BY DEF IInv, CallsKnown, Known, Open, Sent
<1> HIDE DEF m
<1>4. /\ messages' \in Seq(Messages) /\ Len(messages') = Len(messages)
      /\ \A i \in Sent :
           /\ messages'[i].sender = messages[i].sender /\ messages'[i].conv = messages[i].conv
           /\ messages'[i].rivals = messages[i].rivals
           /\ messages'[i].state = IF At(w, "commit") /\ i = m THEN "gone" ELSE messages[i].state
  <2>1. CASE At(w, "commit")
    <3>1. "gone" \in {"open", "stored", "gone"} /\ m \in Sent
      BY <1>3, <2>1 DEF Sent
    <3>2. messages' = [messages EXCEPT ![m].state = "gone"]
      BY <1>1, <2>1
    <3>3. /\ messages' \in Seq(Messages) /\ Len(messages') = Len(messages)
          /\ \A i \in Sent :
               /\ messages'[i].sender = messages[i].sender
               /\ messages'[i].conv = messages[i].conv
               /\ messages'[i].rivals = messages[i].rivals
               /\ messages'[i].state = IF i = m THEN "gone" ELSE messages[i].state
      BY <1>2, <3>1, <3>2, StateChange
    <3>4. QED  BY <2>1, <3>3
  <2>2. CASE ~At(w, "commit")
    BY <1>1, <1>2, <2>2
  <2>3. QED  BY <2>1, <2>2
<1>5. Sent' = Sent
  BY <1>4 DEF Sent
<1>6. SameMessages
  BY <1>3, <1>4, <1>5 DEF SameMessages, Open
<1>7. Stored' = Stored /\ Open' \subseteq Open /\ Gone \subseteq Gone'
  BY <1>3, <1>4, <1>5 DEF Stored, Open, Gone
<1>8. Becomes(w, Idle)
  BY <1>1, ReturnIs DEF IInv
<1>9. \A i \in Stored \cup Open : i \in Sent
  BY DEF Stored, Open
<1>10. faults' \in 0..MaxFaults /\ faults' # 0
  BY <1>1, ChatAssumption DEF IInv, TypeOK
<1>11. TypeOK'
  BY <1>1, <1>4, <1>8, <1>10 DEF IInv, TypeOK, Becomes, history
<1>12. CallsKnown'
  <2> SUFFICES ASSUME NEW v \in Workers
               PROVE  Known(v)'
    BY DEF CallsKnown
  <2>1. CASE v = w
    BY <1>8, <2>1, IdleType DEF Known, At, Becomes
  <2>2. CASE v # w
    <3>1. call'[v] = call[v]
      BY <1>8, <2>2 DEF Becomes
    <3>2. QED
      BY <1>1, <1>4, <1>6, <2>2, <3>1, OthersKnown DEF m, history
  <2>3. QED  BY <2>1, <2>2
<1>13. OneWriter'
  BY <1>8, IdleType DEF IInv, OneWriter, At, Becomes
<1>14. MarkersSound' /\ MarkersReached' /\ RivalsKnown'
  BY <1>1, <1>4, <1>5, <1>7, <1>9
     DEF IInv, MarkersSound, MarkersReached, RivalsKnown, history
<1>15. LastIsNewest'
  BY <1>1, <1>4, <1>7, <1>9 DEF IInv, LastIsNewest
<1>16. Told'
  BY <1>10 DEF Told
<1>17. QED
  BY <1>11, <1>12, <1>13, <1>14, <1>15, <1>16 DEF IInv

-----------------------------------------------------------------------------
(* The theorems *)

LEMMA InitHolds ==
  ASSUME Init
  PROVE  IInv
<1>1. messages = <<>> /\ Len(messages) = 0 /\ Sent = {}
  BY DEF Init, Sent
<1>2. Stored = {} /\ Open = {} /\ Gone = {}
  BY <1>1 DEF Stored, Open, Gone
<1>3. \A w \in Workers : call[w] = Idle
  BY DEF Init
<1>4. call \in [Workers -> Calls]
  BY IdleType DEF Init
<1>5. TypeOK
  BY <1>1, <1>4, ChatAssumption DEF Init, TypeOK
<1>6. CallsKnown /\ OneWriter
  BY <1>3, IdleType DEF CallsKnown, Known, OneWriter, At
<1>7. MarkersSound /\ RivalsKnown /\ LastIsNewest
  BY <1>1, <1>2 DEF MarkersSound, RivalsKnown, LastIsNewest
<1>8. MarkersReached
  BY <1>1 DEF Init, MarkersReached
<1>9. Told
  <2>1. \A u \in Users : Unread(u) = {}
    BY <1>2 DEF Unread
  <2>2. \A u \in Users : Cardinality(Unread(u)) = 0 /\ badge[u] = 0
    BY <2>1, FS_EmptySet DEF Init
  <2>3. \A w \in Workers, u \in Users : ~Brings(w, u)
    BY <1>3, IdleType DEF Brings, At
  <2>4. QED  BY <2>2, <2>3 DEF Told
<1>10. QED  BY <1>5, <1>6, <1>7, <1>8, <1>9 DEF IInv

LEMMA StepKeeps ==
  ASSUME IInv, [Next]_vars
  PROVE  IInv'
<1>1. CASE UNCHANGED vars
  <2>1. UNCHANGED <<Sent, Stored, Open, Gone>> /\ \A u \in Users : UNCHANGED Unread(u)
    BY <1>1 DEF vars, rows, Sent, Stored, Open, Gone, Unread
  <2>2. TypeOK' /\ OneWriter'
    BY <1>1 DEF IInv, TypeOK, OneWriter, At, vars, rows, bounds, history
  <2>3. CallsKnown'
    BY <1>1, <2>1 DEF IInv, CallsKnown, Known, Looked, In, At, vars, rows, bounds, history
  <2>4. MarkersSound' /\ MarkersReached' /\ RivalsKnown' /\ LastIsNewest'
    BY <1>1, <2>1 DEF IInv, MarkersSound, MarkersReached, RivalsKnown, LastIsNewest,
                      vars, rows, history
  <2>5. Told'
    BY <1>1, <2>1 DEF IInv, Told, Owes, Brings, BringsNews, At, vars, bounds, history
  <2>6. QED  BY <2>2, <2>3, <2>4, <2>5 DEF IInv
<1>2. CASE Next
  <2> SUFFICES ASSUME NEW w \in Workers,
                      \/ \E u \in Users, c \in Clients :
                           SendTo(w, u, c) \/ \E k \in Conversations : SendIn(w, u, k, c)
                      \/ \E u \in Users, k \in Conversations, quiet \in BOOLEAN :
                           MarkConversationRead(w, u, k, quiet)
                      \/ Continue(w) \/ Fail(w)
               PROVE  IInv'
    BY <1>2 DEF Next
  <2>1. ASSUME NEW u \in Users, NEW c \in Clients, SendTo(w, u, c)
        PROVE  IInv'
    BY <2>1, SendToKeeps
  <2>2. ASSUME NEW u \in Users, NEW c \in Clients, NEW k \in Conversations, SendIn(w, u, k, c)
        PROVE  IInv'
    BY <2>2, SendInKeeps
  <2>3. ASSUME NEW u \in Users, NEW k \in Conversations, NEW quiet \in BOOLEAN,
               MarkConversationRead(w, u, k, quiet)
        PROVE  IInv'
    BY <2>3, MarkConversationReadKeeps
  <2>4. CASE FindConversation(w)
    BY <2>4, FindConversationKeeps
  <2>5. CASE CreateConversation(w)
    BY <2>5, CreateConversationKeeps
  <2>6. CASE FindMessage(w)
    BY <2>6, FindMessageKeeps
  <2>7. CASE InsertMessage(w)
    BY <2>7, InsertMessageKeeps
  <2>8. CASE Commit(w)
    BY <2>8, CommitKeeps
  <2>9. CASE Mark(w)
    BY <2>9, MarkKeeps
  <2>10. CASE Count(w)
    BY <2>10, CountKeeps
  <2>11. CASE Emit(w)
    BY <2>11, EmitKeeps
  <2>12. CASE Fail(w)
    BY <2>12, FailKeeps
  <2>13. QED
    BY <2>1, <2>2, <2>3, <2>4, <2>5, <2>6, <2>7, <2>8, <2>9, <2>10, <2>11, <2>12 DEF Continue
<1>3. QED  BY <1>1, <1>2

LEMMA Invariant ==
  Spec => []IInv
<1>1. Init => IInv
  BY InitHolds
<1>2. IInv /\ [Next]_vars => IInv'
  BY StepKeeps
<1>3. QED  BY <1>1, <1>2, PTL DEF Spec

\* Rows, markers, badges and calls have their types (sendMessage,
\* markConversationRead, broadcastNewMessage).
THEOREM TypeCorrect == Spec => []TypeOK
<1>1. IInv => TypeOK
  BY DEF IInv
<1>2. QED  BY <1>1, Invariant, PTL

\* sendMessage and markConversationRead take a message of the other user for read
\* only if it was there when the marker was fixed, or was open at that moment.
THEOREM NothingMissedCorrect == Spec => []NothingMissed
<1>1. IInv => NothingMissed
  <2> SUFFICES ASSUME IInv, NEW u \in Users, NEW i \in Stored \ Unread(u), messages[i].sender # u
               PROVE  i \in covered[u] \cup overtaken
    BY DEF NothingMissed
  <2>1. i \in Sent /\ i \in Nat /\ messages[i].conv \in Conversations /\ messages[i].state = "stored"
    BY MessageType DEF Stored
  <2>2. read[messages[i].conv][u] \in Nat
    BY <2>1 DEF IInv, TypeOK
  <2>3. i <= read[messages[i].conv][u]
    BY <2>1, <2>2 DEF Unread
  <2>4. i \in covered[u] \cup overtaken \cup Gone
    BY <2>1, <2>3 DEF IInv, MarkersSound
  <2>5. QED  BY <2>1, <2>4 DEF Gone
<1>2. QED  BY <1>1, Invariant, PTL

\* The transaction of sendMessage leaves a conversation with its newest message,
\* unless the message it shows was open when the newer one was inserted.
THEOREM LastIsNewestCorrect == Spec => []LastIsNewest
<1>1. IInv => LastIsNewest
  BY DEF IInv
<1>2. QED  BY <1>1, Invariant, PTL

\* The counts broadcastNewMessage and the gateway's markRead push leave the user's
\* sockets with the user's unread count when nothing is under way, unless a call was
\* cut short, a count was crossed by another or by a reading over HTTP, or the user
\* read over HTTP and was told no count since.
THEOREM BadgeExplainedCorrect == Spec => []BadgeExplained
<1>1. IInv => BadgeExplained
  <2> SUFFICES ASSUME IInv, \A w \in Workers : At(w, "idle"), faults = 0,
                      NEW u \in Users \ (crossed \cup untold)
               PROVE  badge[u] = Cardinality(Unread(u))
    BY DEF BadgeExplained
  <2>1. \A w \in Workers : ~Owes(w, u) /\ ~BringsNews(w, u)
    BY DEF Owes, BringsNews, Brings, At
  <2>2. QED  BY <2>1 DEF IInv, Told
<1>2. QED  BY <1>1, Invariant, PTL
=============================================================================
