-------------------------------- MODULE Chat --------------------------------
(***************************************************************************)
(* Direct messages between two users (src/modules/chat/chat.service.ts and *)
(* chat.gateway.ts): sendMessage with the conversation it finds or makes,  *)
(* its clientMessageId and its transaction; markConversationRead, from a   *)
(* socket or over HTTP (chat.controller.ts); and the unread counts that    *)
(* are pushed to the users' sockets after a message, and after a reading   *)
(* that came from a socket.                                                *)
(*                                                                         *)
(* createdAt is taken when a row is inserted, and the row is seen when its *)
(* transaction commits: a message is named by its place in the order of    *)
(* insertion, which is the order of createdAt.                             *)
(***************************************************************************)
EXTENDS Naturals, Sequences, FiniteSets

CONSTANTS
  Users,          \* the two of them
  Conversations,  \* bound: direct conversations between them
  Clients,        \* clientMessageIds in use
  NoClient,       \* in Clients if messages may be sent without one
  None,           \* no conversation, no user
  Workers,        \* calls that may be in flight at the same time
  MaxMessages,    \* bound: rows inserted
  MaxReads,       \* bound: calls of markConversationRead
  MaxFaults       \* bound: calls that end where they are

ASSUME ChatAssumption ==
  /\ Users # {} /\ None \notin Conversations \cup Users
  /\ MaxMessages \in Nat /\ MaxReads \in Nat /\ MaxFaults \in Nat

VARIABLES
  existing,  \* rows of Conversation
  recent,    \* the one updated last
  last,      \* lastMessageId of each, 0 if null
  messages,  \* rows of ChatMessage: committed, open, or rolled back
  read,      \* lastReadAt of each user in each conversation, 0 if null
  badge,     \* the unread count each user's sockets were told last
  call,      \* what each worker is doing
  reads, faults,
  covered,   \* messages that were there when a marker of the user was fixed
  overtaken, \* messages that were open when a marker beyond them was fixed
  crossed,   \* users whose marker or badge changed while a count was on its way to them
  untold     \* users that were told no count since they read over HTTP

rows == <<existing, recent, last, messages, read>>
bounds == <<reads, faults>>
history == <<covered, overtaken, crossed, untold>>
vars == <<rows, badge, call, bounds, history>>

Sent == 1..Len(messages)
Stored == {i \in Sent : messages[i].state = "stored"}
Open == {i \in Sent : messages[i].state = "open"}
In(k) == {i \in Sent : messages[i].conv = k}
Same(u, k, c) == {i \in In(k) : messages[i].sender = u /\ messages[i].client = c}
Latest(S) == IF S = {} THEN 0 ELSE CHOOSE i \in S : \A j \in S : j <= i
\* What computeUnreadCount counts, and mapConversationPreview in one conversation.
Unread(u) == {i \in Stored : messages[i].sender # u /\ i > read[messages[i].conv][u]}

Steps == {"idle", "find", "create", "dedupe", "insert", "commit", "mark", "count", "emit"}
Messages == [sender : Users, conv : Conversations, state : {"open", "stored", "gone"},
             client : Clients \cup {NoClient}, rivals : SUBSET Nat]
\* mark, seen: the place that becomes the user's marker, and what was stored when
\* it was fixed; quiet: read over HTTP; todo, to, count: whom to tell, whom next,
\* and what.
Calls == [step : Steps, user : Users \cup {None}, conv : Conversations \cup {None},
          client : Clients \cup {NoClient}, mark : Nat, seen : SUBSET Nat, quiet : BOOLEAN,
          todo : SUBSET Users, to : Users \cup {None}, count : Nat]
Idle == [step |-> "idle", user |-> None, conv |-> None, client |-> NoClient,
         mark |-> 0, seen |-> {}, quiet |-> FALSE, todo |-> {}, to |-> None, count |-> 0]

Init ==
  /\ existing = {} /\ recent = None /\ messages = <<>>
  /\ last = [k \in Conversations |-> 0]
  /\ read = [k \in Conversations |-> [u \in Users |-> 0]]
  /\ badge = [u \in Users |-> 0]
  /\ call = [w \in Workers |-> Idle]
  /\ reads = 0 /\ faults = 0
  /\ covered = [u \in Users |-> {}] /\ overtaken = {}
  /\ crossed = {} /\ untold = {}

At(w, s) == call[w].step = s
Goto(w, s) == call' = [call EXCEPT ![w].step = s]
Return(w) == call' = [call EXCEPT ![w] = Idle]
Brings(w, u) == At(w, "emit") /\ call[w].to = u
BroughtByOthers(w, u) == \E v \in Workers \ {w} : Brings(v, u)
Tell(w, us) == call' = [call EXCEPT ![w] = [Idle EXCEPT !.step = "count", !.todo = us]]

-----------------------------------------------------------------------------
(* sendMessage *)

\* To the other user: the conversation is looked for.
SendTo(w, u, c) ==
  /\ At(w, "idle")
  /\ call' = [call EXCEPT ![w] = [Idle EXCEPT !.step = "find", !.user = u, !.client = c]]
  /\ UNCHANGED <<rows, badge, bounds, history>>

\* Into a conversation that is named.
SendIn(w, u, k, c) ==
  /\ At(w, "idle") /\ k \in existing
  /\ call' = [call EXCEPT ![w] = [Idle EXCEPT !.step = "dedupe", !.user = u,
                                             !.conv = k, !.client = c]]
  /\ UNCHANGED <<rows, badge, bounds, history>>

\* resolveConversationForSend: the one updated last, or a new one.
FindConversation(w) ==
  /\ At(w, "find")
  /\ IF existing = {} THEN Goto(w, "create")
     ELSE call' = [call EXCEPT ![w].step = "dedupe", ![w].conv = recent]
  /\ UNCHANGED <<rows, badge, bounds, history>>

CreateConversation(w) ==
  /\ At(w, "create")
  /\ \E k \in Conversations \ existing :
       /\ existing' = existing \cup {k} /\ recent' = k
       /\ call' = [call EXCEPT ![w].step = "dedupe", ![w].conv = k]
  /\ UNCHANGED <<last, messages, read, badge, bounds, history>>

\* Mutant: a repeated message becomes the conversation's last one again.
FindMessageTouching(w) ==
  /\ At(w, "dedupe")
  /\ LET found == Stored \cap Same(call[w].user, call[w].conv, call[w].client)
     IN IF call[w].client # NoClient /\ found # {}
          THEN Tell(w, Users) /\ last' = [last EXCEPT ![call[w].conv] = Latest(found)]
          ELSE Goto(w, "insert") /\ UNCHANGED last
  /\ UNCHANGED <<existing, recent, messages, read, badge, bounds, history>>

\* A message with this clientMessageId is answered as it is.
FindMessage(w) ==
  /\ At(w, "dedupe")
  /\ IF /\ call[w].client # NoClient
        /\ Stored \cap Same(call[w].user, call[w].conv, call[w].client) # {}
       THEN Tell(w, Users) ELSE Goto(w, "insert")
  /\ UNCHANGED <<rows, badge, bounds, history>>

\* The row is inserted.  The key (conversation, sender, clientMessageId) is
\* unique: against an open row it waits, against a committed one it throws.
InsertMessage(w) ==
  /\ At(w, "insert") /\ Len(messages) < MaxMessages
  /\ LET k == call[w].conv
         same == IF call[w].client = NoClient THEN {} ELSE Same(call[w].user, k, call[w].client)
     IN /\ same \cap Open = {}
        /\ \/ /\ same \cap Stored # {}
              /\ Return(w)
              /\ UNCHANGED <<messages, overtaken>>
           \/ /\ same \cap Stored = {}
              /\ messages' = Append(messages,
                   [sender |-> call[w].user, conv |-> k, state |-> "open",
                    client |-> call[w].client, rivals |-> Open \cap In(k)])
              /\ call' = [call EXCEPT ![w].step = "commit", ![w].mark = Len(messages) + 1,
                                      ![w].seen = Stored \cap In(k)]
              /\ overtaken' = overtaken \cup (Open \cap In(k))
  /\ UNCHANGED <<existing, recent, last, read, badge, bounds, covered, crossed, untold>>

\* Mutant: the users told of the message are the others.
CommitTellingOthers(w) ==
  /\ At(w, "commit")
  /\ LET k == call[w].conv
         u == call[w].user
     IN /\ messages' = [messages EXCEPT ![call[w].mark].state = "stored"]
        /\ last' = [last EXCEPT ![k] = call[w].mark] /\ recent' = k
        /\ read' = [read EXCEPT ![k][u] = call[w].mark]
        /\ covered' = [covered EXCEPT ![u] = @ \cup call[w].seen]
        /\ Tell(w, Users \ {u})
  /\ UNCHANGED <<existing, badge, bounds, overtaken, crossed, untold>>

\* The conversation's last message and the sender's marker are written and the
\* transaction commits; the update of the conversation holds its row until then.
Commit(w) ==
  /\ At(w, "commit")
  /\ LET k == call[w].conv
         u == call[w].user
     IN /\ messages' = [messages EXCEPT ![call[w].mark].state = "stored"]
        /\ last' = [last EXCEPT ![k] = call[w].mark] /\ recent' = k
        /\ read' = [read EXCEPT ![k][u] = call[w].mark]
        /\ covered' = [covered EXCEPT ![u] = @ \cup call[w].seen]
  /\ Tell(w, Users)
  /\ UNCHANGED <<existing, badge, bounds, overtaken, crossed, untold>>

-----------------------------------------------------------------------------
(* markConversationRead *)

\* The user's sockets are told the count, the HTTP route tells the caller alone.
Answer(w, u, quiet) == IF quiet THEN Return(w) ELSE Tell(w, {u})

\* The latest message is looked for; quiet is the HTTP route's call.
MarkConversationRead(w, u, k, quiet) ==
  /\ At(w, "idle") /\ k \in existing /\ reads < MaxReads /\ reads' = reads + 1
  /\ LET there == Stored \cap In(k)
         latest == Latest(there)
     IN /\ IF there = {} THEN Answer(w, u, quiet)
           ELSE call' = [call EXCEPT ![w] = [Idle EXCEPT !.step = "mark", !.user = u, !.conv = k,
                                                        !.mark = latest, !.seen = there,
                                                        !.quiet = quiet]]
        /\ overtaken' = overtaken \cup {i \in Open \cap In(k) : i < latest}
  /\ UNCHANGED <<rows, badge, faults, covered, crossed, untold>>

\* The marker is written, and over HTTP no count follows.
Marked(w, u) ==
  /\ covered' = [covered EXCEPT ![u] = @ \cup call[w].seen]
  /\ crossed' = IF call[w].quiet /\ BroughtByOthers(w, u) THEN crossed \cup {u} ELSE crossed
  /\ untold' = IF call[w].quiet THEN untold \cup {u} ELSE untold
  /\ Answer(w, u, call[w].quiet)
  /\ UNCHANGED <<existing, recent, last, messages, badge, bounds, overtaken>>

\* Mutant: the marker is the time of the update.
MarkNow(w) ==
  /\ At(w, "mark")
  /\ read' = [read EXCEPT ![call[w].conv][call[w].user] = Len(messages)]
  /\ Marked(w, call[w].user)

Mark(w) ==
  /\ At(w, "mark")
  /\ read' = [read EXCEPT ![call[w].conv][call[w].user] = call[w].mark]
  /\ Marked(w, call[w].user)

-----------------------------------------------------------------------------
(* broadcastNewMessage, and the end of the gateway's markRead *)

\* computeUnreadCount for one user after the other
Count(w) ==
  /\ At(w, "count")
  /\ \E u \in call[w].todo :
       call' = [call EXCEPT ![w].step = "emit", ![w].to = u, ![w].count = Cardinality(Unread(u))]
  /\ UNCHANGED <<rows, badge, bounds, history>>

Emit(w) ==
  /\ At(w, "emit")
  /\ LET u == call[w].to
         left == call[w].todo \ {u}
     IN /\ badge' = [badge EXCEPT ![u] = call[w].count]
        /\ crossed' = IF BroughtByOthers(w, u) THEN crossed \cup {u} ELSE crossed
        /\ untold' = untold \ {u}
        /\ IF left = {} THEN Return(w) ELSE Tell(w, left)
  /\ UNCHANGED <<rows, bounds, covered, overtaken>>

\* A statement throws or the process stops; an open transaction is rolled back.
Fail(w) ==
  /\ ~At(w, "idle") /\ faults < MaxFaults /\ faults' = faults + 1
  /\ messages' = IF At(w, "commit") THEN [messages EXCEPT ![call[w].mark].state = "gone"]
                                    ELSE messages
  /\ Return(w)
  /\ UNCHANGED <<existing, recent, last, read, badge, reads, history>>

Continue(w) ==
  \/ FindConversation(w) \/ CreateConversation(w) \/ FindMessage(w) \/ InsertMessage(w)
  \/ Commit(w) \/ Mark(w) \/ Count(w) \/ Emit(w)

Next ==
  \E w \in Workers :
    \/ \E u \in Users, c \in Clients :
         SendTo(w, u, c) \/ \E k \in Conversations : SendIn(w, u, k, c)
    \/ \E u \in Users, k \in Conversations, quiet \in BOOLEAN :
         MarkConversationRead(w, u, k, quiet)
    \/ Continue(w) \/ Fail(w)

Spec == Init /\ [][Next]_vars

-----------------------------------------------------------------------------
\* Rows, markers, badges and calls have their types.
TypeOK ==
  /\ existing \subseteq Conversations /\ (existing # {} => recent \in existing)
  /\ messages \in Seq(Messages)
  /\ last \in [Conversations -> Nat] /\ read \in [Conversations -> [Users -> Nat]]
  /\ badge \in [Users -> Nat]
  /\ call \in [Workers -> Calls]
  /\ reads \in 0..MaxReads /\ faults \in 0..MaxFaults
  /\ covered \in [Users -> SUBSET Nat] /\ overtaken \subseteq Nat
  /\ crossed \subseteq Users /\ untold \subseteq Users

\* A message of the other user is taken for read only if it was there when the
\* marker was fixed: by reading the latest message, or by answering.  The one
\* way to miss a message is a transaction that was open at that moment.
NothingMissed ==
  \A u \in Users : \A i \in Stored \ Unread(u) :
    messages[i].sender # u => i \in covered[u] \cup overtaken

\* A conversation shows its newest message, unless the message it shows was still
\* open when the newer one was inserted.
LastIsNewest ==
  \A i \in Stored : LET l == last[messages[i].conv] IN i > l => l \in messages[i].rivals

\* When nothing is under way, the user's sockets were told the user's unread
\* count last, unless a call was cut short, the user read over HTTP and no message
\* came since, or a count was on its way to the user while the user read over HTTP
\* or another count arrived.
BadgeExplained ==
  (\A w \in Workers : At(w, "idle")) /\ faults = 0 =>
    \A u \in Users \ (crossed \cup untold) : badge[u] = Cardinality(Unread(u))
=============================================================================
