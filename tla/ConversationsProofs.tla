------------------------- MODULE ConversationsProofs -------------------------
(***************************************************************************)
(* Theorems about who owns a conversation's messages and what it is titled *)
(* after, for any accounts, conversations, turns and limit.                *)
(***************************************************************************)
EXTENDS Conversations, TLAPS

\* The parts of TypeOK the argument needs; what a turn has read is no part.
Shape ==
  /\ owner \in [Chats -> Users \cup {None}]
  /\ drawn \subseteq Chats
  /\ messages \subseteq Message
  /\ clock \in Nat
  /\ DOMAIN turn = Turns
  /\ \A t \in Turns : DOMAIN turn[t] = {"step", "user", "chat", "context", "seen"}

\* An id is drawn before it names a conversation, and is drawn once: the owner
\* a turn has checked can leave its conversation but no other can replace it.
Drawn == \A c \in Chats : owner[c] # None => c \in drawn

TurnOwned ==
  \A t \in Turns : turn[t].step # "new" =>
    /\ turn[t].user \in Users /\ turn[t].chat \in drawn
    /\ owner[turn[t].chat] \in {turn[t].user, None}

Inv == Shape /\ Drawn /\ TurnOwned /\ MessagesBelongToOwner

LEMMA InvInit == Init => Inv
BY NoneAssumption DEF Init, Inv, Shape, Drawn, TurnOwned, MessagesBelongToOwner

\* A step of a turn that changes nothing but the turn's record, and neither its
\* account nor its conversation.
LEMMA TurnMoves ==
  ASSUME Inv, NEW t \in Turns, turn[t].step # "new",
         NEW u, NEW v, turn' = [turn EXCEPT ![t].step = u, ![t].context = v]
                       \/ turn' = [turn EXCEPT ![t].step = u],
         owner' = owner, drawn' = drawn
  PROVE  /\ DOMAIN turn' = Turns
         /\ \A s \in Turns : DOMAIN turn'[s] = {"step", "user", "chat", "context", "seen"}
         /\ TurnOwned'
<1>1. /\ DOMAIN turn' = Turns
      /\ \A s \in Turns : /\ DOMAIN turn'[s] = DOMAIN turn[s]
                          /\ turn'[s].user = turn[s].user
                          /\ turn'[s].chat = turn[s].chat
                          /\ s # t => turn'[s].step = turn[s].step
  BY DEF Inv, Shape
<1>2. QED BY <1>1 DEF Inv, Shape, TurnOwned

LEMMA InvNext == Inv /\ [Next]_vars => Inv'
<1> SUFFICES ASSUME Inv, [Next]_vars PROVE Inv'
  OBVIOUS
<1> USE DEF Inv
<1>1. CASE UNCHANGED vars
  BY <1>1 DEF vars, Shape, Drawn, TurnOwned, MessagesBelongToOwner
<1>2. ASSUME NEW u \in Users, NEW c \in Chats, CreateConversation(u, c) PROVE Inv'
  <2>1. owner' = [owner EXCEPT ![c] = u] /\ drawn' = drawn \cup {c} /\ c \notin drawn
    BY <1>2 DEF CreateConversation
  <2>2. UNCHANGED <<messages, clock, turn>>
    BY <1>2 DEF CreateConversation
  <2>3. Shape' /\ Drawn'
    BY <2>1, <2>2 DEF Shape, Drawn
  <2>4. TurnOwned'
    BY <2>1, <2>2 DEF Shape, TurnOwned
  <2>5. MessagesBelongToOwner'
    <3> SUFFICES ASSUME NEW m \in messages PROVE owner'[m.chat] = m.user
      BY <2>2 DEF MessagesBelongToOwner
    <3>1. m.chat \in Chats /\ m.user \in Users /\ owner[m.chat] = m.user
      BY DEF Shape, Message, MessagesBelongToOwner
    <3>2. m.chat \in drawn
      BY <3>1, NoneAssumption DEF Drawn
    <3>3. QED BY <3>1, <3>2, <2>1 DEF Shape
  <2>6. QED BY <2>3, <2>4, <2>5
<1>3. ASSUME NEW u \in Users, NEW c \in Chats, DeleteConversation(u, c) PROVE Inv'
  <2>1. owner' = [owner EXCEPT ![c] = None] /\ UNCHANGED <<clock, drawn, turn>>
    BY <1>3 DEF DeleteConversation
  <2>2. messages' = {m \in messages : m.chat # c}
    BY <1>3 DEF DeleteConversation, Cascaded, Rows
  <2>3. Shape' /\ Drawn'
    BY <2>1, <2>2 DEF Shape, Drawn
  <2>4. TurnOwned'
    BY <2>1 DEF Shape, TurnOwned
  <2>5. MessagesBelongToOwner'
    BY <2>1, <2>2 DEF Shape, Message, MessagesBelongToOwner
  <2>6. QED BY <2>3, <2>4, <2>5
<1>4. ASSUME NEW t \in Turns, TurnStep(t) PROVE Inv'
  <2>1. ASSUME NEW u \in Users, NEW c \in Chats, CheckOwner(t, u, c) PROVE Inv'
    <3>1. /\ turn' = [turn EXCEPT ![t] = [step |-> "owned", user |-> u, chat |-> c,
                                          context |-> <<>>, seen |-> title[c]]]
          /\ owner[c] = u /\ UNCHANGED <<owner, messages, clock, drawn>>
      BY <2>1 DEF CheckOwner, Owned
    <3>2. Shape' /\ Drawn' /\ MessagesBelongToOwner'
      BY <3>1 DEF Shape, Drawn, MessagesBelongToOwner
    <3>3. c \in drawn
      BY <3>1, NoneAssumption DEF Drawn
    <3>4. TurnOwned'
      BY <3>1, <3>3 DEF Shape, TurnOwned
    <3>5. QED BY <3>2, <3>4
  <2>2. CASE ReadContext(t)
    <3>1. /\ turn[t].step = "owned" /\ UNCHANGED <<owner, messages, clock, drawn>>
          /\ turn' = [turn EXCEPT ![t].step = "asking",
                                  ![t].context = RecentContext(turn[t].chat)]
      BY <2>2 DEF ReadContext, At
    <3>2. QED BY <3>1, TurnMoves DEF Shape, Drawn, MessagesBelongToOwner
  <2>3. CASE ModelReplies(t) \/ ReadTitle(t) \/ UpdateConversation(t)
    <3>1. turn[t].step # "new" /\ UNCHANGED <<owner, messages, clock, drawn>>
      BY <2>3 DEF ModelReplies, ReadTitle, UpdateConversation, At
    <3>2. PICK s : turn' = [turn EXCEPT ![t].step = s]
      <4>1. CASE ModelReplies(t)
        BY <4>1 DEF ModelReplies, Goto
      <4>2. CASE ReadTitle(t)
        BY <4>2 DEF ReadTitle, Goto
      <4>3. CASE UpdateConversation(t)
        BY <4>3 DEF UpdateConversation, Goto
      <4>4. QED BY <2>3, <4>1, <4>2, <4>3
    <3>3. QED BY <3>1, <3>2, TurnMoves DEF Shape, Drawn, MessagesBelongToOwner
  <2>4. ASSUME NEW outcome \in {"stored", "rejected", "unacked"}, InsertTurn(t, outcome)
        PROVE Inv'
    <3>1. /\ turn[t].step = "recording" /\ clock' = clock + 1
          /\ outcome # "rejected" => owner[turn[t].chat] # None
          /\ turn' = [turn EXCEPT ![t].step = AfterInsert(outcome)]
          /\ UNCHANGED <<owner, drawn>>
      BY <2>4 DEF InsertTurn, At, Goto
    <3>2. turn[t].user \in Users /\ turn[t].chat \in Chats
      BY <3>1 DEF Shape, TurnOwned
    <3>3. outcome # "rejected" => owner[turn[t].chat] = turn[t].user
      BY <3>1 DEF TurnOwned
    <3>4. \A m \in messages' : m \in messages \/ (outcome # "rejected" /\ m \in TurnRows(t))
      BY <2>4 DEF InsertTurn
    <3>5. \A m \in TurnRows(t) : /\ m \in Message
                                 /\ m.chat = turn[t].chat /\ m.user = turn[t].user
      BY <3>2 DEF TurnRows, Message, Shape
    <3>6. Shape' /\ TurnOwned'
      <4>1. messages' \subseteq Message
        BY <3>4, <3>5 DEF Shape
      <4>2. /\ DOMAIN turn' = Turns
            /\ \A s \in Turns : DOMAIN turn'[s] = {"step", "user", "chat", "context", "seen"}
            /\ TurnOwned'
        BY <3>1, TurnMoves
      <4>3. QED BY <3>1, <4>1, <4>2 DEF Shape
    <3>7. Drawn' /\ MessagesBelongToOwner'
      BY <3>1, <3>3, <3>4, <3>5 DEF Drawn, MessagesBelongToOwner
    <3>8. QED BY <3>6, <3>7
  <2>5. QED BY <1>4, <2>1, <2>2, <2>3, <2>4 DEF TurnStep
<1>5. QED BY <1>1, <1>2, <1>3, <1>4 DEF Next

(* A stored message belongs to the account that owns its conversation, and *)
(* none outlives it (chat, _record_conversation_turn, delete_conversation), *)
(* for any number of accounts, conversations and overlapping turns.        *)
THEOREM MessagesStayWithOwner == Spec => []MessagesBelongToOwner
<1>1. Inv => MessagesBelongToOwner
  BY DEF Inv
<1>2. QED BY InvInit, InvNext, <1>1, PTL DEF Spec

----------------------------------------------------------------------------
(* Titles. *)

Stored(t, c) == \E m \in messages : m.chat = c /\ m.turn = t /\ m.role = "user"

\* A turn that got past its insert is stored as long as its conversation is
\* there, and only such a turn can give the conversation its title.  A turn
\* that began with a title finds it again, or no conversation at all.
TitleInv ==
  /\ title \in [Chats -> Turns \cup {None}]
  /\ \A c \in Chats : title[c] # None =>
       turn[title[c]].step = "done" /\ Stored(title[c], c)
  /\ \A t \in Turns :
       turn[t].step \in {"inserted", "untitled", "titled"} /\ owner[turn[t].chat] # None =>
         Stored(t, turn[t].chat)
  /\ \A t \in Turns : turn[t].seen # None =>
       /\ turn[t].step \notin {"new", "untitled"}
       /\ title[turn[t].chat] # t
       /\ owner[turn[t].chat] # None => title[turn[t].chat] # None

LEMMA InitTitle == Init => TitleInv
BY DEF Init, TitleInv

\* A turn's record when only its step, and what it has read, change.
LEMMA StepFields ==
  ASSUME Shape, NEW t \in Turns, NEW step, Goto(t, step)
  PROVE  /\ turn'[t].step = step
         /\ \A s \in Turns : /\ turn'[s].user = turn[s].user
                             /\ turn'[s].chat = turn[s].chat
                             /\ turn'[s].seen = turn[s].seen
                             /\ s # t => turn'[s] = turn[s]
BY DEF Goto, Shape

LEMMA NextTitle == Inv /\ TitleInv /\ [Next]_vars => TitleInv'
<1>. SUFFICES ASSUME Inv, TitleInv, [Next]_vars PROVE TitleInv'
  OBVIOUS
<1>1. /\ Shape /\ TurnOwned /\ None \notin Users /\ None \notin Turns /\ None \notin Chats
      /\ \A t \in Turns : turn[t].step # "new" => turn[t].chat \in Chats
      /\ title \in [Chats -> Turns \cup {None}] /\ owner \in [Chats -> Users \cup {None}]
  BY NoneAssumption DEF Inv, Shape, TurnOwned, TitleInv
<1>2. ASSUME NEW u \in Users, NEW c \in Chats, CreateConversation(u, c)
      PROVE  TitleInv'
  <2>1. /\ UNCHANGED <<title, messages, turn>>
        /\ \A d \in drawn : owner'[d] = owner[d]
    BY <1>1, <1>2 DEF CreateConversation, Shape
  <2>2. \A t \in Turns : turn[t].step # "new" => owner'[turn[t].chat] = owner[turn[t].chat]
    BY <1>1, <2>1 DEF TurnOwned
  <2>. QED
    BY <2>1, <2>2 DEF TitleInv, Stored
<1>3. ASSUME NEW u \in Users, NEW c \in Chats, DeleteConversation(u, c)
      PROVE  TitleInv'
  <2>1. /\ owner' = [owner EXCEPT ![c] = None] /\ title' = [title EXCEPT ![c] = None]
        /\ turn' = turn /\ messages' = {m \in messages : m.chat # c}
    BY <1>3 DEF DeleteConversation, Cascaded, Rows
  <2>2. /\ owner'[c] = None /\ title'[c] = None
        /\ \A d \in Chats : d # c => owner'[d] = owner[d] /\ title'[d] = title[d]
    BY <1>1, <2>1
  <2>3. \A t \in Turns : \A d \in Chats : d # c /\ Stored(t, d) =>
          \E m \in messages' : m.chat = d /\ m.turn = t /\ m.role = "user"
    BY <2>1 DEF Stored
  <2>4. \A d \in Chats : title'[d] # None =>
          /\ turn'[title'[d]].step = "done"
          /\ \E m \in messages' : m.chat = d /\ m.turn = title'[d] /\ m.role = "user"
    BY <1>1, <2>1, <2>2, <2>3 DEF TitleInv
  <2>5. ASSUME NEW t \in Turns, turn[t].step \in {"inserted", "untitled", "titled"},
               owner'[turn[t].chat] # None
        PROVE  \E m \in messages' : m.chat = turn[t].chat /\ m.turn = t /\ m.role = "user"
    BY <1>1, <2>1, <2>2, <2>3, <2>5 DEF TitleInv
  <2>6. ASSUME NEW t \in Turns, turn[t].seen # None
        PROVE  /\ turn[t].step \notin {"new", "untitled"}
               /\ title'[turn[t].chat] # t
               /\ owner'[turn[t].chat] # None => title'[turn[t].chat] # None
    BY <1>1, <2>2, <2>6 DEF TitleInv
  <2>7. title' \in [Chats -> Turns \cup {None}]
    BY <1>1, <2>1
  <2>. QED
    BY <2>1, <2>4, <2>5, <2>6, <2>7 DEF TitleInv, Stored
\* A turn that moves on without writing a title.
<1>4. ASSUME NEW t \in Turns, NEW step, turn[t].step \notin {"new", "done"}, step # "untitled",
             turn'[t].step = step,
             \A s \in Turns : /\ turn'[s].user = turn[s].user
                              /\ turn'[s].chat = turn[s].chat
                              /\ turn'[s].seen = turn[s].seen
                              /\ s # t => turn'[s] = turn[s],
             owner' = owner, title' = title, messages \subseteq messages',
             step \in {"inserted", "titled"} /\ owner[turn[t].chat] # None =>
               Stored(t, turn[t].chat)',
             step # "new"
      PROVE  TitleInv'
  <2>1. \A c \in Chats : title[c] # None =>
          /\ turn'[title[c]].step = "done"
          /\ \E m \in messages' : m.chat = c /\ m.turn = title[c] /\ m.role = "user"
    BY <1>1, <1>4 DEF TitleInv, Stored
  <2>2. ASSUME NEW s \in Turns, turn'[s].step \in {"inserted", "untitled", "titled"},
               owner[turn[s].chat] # None
        PROVE  \E m \in messages' : m.chat = turn[s].chat /\ m.turn = s /\ m.role = "user"
    <3>1. CASE s = t
      BY <1>4, <2>2, <3>1 DEF Stored
    <3>2. CASE s # t
      BY <1>1, <1>4, <2>2, <3>2 DEF TitleInv, Stored
    <3>. QED
      BY <3>1, <3>2
  <2>3. \A s \in Turns : turn'[s].seen # None =>
          /\ turn'[s].step \notin {"new", "untitled"}
          /\ title[turn[s].chat] # s
          /\ owner[turn[s].chat] # None => title[turn[s].chat] # None
    BY <1>4 DEF TitleInv
  <2>. QED
    BY <1>1, <1>4, <2>1, <2>2, <2>3 DEF TitleInv, Stored
<1>5. ASSUME NEW t \in Turns, NEW u \in Users, NEW c \in Chats, CheckOwner(t, u, c)
      PROVE  TitleInv'
  <2>1. /\ turn[t].step = "new" /\ owner[c] = u /\ UNCHANGED <<owner, title, messages>>
        /\ turn' = [turn EXCEPT ![t] = [step |-> "owned", user |-> u, chat |-> c,
                                        context |-> <<>>, seen |-> title[c]]]
    BY <1>5 DEF CheckOwner, At, Owned
  <2>2. /\ turn'[t].step = "owned" /\ turn'[t].chat = c /\ turn'[t].seen = title[c]
        /\ \A s \in Turns : s # t => turn'[s] = turn[s]
    BY <1>1, <2>1 DEF Shape
  <2>3. \A d \in Chats : title[d] # t
    BY <1>1, <2>1 DEF TitleInv
  <2>. QED
    BY <1>1, <2>1, <2>2, <2>3 DEF TitleInv, Stored
<1>6. ASSUME NEW t \in Turns, ReadContext(t)
      PROVE  TitleInv'
  <2>1. /\ turn[t].step = "owned" /\ UNCHANGED <<owner, title, messages>>
        /\ turn'[t].step = "asking"
        /\ \A s \in Turns : /\ turn'[s].user = turn[s].user
                            /\ turn'[s].chat = turn[s].chat
                            /\ turn'[s].seen = turn[s].seen
                            /\ s # t => turn'[s] = turn[s]
    BY <1>1, <1>6 DEF ReadContext, At, Shape
  <2>. QED
    BY <1>4, <2>1
<1>7. ASSUME NEW t \in Turns, ModelReplies(t)
      PROVE  TitleInv'
  BY <1>1, <1>4, <1>7, StepFields DEF ModelReplies, At
<1>8. ASSUME NEW t \in Turns, NEW outcome \in {"stored", "rejected", "unacked"},
             InsertTurn(t, outcome)
      PROVE  TitleInv'
  <2>1. /\ turn[t].step = "recording" /\ UNCHANGED <<owner, title>>
        /\ Goto(t, AfterInsert(outcome)) /\ messages \subseteq messages'
        /\ outcome = "stored" => TurnRows(t) \subseteq messages'
    BY <1>8 DEF InsertTurn, At
  <2>2. outcome = "stored" => Stored(t, turn[t].chat)'
    <3>. DEFINE m == [chat |-> turn[t].chat, user |-> turn[t].user, turn |-> t,
                      role |-> "user", at |-> clock]
    <3>1. m \in TurnRows(t) /\ m.chat = turn[t].chat /\ m.turn = t /\ m.role = "user"
      BY DEF TurnRows, Roles
    <3>2. turn'[t].chat = turn[t].chat
      BY <1>1, <2>1, StepFields
    <3>. HIDE DEF m
    <3>. QED
      BY <2>1, <3>1, <3>2 DEF Stored
  <2>3. /\ AfterInsert(outcome) \in {"inserted", "done"}
        /\ AfterInsert(outcome) = "inserted" => outcome = "stored"
    BY DEF AfterInsert
  <2>. QED
    BY <1>1, <1>4, <2>1, <2>2, <2>3, StepFields
<1>9. ASSUME NEW t \in Turns, ReadTitle(t)
      PROVE  TitleInv'
  <2>1. /\ turn[t].step = "inserted" /\ UNCHANGED <<owner, title, messages>>
        /\ Goto(t, IF Untitled(turn[t].user, turn[t].chat) THEN "untitled" ELSE "titled")
    BY <1>9 DEF ReadTitle, At
  <2>2. owner[turn[t].chat] # None => Stored(t, turn[t].chat) /\ Stored(t, turn[t].chat)'
    <3>1. turn'[t].chat = turn[t].chat
      BY <1>1, <2>1, StepFields
    <3>. QED
      BY <2>1, <3>1 DEF TitleInv, Stored
  <2>3. CASE ~Untitled(turn[t].user, turn[t].chat)
    BY <1>1, <1>4, <2>1, <2>2, <2>3, StepFields
  <2>4. CASE Untitled(turn[t].user, turn[t].chat)
    <3>1. title[turn[t].chat] = None /\ owner[turn[t].chat] # None
      BY <1>1, <2>1, <2>4 DEF Untitled, Owned, TurnOwned
    <3>2. turn[t].seen = None
      BY <3>1 DEF TitleInv
    <3>3. /\ turn'[t].step = "untitled" /\ turn'[t].seen = None
          /\ turn'[t].chat = turn[t].chat
          /\ \A s \in Turns : s # t => turn'[s] = turn[s]
      BY <1>1, <2>1, <2>4, <3>2, StepFields
    <3>4. \A c \in Chats : title[c] # t
      BY <1>1, <2>1 DEF TitleInv
    <3>. QED
      BY <1>1, <2>1, <2>2, <3>3, <3>4 DEF TitleInv, Stored
  <2>. QED
    BY <2>3, <2>4
<1>10. ASSUME NEW t \in Turns, UpdateConversation(t)
       PROVE  TitleInv'
  <2>. DEFINE c == turn[t].chat
  <2>1. /\ turn[t].step \in {"untitled", "titled"} /\ UNCHANGED <<owner, messages>>
        /\ Goto(t, "done")
        /\ title' = IF turn[t].step = "untitled" /\ owner[c] = turn[t].user
                    THEN [title EXCEPT ![c] = t] ELSE title
    BY <1>10 DEF UpdateConversation, At, Owned
  <2>2. /\ turn'[t].step = "done"
        /\ \A s \in Turns : /\ turn'[s].chat = turn[s].chat
                            /\ turn'[s].seen = turn[s].seen
                            /\ s # t => turn'[s] = turn[s]
    BY <1>1, <2>1, StepFields
  <2>3. CASE title' = title
    BY <1>1, <1>4, <2>1, <2>3, StepFields
  <2>4. CASE /\ turn[t].step = "untitled" /\ owner[c] = turn[t].user
             /\ title' = [title EXCEPT ![c] = t]
    <3>1. /\ c \in Chats /\ owner[c] # None /\ turn[t].seen = None
          /\ Stored(t, c)
      BY <1>1, <2>4 DEF TurnOwned, TitleInv
    <3>2. title'[c] = t /\ \A d \in Chats : d # c => title'[d] = title[d]
      BY <1>1, <2>4, <3>1
    <3>. HIDE DEF c
    <3>3. \A s \in Turns : \A d \in Chats : Stored(s, d) => \E m \in messages' :
            m.chat = d /\ m.turn = s /\ m.role = "user"
      BY <2>1 DEF Stored
    <3>4. \A d \in Chats : title'[d] # None =>
            /\ turn'[title'[d]].step = "done"
            /\ \E m \in messages' : m.chat = d /\ m.turn = title'[d] /\ m.role = "user"
      BY <1>1, <2>2, <3>1, <3>2, <3>3 DEF TitleInv
    <3>5. ASSUME NEW s \in Turns, turn'[s].step \in {"inserted", "untitled", "titled"},
                 owner[turn[s].chat] # None
          PROVE  \E m \in messages' : m.chat = turn[s].chat /\ m.turn = s /\ m.role = "user"
      BY <1>1, <2>2, <3>3, <3>5 DEF TitleInv
    <3>6. ASSUME NEW s \in Turns, turn[s].seen # None
          PROVE  /\ turn'[s].step \notin {"new", "untitled"}
                 /\ title'[turn[s].chat] # s
                 /\ owner[turn[s].chat] # None => title'[turn[s].chat] # None
      <4>1. s # t /\ turn[s].chat \in Chats
        BY <1>1, <3>1, <3>6 DEF TitleInv
      <4>. QED
        BY <1>1, <2>2, <3>2, <3>6, <4>1 DEF TitleInv
    <3>7. title' \in [Chats -> Turns \cup {None}]
      BY <1>1, <2>4
    <3>. QED
      BY <2>1, <2>2, <3>4, <3>5, <3>6, <3>7 DEF TitleInv, Stored
  <2>. QED
    BY <2>1, <2>3, <2>4
<1>11. CASE UNCHANGED vars
  BY <1>11 DEF vars, TitleInv, Stored
<1>. QED
  BY <1>2, <1>3, <1>5, <1>6, <1>7, <1>8, <1>9, <1>10, <1>11 DEF Next, TurnStep

LEMMA TitleAlways == Spec => []TitleInv
BY InvInit, InvNext, InitTitle, NextTitle, PTL DEF Spec

\* A conversation is titled after a turn it still holds.
THEOREM TitlesAreOfStoredTurns == Spec => []TitleFromStoredTurn
<1>1. TitleInv => TitleFromStoredTurn
  BY DEF TitleInv, TitleFromStoredTurn, Stored
<1>. QED
  BY <1>1, TitleAlways, PTL

\* A turn that began in a titled conversation does not rename it.
THEOREM TitlesAreFixed == Spec => []TitleFixedForLaterTurns
<1>1. TitleInv => TitleFixedForLaterTurns
  BY DEF TitleInv, TitleFixedForLaterTurns
<1>. QED
  BY <1>1, TitleAlways, PTL

=============================================================================
