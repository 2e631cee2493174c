---------------------------- MODULE Conversations ----------------------------
(***************************************************************************)
(* Saved conversations (src/app.py over the tables of the conversation     *)
(* migration).  Every access is one request to the table service; a chat   *)
(* turn makes five of them with a model call of up to three minutes in     *)
(* between, and nothing locks the conversation meanwhile.                  *)
(*                                                                         *)
(* A write is "stored", "rejected", or "unacked": performed although the   *)
(* caller got an error.  Ids are fresh UUIDs.  A turn that stops for good  *)
(* (crash, failed read, model error) is one that takes no further step,    *)
(* and a write performed after its caller gave up is one of a slower turn. *)
(* Two inserts never share a timestamp, so the clock counts the inserts.   *)
(***************************************************************************)
EXTENDS Naturals, Sequences, FiniteSets

CONSTANTS
  Users,   \* accounts
  Chats,   \* conversation ids
  Turns,   \* authenticated chat requests that select a conversation
  Limit,   \* messages read back at once (40)
  None     \* "no account", "no conversation", the title "New conversation"

ASSUME LimitAssumption == Limit \in Nat \ {0}
ASSUME NoneAssumption == None \notin Users \cup Chats \cup Turns

VARIABLES
  owner,     \* user_id of each conversation; None: no such row
  title,     \* the turn a conversation is titled after
  messages,  \* the rows of chat_messages
  clock,     \* created_at of the next insert
  drawn,     \* history: the conversation ids drawn so far
  turn       \* each turn's progress (and, as a history, the title it began with)

vars == <<owner, title, messages, clock, drawn, turn>>

Roles == {"user", "assistant"}

Message == [chat : Chats, user : Users, turn : Turns, role : Roles, at : Nat]

Turn == [step : {"new", "owned", "asking", "recording", "inserted", "untitled",
                 "titled", "done"},
         user : Users \cup {None}, chat : Chats \cup {None},
         context : Seq(Turns \X Roles), seen : Turns \cup {None}]

Init ==
  /\ owner = [c \in Chats |-> None]
  /\ title = [c \in Chats |-> None]
  /\ messages = {}
  /\ clock = 0
  /\ drawn = {}
  /\ turn = [t \in Turns |-> [step |-> "new", user |-> None, chat |-> None,
                              context |-> <<>>, seen |-> None]]

----------------------------------------------------------------------------
(* Reading messages back. *)

\* Wrong variant: the tie between a turn's two rows is broken as if the list
\* were not reversed afterwards.
NewerUserFirst(m, n) ==
  m.at > n.at \/ (m.at = n.at /\ m.role = "user" /\ n.role = "assistant")

\* order=created_at.desc,role.asc
Newer(m, n) ==
  m.at > n.at \/ (m.at = n.at /\ m.role = "assistant" /\ n.role = "user")

\* The rows of S in that order.
NewestFirst(S) ==
  [i \in 1..Cardinality(S) |->
     CHOOSE m \in S : Cardinality({n \in S : Newer(n, m)}) = i - 1]

Rows(c) == {m \in messages : m.chat = c}

\* _get_recent_conversation_context: the newest rows first, cut at the limit,
\* then reversed.
RecentContext(c) ==
  LET rows == NewestFirst(Rows(c))
      n == IF Len(rows) < Limit THEN Len(rows) ELSE Limit
  IN  [i \in 1..n |-> <<rows[n + 1 - i].turn, rows[n + 1 - i].role>>]

\* Wrong variant: the roles are ordered as in the other query.
OlderRoleAsc(m, n) ==
  m.at < n.at \/ (m.at = n.at /\ m.role = "assistant" /\ n.role = "user")

\* order=created_at.asc,role.desc
Older(m, n) ==
  m.at < n.at \/ (m.at = n.at /\ m.role = "user" /\ n.role = "assistant")

OldestFirst(S) ==
  [i \in 1..Cardinality(S) |->
     CHOOSE m \in S : Cardinality({n \in S : Older(n, m)}) = i - 1]

\* _get_conversation_messages: what the page restores.
RestoredMessages(c) ==
  LET rows == OldestFirst(Rows(c))
  IN  [i \in 1..(IF Len(rows) < Limit THEN Len(rows) ELSE Limit) |->
         <<rows[i].turn, rows[i].role>>]

----------------------------------------------------------------------------
(* The conversation routes. *)

CreateConversation(u, c) ==
  /\ c \notin drawn
  /\ owner' = [owner EXCEPT ![c] = u]
  /\ drawn' = drawn \cup {c}
  /\ UNCHANGED <<title, messages, clock, turn>>

\* Wrong variant: the filter on the owner is missing.
OwnedByAnyone(u, c) == owner[c] # None

\* _get_owned_conversation finds a row.
Owned(u, c) == owner[c] = u

\* The foreign key of chat_messages deletes the messages too.
Cascaded(c) == messages \ Rows(c)

\* The ownership check and the DELETE, which repeats the owner in its filter.
\* (A conversation found by the check can only disappear before the DELETE.)
DeleteConversation(u, c) ==
  /\ Owned(u, c)
  /\ owner' = [owner EXCEPT ![c] = None]
  /\ title' = [title EXCEPT ![c] = None]
  /\ messages' = Cascaded(c)
  /\ UNCHANGED <<clock, drawn, turn>>

----------------------------------------------------------------------------
(* POST /chat with a conversation. *)

At(t, step) == turn[t].step = step
Goto(t, step) == turn' = [turn EXCEPT ![t].step = step]

CheckOwner(t, u, c) ==
  /\ At(t, "new")
  /\ Owned(u, c)
  /\ turn' = [turn EXCEPT ![t] = [step |-> "owned", user |-> u, chat |-> c,
                                  context |-> <<>>, seen |-> title[c]]]
  /\ UNCHANGED <<owner, title, messages, clock, drawn>>

ReadContext(t) ==
  /\ At(t, "owned")
  /\ turn' = [turn EXCEPT ![t].step = "asking",
                          ![t].context = RecentContext(turn[t].chat)]
  /\ UNCHANGED <<owner, title, messages, clock, drawn>>

ModelReplies(t) ==
  /\ At(t, "asking")
  /\ Goto(t, "recording")
  /\ UNCHANGED <<owner, title, messages, clock, drawn>>

\* Wrong variant: the reply is stored under a role the schema does not know.
TurnRowsAsBot(t) ==
  {[chat |-> turn[t].chat, user |-> turn[t].user, turn |-> t, role |-> r,
    at |-> clock] : r \in {"user", "bot"}}

\* The two rows of a turn, inserted by one statement.
TurnRows(t) ==
  {[chat |-> turn[t].chat, user |-> turn[t].user, turn |-> t, role |-> r,
    at |-> clock] : r \in Roles}

\* Wrong variant: the answer of the insert is not looked at.
AfterInsertUnchecked(outcome) == "inserted"

AfterInsert(outcome) == IF outcome = "stored" THEN "inserted" ELSE "done"

\* _record_conversation_turn, the insert.  The foreign key rejects it when the
\* conversation is gone; chat() swallows every error and answers the reply.
InsertTurn(t, outcome) ==
  /\ At(t, "recording")
  /\ outcome # "rejected" => owner[turn[t].chat] # None
  /\ messages' = IF outcome = "rejected" THEN messages ELSE messages \cup TurnRows(t)
  /\ clock' = clock + 1
  /\ Goto(t, AfterInsert(outcome))
  /\ UNCHANGED <<owner, title, drawn>>

\* Wrong variant: the title found is not compared with "New conversation".
UntitledAlways(u, c) == Owned(u, c)

Untitled(u, c) == Owned(u, c) /\ title[c] = None

\* The title is read; a conversation deleted meanwhile is not found.
ReadTitle(t) ==
  /\ At(t, "inserted")
  /\ Goto(t, IF Untitled(turn[t].user, turn[t].chat) THEN "untitled" ELSE "titled")
  /\ UNCHANGED <<owner, title, messages, clock, drawn>>

\* The PATCH writes updated_at (abstracted) and the title the turn decided on.
UpdateConversation(t) ==
  /\ turn[t].step \in {"untitled", "titled"}
  /\ LET c == turn[t].chat IN
       title' = IF At(t, "untitled") /\ Owned(turn[t].user, c)
                THEN [title EXCEPT ![c] = t] ELSE title
  /\ Goto(t, "done")
  /\ UNCHANGED <<owner, messages, clock, drawn>>

----------------------------------------------------------------------------
TurnStep(t) ==
  \/ \E u \in Users, c \in Chats : CheckOwner(t, u, c)
  \/ ReadContext(t)
  \/ ModelReplies(t)
  \/ \E outcome \in {"stored", "rejected", "unacked"} : InsertTurn(t, outcome)
  \/ ReadTitle(t)
  \/ UpdateConversation(t)

Next ==
  \/ \E u \in Users, c \in Chats : CreateConversation(u, c) \/ DeleteConversation(u, c)
  \/ \E t \in Turns : TurnStep(t)

Spec == Init /\ [][Next]_vars

----------------------------------------------------------------------------
(* Every variable stays in its range. *)
TypeOK ==
  /\ owner \in [Chats -> Users \cup {None}]
  /\ title \in [Chats -> Turns \cup {None}]
  /\ messages \subseteq Message
  /\ clock \in Nat
  /\ drawn \subseteq Chats
  /\ turn \in [Turns -> Turn]

(* A stored message belongs to the account that owns its conversation, and  *)
(* none outlives its conversation: ownership is checked minutes before the  *)
(* insert, which itself does not check it, and the conversation may be      *)
(* deleted at any moment in between.                                        *)
MessagesBelongToOwner == \A m \in messages : owner[m.chat] = m.user

(* What the model is given is "the most recent persisted turns in           *)
(* chronological model order" (_get_recent_conversation_context): whole     *)
(* turns, each request before its reply, and only turns of the same account.*)
ContextIsWholeTurns ==
  \A t \in Turns : LET ctx == turn[t].context IN
    /\ Len(ctx) % 2 = 0
    /\ \A i \in 1..(Len(ctx) \div 2) :
         LET told == ctx[2 * i - 1][1] IN
           /\ ctx[2 * i - 1] = <<told, "user">> /\ ctx[2 * i] = <<told, "assistant">>
           /\ turn[told].user = turn[t].user /\ turn[told].chat = turn[t].chat
    /\ \A i, j \in 1..Len(ctx) : i # j => ctx[i] # ctx[j]

(* The user and the model see one conversation: up to the limit, what the   *)
(* page restores is what the model is given, although the two queries sort  *)
(* in opposite directions.  (Beyond it the page has the oldest rows and the *)
(* model the newest.)                                                       *)
RestoredMatchesContext ==
  \A c \in Chats : Cardinality(Rows(c)) <= Limit => RestoredMessages(c) = RecentContext(c)

(* A conversation is titled after a turn it still holds, although title and *)
(* messages are written by separate requests that fail separately.          *)
TitleFromStoredTurn ==
  \A c \in Chats : title[c] # None =>
    \E m \in messages : m.chat = c /\ m.turn = title[c] /\ m.role = "user"

(* A conversation that had a title when a turn began is not titled after    *)
(* that turn: "New conversation" is replaced once, and only turns that      *)
(* overlap the first one can compete for it.                                *)
TitleFixedForLaterTurns ==
  \A t \in Turns : turn[t].seen # None => title[turn[t].chat] # t

=============================================================================
