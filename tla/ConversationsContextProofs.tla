--------------------- MODULE ConversationsContextProofs ---------------------
(***************************************************************************)
(* Theorems about what is read back of a conversation, for any accounts,   *)
(* conversations, turns and limit: what the model is given consists of     *)
(* whole turns, and up to the limit the page restores the same list.       *)
(*                                                                         *)
(* Both queries sort rows.  A row's place is the number of rows before it, *)
(* so the lemmas count: no two rows share a place, hence every place is    *)
(* taken; and the rows before a turn's reply are whole turns, hence even   *)
(* in number.                                                              *)
(***************************************************************************)
EXTENDS ConversationsProofs, FiniteSetTheorems, FunctionTheorems

----------------------------------------------------------------------------
(* Lists of rows. *)

\* Rows that the order of the queries can tell apart.
Sortable(S) ==
  /\ IsFiniteSet(S)
  /\ \A m \in S : m.at \in Nat /\ m.role \in Roles
  /\ \A m, n \in S : m.at = n.at /\ m.role = n.role => m = n

Before(S, m) == {n \in S : Newer(n, m)}
Place(S, m) == Cardinality(Before(S, m))

LEMMA NewerOrder ==
  ASSUME NEW S, Sortable(S)
  PROVE  /\ \A m \in S : ~Newer(m, m)
         /\ \A m, n \in S : m # n => Newer(m, n) \/ Newer(n, m)
         /\ \A m, n \in S : Newer(m, n) => ~Newer(n, m)
         /\ \A l, m, n \in S : Newer(l, m) /\ Newer(m, n) => Newer(l, n)
BY DEF Sortable, Newer, Roles

LEMMA PlaceType ==
  ASSUME NEW S, Sortable(S), NEW m \in S
  PROVE  /\ Cardinality(S) \in Nat /\ Cardinality(S) >= 1
         /\ Place(S, m) \in 0..(Cardinality(S) - 1)
         /\ IsFiniteSet(Before(S, m))
<1>1. IsFiniteSet(S) /\ Cardinality(S) \in Nat
  BY FS_CardinalityType DEF Sortable
<1>2. IsFiniteSet(S \ {m}) /\ Cardinality(S \ {m}) = Cardinality(S) - 1
  BY <1>1, FS_RemoveElement
<1>3. Before(S, m) \subseteq S \ {m}
  BY NewerOrder DEF Before
<1>4. /\ IsFiniteSet(Before(S, m)) /\ Cardinality(Before(S, m)) <= Cardinality(S \ {m})
      /\ Cardinality(Before(S, m)) \in Nat /\ Cardinality(S \ {m}) \in Nat
  BY <1>2, <1>3, FS_Subset, FS_CardinalityType
<1>. QED
  BY <1>1, <1>2, <1>4 DEF Place

\* A newer row has an earlier place ...
LEMMA PlaceOrder ==
  ASSUME NEW S, Sortable(S), NEW m \in S, NEW n \in S, Newer(m, n)
  PROVE  Place(S, m) < Place(S, n)
<1>1. /\ Before(S, m) \subseteq Before(S, n)
      /\ m \in Before(S, n) /\ m \notin Before(S, m)
  BY NewerOrder DEF Before
<1>2. IsFiniteSet(Before(S, n)) /\ Place(S, m) \in Nat /\ Place(S, n) \in Nat
  BY PlaceType
<1>3. Place(S, m) <= Place(S, n) /\ Place(S, m) # Place(S, n)
  BY <1>1, <1>2, FS_Subset DEF Place
<1>. QED
  BY <1>2, <1>3

\* ... so no two rows share one ...
LEMMA PlaceUnique ==
  ASSUME NEW S, Sortable(S), NEW m \in S, NEW n \in S, Place(S, m) = Place(S, n)
  PROVE  m = n
<1>1. Place(S, m) \in Nat /\ Place(S, n) \in Nat
  BY PlaceType
<1>. QED
  BY <1>1, NewerOrder, PlaceOrder

\* ... and every place is taken.
LEMMA PlaceTaken ==
  ASSUME NEW S, Sortable(S), NEW k \in 0..(Cardinality(S) - 1)
  PROVE  \E m \in S : Place(S, m) = k
<1>. DEFINE T == 0..(Cardinality(S) - 1)
            f == [m \in S |-> Place(S, m)]
<1>1. IsFiniteSet(S) /\ Cardinality(S) \in Nat
  BY FS_CardinalityType DEF Sortable
<1>2. IsFiniteSet(T) /\ Cardinality(T) = Cardinality(S)
  BY <1>1, FS_Interval
<1>3. f \in [S -> T]
  BY PlaceType
<1>4. \A m, n \in S : f[m] = f[n] => m = n
  BY PlaceUnique
<1>. HIDE DEF T
<1>5. f \in Injection(S, T)
  BY <1>3, <1>4, Fun_IsInj
<1>6. f \in Surjection(S, T)
  BY <1>2, <1>5, FS_Injection
<1>7. \A t \in T : \E m \in S : f[m] = t
  BY <1>6, Fun_SurjectionProperties
<1>. QED
  BY <1>7 DEF T

\* The list of the query that sorts the newest row first.
LEMMA NewestFirstPlaces ==
  ASSUME NEW S, Sortable(S)
  PROVE  /\ NewestFirst(S) \in [1..Cardinality(S) -> S]
         /\ Len(NewestFirst(S)) = Cardinality(S)
         /\ \A i \in 1..Cardinality(S) : Place(S, NewestFirst(S)[i]) = i - 1
<1>1. Cardinality(S) \in Nat
  BY FS_CardinalityType DEF Sortable
<1>2. ASSUME NEW i \in 1..Cardinality(S)
      PROVE  /\ NewestFirst(S)[i] \in S
             /\ Place(S, NewestFirst(S)[i]) = i - 1
  <2>1. i - 1 \in 0..(Cardinality(S) - 1)
    BY <1>1
  <2>2. \E m \in S : Cardinality({n \in S : Newer(n, m)}) = i - 1
    BY <2>1, PlaceTaken DEF Place, Before
  <2>3. NewestFirst(S)[i] = CHOOSE m \in S : Cardinality({n \in S : Newer(n, m)}) = i - 1
    BY DEF NewestFirst
  <2>. QED
    BY <2>2, <2>3, Zenon DEF Place, Before
<1>3. NewestFirst(S) \in [1..Cardinality(S) -> S]
  BY <1>2 DEF NewestFirst
<1>4. NewestFirst(S) \in Seq(S) /\ Len(NewestFirst(S)) = Cardinality(S)
  BY <1>1, <1>3
<1>. QED
  BY <1>2, <1>3, <1>4

\* The other query gives the same rows the other way round.
LEMMA OldestFirstPlaces ==
  ASSUME NEW S, Sortable(S)
  PROVE  /\ OldestFirst(S) \in [1..Cardinality(S) -> S]
         /\ Len(OldestFirst(S)) = Cardinality(S)
         /\ \A i \in 1..Cardinality(S) :
              OldestFirst(S)[i] = NewestFirst(S)[Cardinality(S) + 1 - i]
<1>. DEFINE After(m) == {n \in S : Older(n, m)}
<1>1. IsFiniteSet(S) /\ Cardinality(S) \in Nat
  BY FS_CardinalityType DEF Sortable
<1>2. ASSUME NEW m \in S
      PROVE  Cardinality(After(m)) = Cardinality(S) - 1 - Place(S, m)
  <2>1. /\ Before(S, m) \cup After(m) = S \ {m}
        /\ Before(S, m) \cap After(m) = {}
        /\ After(m) \subseteq S
    BY NewerOrder DEF Before, Older, Newer
  <2>2. IsFiniteSet(After(m)) /\ IsFiniteSet(Before(S, m))
    BY <1>1, <2>1, PlaceType, FS_Subset
  <2>3. Cardinality(S \ {m}) = Cardinality(S) - 1
    BY <1>1, FS_RemoveElement
  <2>4. /\ Cardinality(Before(S, m) \cup After(m))
             = Cardinality(Before(S, m)) + Cardinality(After(m))
               - Cardinality(Before(S, m) \cap After(m))
        /\ Cardinality(Before(S, m) \cap After(m)) = 0
        /\ Cardinality(Before(S, m)) \in Nat /\ Cardinality(After(m)) \in Nat
    BY <2>1, <2>2, FS_Union, FS_EmptySet, FS_CardinalityType
  <2>5. Cardinality(Before(S, m) \cup After(m)) = Cardinality(S \ {m})
    BY <2>1
  <2>. HIDE DEF After
  <2>. QED
    BY <1>1, <2>3, <2>4, <2>5 DEF Place
<1>3. ASSUME NEW i \in 1..Cardinality(S)
      PROVE  /\ NewestFirst(S)[Cardinality(S) + 1 - i] \in S
             /\ OldestFirst(S)[i] = NewestFirst(S)[Cardinality(S) + 1 - i]
  <2>1. Cardinality(S) + 1 - i \in 1..Cardinality(S)
    BY <1>1
  <2>2. PICK r \in S : /\ r = NewestFirst(S)[Cardinality(S) + 1 - i]
                       /\ Place(S, r) = (Cardinality(S) + 1 - i) - 1
    BY <2>1, NewestFirstPlaces
  <2>3. Cardinality(After(r)) = i - 1
    BY <1>1, <1>2, <2>2
  <2>4. \A m \in S : Cardinality(After(m)) = i - 1 => m = r
    <3>. SUFFICES ASSUME NEW m \in S, Cardinality(After(m)) = i - 1 PROVE m = r
      OBVIOUS
    <3>1. Place(S, m) \in Nat /\ Cardinality(S) - 1 - Place(S, m) = i - 1
      BY <1>2, PlaceType
    <3>2. Place(S, m) = Place(S, r)
      BY <1>1, <2>2, <3>1
    <3>. QED
      BY <3>2, PlaceUnique
  <2>5. OldestFirst(S)[i] = CHOOSE m \in S : Cardinality(After(m)) = i - 1
    BY DEF OldestFirst
  <2>6. OldestFirst(S)[i] \in S /\ Cardinality(After(OldestFirst(S)[i])) = i - 1
    BY <2>3, <2>5, Zenon
  <2>. QED
    BY <2>2, <2>4, <2>6
<1>4. OldestFirst(S) \in [1..Cardinality(S) -> S]
  BY <1>3 DEF OldestFirst
<1>5. Len(OldestFirst(S)) = Cardinality(S)
  BY <1>1, <1>4
<1>. QED
  BY <1>3, <1>4, <1>5

----------------------------------------------------------------------------
(* Lists of whole turns. *)

\* Each row has a counterpart of each role, stored at the same time.
Paired(S) ==
  /\ Sortable(S)
  /\ \A m \in S : \A role \in Roles : \E n \in S : n.at = m.at /\ n.role = role

LEMMA PairedIsEven ==
  ASSUME NEW S, Paired(S)
  PROVE  \E k \in Nat : Cardinality(S) = 2 * k
<1>. DEFINE U == {m \in S : m.role = "user"}
            A == {m \in S : m.role = "assistant"}
            twin == [m \in A |-> CHOOSE n \in U : n.at = m.at]
<1>1. /\ U \cup A = S /\ U \cap A = {} /\ U \subseteq S /\ A \subseteq S
      /\ IsFiniteSet(S)
  BY DEF Paired, Sortable, Roles
<1>2. IsFiniteSet(U) /\ IsFiniteSet(A)
  BY <1>1, FS_Subset
<1>3. /\ \A m \in A : \E n \in U : n.at = m.at
      /\ \A n \in U : \E m \in A : m.at = n.at
      /\ \A m, n \in A : m.at = n.at => m = n
  <2>1. \A m \in A : \E n \in U : n.at = m.at
    BY DEF Paired, Roles
  <2>2. \A n \in U : \E m \in A : m.at = n.at
    BY DEF Paired, Roles
  <2>3. \A m, n \in A : m.at = n.at => m = n
    BY DEF Paired, Sortable
  <2>. QED
    BY <2>1, <2>2, <2>3
<1>4. \A m, n \in U : m.at = n.at => m = n
  BY DEF Paired, Sortable
<1>. HIDE DEF U, A
<1>5. \A m \in A : twin[m] \in U /\ twin[m].at = m.at
  <2>. SUFFICES ASSUME NEW m \in A PROVE twin[m] \in U /\ twin[m].at = m.at
    OBVIOUS
  <2>1. twin[m] = CHOOSE n \in U : n.at = m.at
    OBVIOUS
  <2>2. \E n \in U : n.at = m.at
    BY <1>3
  <2>. HIDE DEF twin
  <2>. QED
    BY <2>1, <2>2, Zenon
<1>6. twin \in [A -> U]
  BY <1>5
<1>. HIDE DEF twin
<1>7. /\ \A m, n \in A : twin[m] = twin[n] => m = n
      /\ \A n \in U : \E m \in A : twin[m] = n
  BY <1>3, <1>4, <1>5
<1>8. twin \in Bijection(A, U)
  BY <1>6, <1>7, Fun_IsBij
<1>9. Cardinality(U) = Cardinality(A)
  BY <1>2, <1>8, FS_Bijection DEF ExistsBijection
<1>10. /\ Cardinality(U \cup A) = Cardinality(U) + Cardinality(A) - Cardinality(U \cap A)
      /\ Cardinality(U \cap A) = 0
      /\ Cardinality(A) \in Nat
  BY <1>1, <1>2, FS_Union, FS_EmptySet, FS_CardinalityType
<1>11. Cardinality(S) = 2 * Cardinality(A)
  <2>1. Cardinality(U \cup A) = Cardinality(S)
    BY <1>1
  <2>. QED
    BY <1>9, <1>10, <2>1
<1>. QED
  BY <1>10, <1>11

\* Whole turns come before a reply ...
LEMMA ReplyPlace ==
  ASSUME NEW S, Paired(S), NEW m \in S, m.role = "assistant"
  PROVE  \E k \in Nat : Place(S, m) = 2 * k
<1>1. Sortable(S) /\ IsFiniteSet(Before(S, m))
  BY PlaceType DEF Paired
<1>2. Before(S, m) = {n \in S : n.at > m.at}
  BY DEF Before, Newer
<1>3. Paired(Before(S, m))
  BY <1>1, <1>2 DEF Paired, Sortable
<1>. QED
  BY <1>3, PairedIsEven DEF Place

\* ... and the reply itself comes right before its request.
LEMMA RequestPlace ==
  ASSUME NEW S, Paired(S), NEW m \in S, NEW u \in S,
         m.role = "assistant", u.role = "user", m.at = u.at
  PROVE  Place(S, u) = Place(S, m) + 1
<1>1. Sortable(S) /\ IsFiniteSet(Before(S, m))
  BY PlaceType DEF Paired
<1>2. Before(S, u) = Before(S, m) \cup {m}
  BY <1>1 DEF Before, Newer, Sortable, Roles
<1>3. m \notin Before(S, m)
  BY <1>1, NewerOrder DEF Before
<1>. QED
  BY <1>1, <1>2, <1>3, FS_AddElement DEF Place

\* Requests stand at the even positions, each after its reply.
LEMMA Alternation ==
  ASSUME NEW S, Paired(S), NEW k \in Nat, 2 * k + 2 \in 1..Cardinality(S)
  PROVE  /\ NewestFirst(S)[2 * k + 2].role = "user"
         /\ NewestFirst(S)[2 * k + 1].role = "assistant"
         /\ NewestFirst(S)[2 * k + 1].at = NewestFirst(S)[2 * k + 2].at
<1>1. Sortable(S) /\ Cardinality(S) \in Nat
  BY FS_CardinalityType DEF Paired, Sortable
<1>2. 2 * k + 1 \in 1..Cardinality(S)
  BY <1>1
<1>3. PICK u \in S : u = NewestFirst(S)[2 * k + 2] /\ Place(S, u) = (2 * k + 2) - 1
  BY <1>1, NewestFirstPlaces
<1>4. PICK r \in S : r = NewestFirst(S)[2 * k + 1] /\ Place(S, r) = (2 * k + 1) - 1
  BY <1>1, <1>2, NewestFirstPlaces
<1>5. u.role = "user"
  <2>1. u.role \in {"user", "assistant"}
    BY <1>1 DEF Sortable, Roles
  <2>2. ASSUME u.role = "assistant" PROVE FALSE
    <3>1. PICK j \in Nat : Place(S, u) = 2 * j
      BY <2>2, ReplyPlace
    <3>. QED
      BY <1>3, <3>1
  <2>. QED
    BY <2>1, <2>2
<1>6. PICK m \in S : m.at = u.at /\ m.role = "assistant"
  BY DEF Paired, Roles
<1>7. Place(S, u) = Place(S, m) + 1 /\ Place(S, m) \in Nat
  BY <1>1, <1>5, <1>6, RequestPlace, PlaceType
<1>8. Place(S, m) = Place(S, r)
  BY <1>3, <1>4, <1>7
<1>9. m = r
  BY <1>1, <1>8, PlaceUnique
<1>. QED
  BY <1>3, <1>4, <1>5, <1>6, <1>9

----------------------------------------------------------------------------
(* The rows of the table. *)

Recorded == {"inserted", "untitled", "titled", "done"}

\* A turn is inserted once, whole, and at a time of its own; its rows carry the
\* account and the conversation the turn was checked for.
RowsInv ==
  /\ IsFiniteSet(messages)
  /\ \A m \in messages :
       /\ m.at < clock
       /\ m.chat = turn[m.turn].chat /\ m.user = turn[m.turn].user
       /\ turn[m.turn].step \in Recorded
       /\ \A role \in Roles : \E n \in messages : n.turn = m.turn /\ n.role = role
  /\ \A m, n \in messages : m.at = n.at <=> m.turn = n.turn

LEMMA InitRows == Init => RowsInv
BY FS_EmptySet DEF Init, RowsInv

LEMMA NextRows == Inv /\ RowsInv /\ [Next]_vars => RowsInv'
<1>. SUFFICES ASSUME Inv, RowsInv, [Next]_vars PROVE RowsInv'
  OBVIOUS
<1>1. /\ Shape /\ clock \in Nat
      /\ \A m \in messages : m.at \in Nat /\ m.turn \in Turns /\ m.chat \in Chats
  BY DEF Inv, Shape, Message
<1>2. ASSUME messages' = messages, clock' = clock,
             \A t \in Turns : turn[t].step \in Recorded =>
               /\ turn'[t].step \in Recorded
               /\ turn'[t].chat = turn[t].chat /\ turn'[t].user = turn[t].user
      PROVE  RowsInv'
  BY <1>1, <1>2 DEF RowsInv
<1>3. ASSUME NEW u \in Users, NEW c \in Chats, CreateConversation(u, c)
      PROVE  RowsInv'
  BY <1>2, <1>3 DEF CreateConversation
<1>4. ASSUME NEW u \in Users, NEW c \in Chats, DeleteConversation(u, c)
      PROVE  RowsInv'
  <2>1. /\ messages' = {m \in messages : m.chat # c} /\ turn' = turn /\ clock' = clock
    BY <1>4 DEF DeleteConversation, Cascaded, Rows
  <2>2. IsFiniteSet(messages')
    BY <2>1, FS_Subset DEF RowsInv
  <2>3. ASSUME NEW m \in messages', NEW role \in Roles
        PROVE  \E n \in messages' : n.turn = m.turn /\ n.role = role
    <3>1. PICK n \in messages : n.turn = m.turn /\ n.role = role
      BY <2>1 DEF RowsInv
    <3>2. n.chat = m.chat
      BY <2>1, <3>1 DEF RowsInv
    <3>. QED
      BY <2>1, <3>1, <3>2
  <2>. QED
    BY <2>1, <2>2, <2>3 DEF RowsInv
<1>5. ASSUME NEW t \in Turns, NEW u \in Users, NEW c \in Chats, CheckOwner(t, u, c)
      PROVE  RowsInv'
  <2>1. /\ turn[t].step = "new" /\ UNCHANGED <<messages, clock>>
        /\ \A s \in Turns : s # t => turn'[s] = turn[s]
    BY <1>1, <1>5 DEF CheckOwner, At, Shape
  <2>. QED
    BY <1>2, <2>1 DEF Recorded
<1>6. ASSUME NEW t \in Turns, ReadContext(t)
      PROVE  RowsInv'
  <2>1. /\ turn[t].step = "owned" /\ UNCHANGED <<messages, clock>>
        /\ \A s \in Turns : s # t => turn'[s] = turn[s]
    BY <1>1, <1>6 DEF ReadContext, At, Shape
  <2>. QED
    BY <1>2, <2>1 DEF Recorded
<1>7. ASSUME NEW t \in Turns, ModelReplies(t) \/ ReadTitle(t) \/ UpdateConversation(t)
      PROVE  RowsInv'
  <2>1. /\ UNCHANGED <<messages, clock>>
        /\ \E step : /\ Goto(t, step)
                     /\ turn[t].step \in Recorded => step \in Recorded
    BY <1>7 DEF ModelReplies, ReadTitle, UpdateConversation, At, Recorded
  <2>. QED
    BY <1>1, <1>2, <2>1, StepFields
<1>8. ASSUME NEW t \in Turns, NEW outcome \in {"stored", "rejected", "unacked"},
             InsertTurn(t, outcome)
      PROVE  RowsInv'
  <2>1. /\ turn[t].step = "recording" /\ clock' = clock + 1
        /\ messages' = IF outcome = "rejected" THEN messages ELSE messages \cup TurnRows(t)
        /\ Goto(t, AfterInsert(outcome))
    BY <1>8 DEF InsertTurn, At
  <2>2. /\ turn'[t].step \in Recorded
        /\ \A s \in Turns : /\ turn'[s].user = turn[s].user
                            /\ turn'[s].chat = turn[s].chat
                            /\ s # t => turn'[s] = turn[s]
    BY <1>1, <2>1, StepFields DEF AfterInsert, Recorded
  <2>3. \A m \in messages : m.turn # t /\ m.at < clock /\ m.at # clock
    BY <1>1, <2>1 DEF RowsInv, Recorded
  <2>4. /\ \A m \in TurnRows(t) : /\ m.turn = t /\ m.at = clock
                                  /\ m.chat = turn[t].chat /\ m.user = turn[t].user
        /\ \A role \in Roles : \E n \in TurnRows(t) : n.turn = t /\ n.role = role
    <3>1. \A m \in TurnRows(t) : /\ m.turn = t /\ m.at = clock
                                  /\ m.chat = turn[t].chat /\ m.user = turn[t].user
      BY DEF TurnRows
    <3>2. ASSUME NEW role \in Roles
          PROVE  \E n \in TurnRows(t) : n.turn = t /\ n.role = role
      <4>. DEFINE n == [chat |-> turn[t].chat, user |-> turn[t].user, turn |-> t,
                        role |-> role, at |-> clock]
      <4>1. n \in TurnRows(t) /\ n.turn = t /\ n.role = role
        BY DEF TurnRows
      <4>. HIDE DEF n
      <4>. QED
        BY <4>1
    <3>. QED
      BY <3>1, <3>2
  <2>5. CASE messages' = messages
    <3>1. IsFiniteSet(messages')
      BY <2>5 DEF RowsInv
    <3>2. ASSUME NEW m \in messages
          PROVE  /\ m.at < clock'
                 /\ m.chat = turn'[m.turn].chat /\ m.user = turn'[m.turn].user
                 /\ turn'[m.turn].step \in Recorded
                 /\ \A role \in Roles : \E n \in messages : n.turn = m.turn /\ n.role = role
      BY <1>1, <2>1, <2>2, <2>3 DEF RowsInv
    <3>3. \A m, n \in messages : m.at = n.at <=> m.turn = n.turn
      BY DEF RowsInv
    <3>. QED
      BY <2>5, <3>1, <3>2, <3>3 DEF RowsInv
  <2>6. CASE messages' = messages \cup TurnRows(t)
    <3>1. IsFiniteSet(messages')
      <4>. DEFINE row(r) == [chat |-> turn[t].chat, user |-> turn[t].user, turn |-> t,
                             role |-> r, at |-> clock]
      <4>1. messages' = (messages \cup {row("user")}) \cup {row("assistant")}
        BY <2>6 DEF TurnRows, Roles
      <4>. HIDE DEF row
      <4>2. IsFiniteSet(messages \cup {row("user")})
        BY FS_AddElement DEF RowsInv
      <4>3. IsFiniteSet((messages \cup {row("user")}) \cup {row("assistant")})
        BY <4>2, FS_AddElement
      <4>. QED
        BY <4>1, <4>3
    <3>2. ASSUME NEW m \in messages'
          PROVE  /\ m.at < clock'
                 /\ m.chat = turn'[m.turn].chat /\ m.user = turn'[m.turn].user
                 /\ turn'[m.turn].step \in Recorded
                 /\ \A role \in Roles : \E n \in messages' : n.turn = m.turn /\ n.role = role
      <4>1. CASE m \in messages
        BY <1>1, <2>1, <2>2, <2>3, <2>6, <4>1 DEF RowsInv
      <4>2. CASE m \in TurnRows(t)
        BY <1>1, <2>1, <2>2, <2>4, <2>6, <4>2
      <4>. QED
        BY <2>6, <4>1, <4>2
    <3>3. \A m, n \in messages' : m.at = n.at <=> m.turn = n.turn
      BY <2>3, <2>4, <2>6 DEF RowsInv
    <3>. QED
      BY <3>1, <3>2, <3>3 DEF RowsInv
  <2>. QED
    BY <2>1, <2>5, <2>6
<1>9. CASE UNCHANGED vars
  BY <1>9 DEF vars, RowsInv
<1>. QED
  BY <1>3, <1>4, <1>5, <1>6, <1>7, <1>8, <1>9 DEF Next, TurnStep

LEMMA RowsAlways == Spec => [](Inv /\ TitleInv /\ RowsInv)
BY InvInit, InvNext, InitTitle, NextTitle, InitRows, NextRows, PTL DEF Spec

LEMMA RowsPaired ==
  ASSUME Inv, RowsInv, NEW c
  PROVE  /\ Paired(Rows(c)) /\ Rows(c) \subseteq messages
         /\ \A m, n \in Rows(c) : m.turn = n.turn /\ m.role = n.role => m = n
<1>1. \A m \in messages : m \in Message
  BY DEF Inv, Shape
<1>2. Rows(c) \subseteq messages /\ IsFiniteSet(Rows(c))
  BY FS_Subset DEF Rows, RowsInv
<1>3. \A m, n \in messages : m.turn = n.turn /\ m.role = n.role => m = n
  <2>. SUFFICES ASSUME NEW m \in messages, NEW n \in messages,
                       m.turn = n.turn, m.role = n.role
                PROVE  m = n
    OBVIOUS
  <2>1. m.chat = n.chat /\ m.user = n.user /\ m.at = n.at
    BY DEF RowsInv
  <2>. QED
    BY <1>1, <2>1 DEF Message
<1>4. Sortable(Rows(c))
  <2>1. \A m \in Rows(c) : m.at \in Nat /\ m.role \in Roles
    BY <1>1, <1>2 DEF Message
  <2>2. \A m, n \in Rows(c) : m.at = n.at /\ m.role = n.role => m = n
    BY <1>2, <1>3 DEF RowsInv
  <2>. QED
    BY <1>2, <2>1, <2>2 DEF Sortable
<1>5. ASSUME NEW m \in Rows(c), NEW role \in Roles
      PROVE  \E n \in Rows(c) : n.at = m.at /\ n.role = role
  <2>1. PICK n \in messages : n.turn = m.turn /\ n.role = role
    BY <1>2 DEF RowsInv
  <2>2. n.at = m.at /\ n.chat = m.chat
    BY <1>2, <2>1 DEF RowsInv
  <2>. QED
    BY <2>1, <2>2 DEF Rows
<1>. QED
  BY <1>2, <1>3, <1>4, <1>5 DEF Paired

----------------------------------------------------------------------------
(* What the page restores and what the model is given. *)

\* The shorter of the list and the limit.
Cut(n) == IF n < Limit THEN n ELSE Limit

LEMMA RecentContextRows ==
  ASSUME Inv, RowsInv, NEW c
  PROVE  LET size == Cardinality(Rows(c))
             ctx == RecentContext(c)
         IN  /\ size \in Nat /\ Cut(size) \in Nat /\ Cut(size) <= size
             /\ DOMAIN ctx = 1..Cut(size) /\ Len(ctx) = Cut(size)
             /\ ctx \in Seq(Turns \X Roles)
             /\ \A i \in 1..Cut(size) :
                  /\ NewestFirst(Rows(c))[Cut(size) + 1 - i] \in Rows(c)
                  /\ ctx[i] = <<NewestFirst(Rows(c))[Cut(size) + 1 - i].turn,
                                NewestFirst(Rows(c))[Cut(size) + 1 - i].role>>
<1>. DEFINE size == Cardinality(Rows(c))
            ctx == RecentContext(c)
            L == NewestFirst(Rows(c))
<1>1. Sortable(Rows(c)) /\ Rows(c) \subseteq messages
  BY RowsPaired DEF Paired
<1>2. size \in Nat /\ L \in [1..size -> Rows(c)] /\ Len(L) = size
  BY <1>1, NewestFirstPlaces, FS_CardinalityType DEF Sortable
<1>3. ctx = [i \in 1..Cut(size) |-> <<L[Cut(size) + 1 - i].turn, L[Cut(size) + 1 - i].role>>]
  BY <1>2 DEF RecentContext, Cut
<1>. HIDE DEF size, L, ctx
<1>4. Cut(size) \in Nat /\ Cut(size) <= size
  BY <1>2, LimitAssumption DEF Cut
<1>5. \A i \in 1..Cut(size) : Cut(size) + 1 - i \in 1..size
  BY <1>2, <1>4
<1>6. \A i \in 1..Cut(size) :
        /\ L[Cut(size) + 1 - i] \in Rows(c)
        /\ ctx[i] = <<L[Cut(size) + 1 - i].turn, L[Cut(size) + 1 - i].role>>
  BY <1>2, <1>3, <1>5
<1>7. \A m \in Rows(c) : m.turn \in Turns /\ m.role \in Roles
  BY <1>1 DEF Inv, Shape, Message
<1>8. ctx \in [1..Cut(size) -> Turns \X Roles]
  BY <1>3, <1>6, <1>7
<1>9. ctx \in Seq(Turns \X Roles) /\ Len(ctx) = Cut(size)
  BY <1>4, <1>8
<1>. QED
  BY <1>2, <1>3, <1>4, <1>6, <1>9 DEF size, L, ctx

\* Up to the limit the page restores what the model is given.
THEOREM PageMatchesModel == Spec => []RestoredMatchesContext
<1>1. Inv /\ RowsInv => RestoredMatchesContext
  <2>. SUFFICES ASSUME Inv, RowsInv, NEW c \in Chats, Cardinality(Rows(c)) <= Limit
                PROVE  RestoredMessages(c) = RecentContext(c)
    BY DEF RestoredMatchesContext
  <2>. DEFINE size == Cardinality(Rows(c))
              L == NewestFirst(Rows(c))
              O == OldestFirst(Rows(c))
  <2>1. Sortable(Rows(c))
    BY RowsPaired DEF Paired
  <2>2. /\ size \in Nat /\ Len(L) = size /\ Len(O) = size
        /\ \A i \in 1..size : O[i] = L[size + 1 - i]
    BY <2>1, NewestFirstPlaces, OldestFirstPlaces, FS_CardinalityType DEF Sortable
  <2>3. RecentContext(c) = [i \in 1..size |-> <<L[size + 1 - i].turn, L[size + 1 - i].role>>]
    BY <2>2, LimitAssumption DEF RecentContext
  <2>4. RestoredMessages(c) = [i \in 1..size |-> <<O[i].turn, O[i].role>>]
    BY <2>2, LimitAssumption DEF RestoredMessages
  <2>. HIDE DEF size, L, O
  <2>. QED
    BY <2>2, <2>3, <2>4
<1>. QED
  BY <1>1, RowsAlways, PTL

----------------------------------------------------------------------------
(* What a turn was given when it read its conversation. *)

Steps == {"new", "owned", "asking", "recording", "inserted", "untitled", "titled", "done"}

LEMMA TypeNext == TypeOK /\ Inv /\ TitleInv /\ RowsInv /\ [Next]_vars => TypeOK'
<1>. SUFFICES ASSUME TypeOK, Inv, TitleInv, RowsInv, [Next]_vars
              PROVE  turn' \in [Turns -> Turn]
  BY InvNext, NextTitle DEF TypeOK, Inv, Shape, TitleInv
<1>1. /\ turn \in [Turns -> Turn] /\ title \in [Chats -> Turns \cup {None}]
      /\ \A t \in Turns : turn[t] \in Turn
  BY DEF TypeOK
<1>2. ASSUME NEW t \in Turns, NEW r \in Turn, turn' = [turn EXCEPT ![t] = r]
      PROVE  turn' \in [Turns -> Turn]
  BY <1>1, <1>2
<1>3. ASSUME NEW t \in Turns, NEW step \in Steps, Goto(t, step)
      PROVE  turn' \in [Turns -> Turn]
  <2>1. [turn[t] EXCEPT !.step = step] \in Turn
    BY <1>1 DEF Turn, Steps
  <2>. QED
    BY <1>2, <1>3, <2>1 DEF Goto
<1>4. ASSUME NEW t \in Turns, NEW u \in Users, NEW c \in Chats, CheckOwner(t, u, c)
      PROVE  turn' \in [Turns -> Turn]
  <2>. DEFINE r == [step |-> "owned", user |-> u, chat |-> c, context |-> <<>>,
                    seen |-> title[c]]
  <2>1. r \in Turn
    BY <1>1 DEF Turn
  <2>2. turn' = [turn EXCEPT ![t] = r]
    BY <1>4 DEF CheckOwner
  <2>. HIDE DEF r
  <2>. QED
    BY <1>2, <2>1, <2>2
<1>5. ASSUME NEW t \in Turns, ReadContext(t)
      PROVE  turn' \in [Turns -> Turn]
  <2>. DEFINE ctx == RecentContext(turn[t].chat)
  <2>1. ctx \in Seq(Turns \X Roles)
    BY RecentContextRows
  <2>2. turn' = [turn EXCEPT ![t] = [turn[t] EXCEPT !.step = "asking", !.context = ctx]]
    BY <1>1, <1>5 DEF ReadContext
  <2>. HIDE DEF ctx
  <2>3. [turn[t] EXCEPT !.step = "asking", !.context = ctx] \in Turn
    BY <1>1, <2>1 DEF Turn
  <2>. QED
    BY <1>2, <2>2, <2>3
<1>6. ASSUME NEW t \in Turns, ModelReplies(t) \/ ReadTitle(t) \/ UpdateConversation(t)
      PROVE  turn' \in [Turns -> Turn]
  <2>1. \E step \in Steps : Goto(t, step)
    BY <1>6 DEF ModelReplies, ReadTitle, UpdateConversation, Steps
  <2>. QED
    BY <1>3, <2>1
<1>7. ASSUME NEW t \in Turns, NEW outcome \in {"stored", "rejected", "unacked"},
             InsertTurn(t, outcome)
      PROVE  turn' \in [Turns -> Turn]
  <2>1. AfterInsert(outcome) \in Steps /\ Goto(t, AfterInsert(outcome))
    BY <1>7 DEF InsertTurn, AfterInsert, Steps
  <2>. QED
    BY <1>3, <2>1
<1>8. CASE turn' = turn
  BY <1>1, <1>8
<1>. QED
  BY <1>4, <1>5, <1>6, <1>7, <1>8
     DEF Next, TurnStep, CreateConversation, DeleteConversation, vars

LEMMA TypeInit == Init => TypeOK
<1>. SUFFICES ASSUME Init PROVE TypeOK
  OBVIOUS
<1>1. [step |-> "new", user |-> None, chat |-> None, context |-> <<>>, seen |-> None] \in Turn
  BY DEF Turn
<1>. QED
  BY <1>1 DEF Init, TypeOK

\* The variables stay in their ranges; in particular what a turn is given is a
\* list of rows of known turns and roles.
THEOREM TypeCorrect == Spec => []TypeOK
BY RowsAlways, TypeInit, TypeNext, PTL DEF Spec

\* With an even limit the list read consists of whole turns: its length is
\* even, and each request comes right before its reply.
Whole(ctx) ==
  /\ Len(ctx) % 2 = 0
  /\ \A i \in 1..(Len(ctx) \div 2) :
       /\ ctx[2 * i - 1] = <<ctx[2 * i - 1][1], "user">>
       /\ ctx[2 * i] = <<ctx[2 * i - 1][1], "assistant">>
  /\ \A i, j \in 1..Len(ctx) : i # j => ctx[i] # ctx[j]

LEMMA RecentWhole ==
  ASSUME Inv, RowsInv, NEW c, Limit % 2 = 0
  PROVE  Whole(RecentContext(c))
<1>. DEFINE size == Cardinality(Rows(c))
            n == Cut(size)
            ctx == RecentContext(c)
            L == NewestFirst(Rows(c))
<1>1. /\ Paired(Rows(c)) /\ Sortable(Rows(c)) /\ Rows(c) \subseteq messages
      /\ \A l, m \in Rows(c) : l.turn = m.turn /\ l.role = m.role => l = m
  BY RowsPaired DEF Paired
<1>2. /\ size \in Nat /\ n \in Nat /\ n <= size /\ Len(ctx) = n
      /\ \A i \in 1..n : /\ L[n + 1 - i] \in Rows(c)
                         /\ ctx[i] = <<L[n + 1 - i].turn, L[n + 1 - i].role>>
  BY RecentContextRows
<1>3. \A k \in Nat : 2 * k + 2 \in 1..size =>
        /\ L[2 * k + 2].role = "user" /\ L[2 * k + 1].role = "assistant"
        /\ L[2 * k + 1].at = L[2 * k + 2].at
  BY <1>1, Alternation
<1>4. \A i \in 1..size : L[i] \in Rows(c) /\ Place(Rows(c), L[i]) = i - 1
  BY <1>1, NewestFirstPlaces
<1>5. \E h \in Nat : size = 2 * h
  BY <1>1, PairedIsEven
<1>. HIDE DEF size, n, ctx, L
<1>6. PICK h \in Nat : n = 2 * h
  <2>1. n = size \/ n = Limit
    BY DEF n, Cut
  <2>2. \E h \in Nat : Limit = 2 * h
    <3>1. Limit \div 2 \in Nat /\ Limit = 2 * (Limit \div 2)
      BY LimitAssumption
    <3>. QED
      BY <3>1
  <2>. QED
    BY <1>5, <2>1, <2>2
<1>7. Len(ctx) % 2 = 0 /\ Len(ctx) \div 2 = h
  BY <1>2, <1>6
<1>8. ASSUME NEW i \in 1..h
      PROVE  /\ ctx[2 * i - 1] = <<ctx[2 * i - 1][1], "user">>
             /\ ctx[2 * i] = <<ctx[2 * i - 1][1], "assistant">>
  <2>1. PICK k \in Nat : k = h - i
    OBVIOUS
  <2>2. /\ 2 * i - 1 \in 1..n /\ n + 1 - (2 * i - 1) = 2 * k + 2
        /\ 2 * i \in 1..n /\ n + 1 - 2 * i = 2 * k + 1
        /\ 2 * k + 2 \in 1..size /\ 2 * k + 1 \in 1..size
    BY <1>2, <1>6, <2>1
  <2>3. /\ ctx[2 * i - 1] = <<L[2 * k + 2].turn, L[2 * k + 2].role>>
        /\ ctx[2 * i] = <<L[2 * k + 1].turn, L[2 * k + 1].role>>
    BY <1>2, <2>2
  <2>4. /\ L[2 * k + 2].role = "user" /\ L[2 * k + 1].role = "assistant"
        /\ L[2 * k + 1].at = L[2 * k + 2].at
    BY <1>3, <2>2
  <2>5. L[2 * k + 1].turn = L[2 * k + 2].turn
    BY <1>1, <1>4, <2>2, <2>4 DEF RowsInv
  <2>. QED
    BY <2>3, <2>4, <2>5
<1>9. ASSUME NEW i \in 1..n, NEW j \in 1..n, ctx[i] = ctx[j]
      PROVE  i = j
  <2>1. PICK l \in Rows(c) : /\ l = L[n + 1 - i] /\ ctx[i] = <<l.turn, l.role>>
                             /\ Place(Rows(c), l) = (n + 1 - i) - 1
    BY <1>2, <1>4
  <2>2. PICK m \in Rows(c) : /\ m = L[n + 1 - j] /\ ctx[j] = <<m.turn, m.role>>
                             /\ Place(Rows(c), m) = (n + 1 - j) - 1
    BY <1>2, <1>4
  <2>3. l = m
    <3>1. <<l.turn, l.role>> = <<m.turn, m.role>>
      BY <1>9, <2>1, <2>2
    <3>2. l.turn = m.turn /\ l.role = m.role
      BY <3>1
    <3>. QED
      BY <1>1, <3>2
  <2>. QED
    BY <1>2, <2>1, <2>2, <2>3
<1>10. Whole(ctx)
  BY <1>2, <1>7, <1>8, <1>9 DEF Whole
<1>. QED
  BY <1>10 DEF ctx

\* What a turn was given are rows of turns of its account and conversation,
\* which are past their insert: what is known of them does not change.
ToldInv ==
  \A t \in Turns : \A i \in 1..Len(turn[t].context) :
    LET told == turn[t].context[i][1] IN
      /\ turn[told].step \in Recorded
      /\ turn[told].user = turn[t].user /\ turn[told].chat = turn[t].chat

\* ... and they were whole turns when it read them.
WholeInv == \A t \in Turns : Whole(turn[t].context)

LEMMA RecentTold ==
  ASSUME Inv, RowsInv, NEW t \in Turns, turn[t].step = "owned",
         NEW i \in 1..Len(RecentContext(turn[t].chat))
  PROVE  LET told == RecentContext(turn[t].chat)[i][1] IN
           /\ turn[told].step \in Recorded
           /\ turn[told].user = turn[t].user /\ turn[told].chat = turn[t].chat
<1>. DEFINE c == turn[t].chat
<1>1. PICK m \in Rows(c) : RecentContext(c)[i] = <<m.turn, m.role>>
  BY RecentContextRows
<1>2. m \in messages /\ m.chat = c
  BY <1>1 DEF Rows
<1>3. /\ turn[m.turn].step \in Recorded
      /\ turn[m.turn].user = m.user /\ turn[m.turn].chat = c
  BY <1>2 DEF RowsInv
<1>4. m.user = turn[t].user
  <2>1. owner[c] = m.user /\ m.user \in Users
    BY <1>2 DEF Inv, Shape, Message, MessagesBelongToOwner
  <2>2. owner[c] \in {turn[t].user, None}
    BY DEF Inv, TurnOwned
  <2>. QED
    BY <2>1, <2>2, NoneAssumption
<1>. QED
  BY <1>1, <1>3, <1>4

LEMMA NextContext ==
  ASSUME TypeOK, Inv, RowsInv, ToldInv, [Next]_vars
  PROVE  /\ ToldInv'
         /\ Limit % 2 = 0 /\ WholeInv => WholeInv'
<1>1. /\ Shape /\ \A t \in Turns : turn[t].context \in Seq(Turns \X Roles)
      /\ \A t \in Turns : \A i \in 1..Len(turn[t].context) : turn[t].context[i][1] \in Turns
  BY DEF TypeOK, Turn, Inv
\* No step takes a turn back, and what such a turn is known for stays.
<1>2. \A s \in Turns : turn[s].step \in Recorded =>
        /\ turn'[s].step \in Recorded
        /\ turn'[s].user = turn[s].user /\ turn'[s].chat = turn[s].chat
  <2>1. ASSUME NEW t \in Turns, NEW step, Goto(t, step),
               turn[t].step \in Recorded => step \in Recorded
        PROVE  \A s \in Turns : turn[s].step \in Recorded =>
                 /\ turn'[s].step \in Recorded
                 /\ turn'[s].user = turn[s].user /\ turn'[s].chat = turn[s].chat
    BY <1>1, <2>1, StepFields
  <2>2. ASSUME NEW t \in Turns, turn[t].step \notin Recorded,
               \A s \in Turns : s # t => turn'[s] = turn[s]
        PROVE  \A s \in Turns : turn[s].step \in Recorded =>
                 /\ turn'[s].step \in Recorded
                 /\ turn'[s].user = turn[s].user /\ turn'[s].chat = turn[s].chat
    BY <2>2
  <2>3. ASSUME NEW t \in Turns, TurnStep(t)
        PROVE  \/ /\ turn[t].step \notin Recorded
                  /\ \A s \in Turns : s # t => turn'[s] = turn[s]
               \/ \E step : /\ Goto(t, step)
                            /\ turn[t].step \in Recorded => step \in Recorded
    <3>1. CASE (\E u \in Users, c \in Chats : CheckOwner(t, u, c)) \/ ReadContext(t)
      <4>1. turn[t].step \notin Recorded
        BY <3>1 DEF CheckOwner, ReadContext, At, Recorded
      <4>2. \A s \in Turns : s # t => turn'[s] = turn[s]
        BY <1>1, <3>1 DEF CheckOwner, ReadContext, Shape
      <4>. QED
        BY <4>1, <4>2
    <3>2. CASE ModelReplies(t) \/ ReadTitle(t) \/ UpdateConversation(t)
      BY <3>2 DEF ModelReplies, ReadTitle, UpdateConversation, At, Recorded
    <3>3. ASSUME NEW outcome \in {"stored", "rejected", "unacked"}, InsertTurn(t, outcome)
          PROVE  Goto(t, AfterInsert(outcome)) /\ turn[t].step \notin Recorded
      BY <3>3 DEF InsertTurn, At, Recorded
    <3>. QED
      BY <2>3, <3>1, <3>2, <3>3 DEF TurnStep
  <2>4. (\E t \in Turns : TurnStep(t)) \/ turn' = turn
    BY DEF Next, CreateConversation, DeleteConversation, vars
  <2>. QED
    BY <2>1, <2>2, <2>3, <2>4
\* What a turn is told changes when it reads, or is empty.
<1>3. \A t \in Turns :
        \/ /\ turn'[t].context = turn[t].context
           /\ turn[t].context = <<>> \/ ( /\ turn'[t].user = turn[t].user
                                          /\ turn'[t].chat = turn[t].chat )
        \/ turn'[t].context = <<>>
        \/ /\ turn[t].step = "owned"
           /\ turn'[t].context = RecentContext(turn[t].chat)
           /\ turn'[t].user = turn[t].user /\ turn'[t].chat = turn[t].chat
  <2>1. ASSUME NEW t \in Turns, NEW step, Goto(t, step)
        PROVE  \A s \in Turns : /\ turn'[s].context = turn[s].context
                                /\ turn'[s].user = turn[s].user
                                /\ turn'[s].chat = turn[s].chat
    BY <1>1, <2>1 DEF Goto, Shape
  <2>2. ASSUME NEW t \in Turns, NEW u \in Users, NEW c \in Chats, CheckOwner(t, u, c)
        PROVE  /\ turn'[t].context = <<>>
               /\ \A s \in Turns : s # t => turn'[s] = turn[s]
    BY <1>1, <2>2 DEF CheckOwner, Shape
  <2>3. ASSUME NEW t \in Turns, ReadContext(t)
        PROVE  /\ turn[t].step = "owned"
               /\ turn'[t].context = RecentContext(turn[t].chat)
               /\ turn'[t].user = turn[t].user /\ turn'[t].chat = turn[t].chat
               /\ \A s \in Turns : s # t => turn'[s] = turn[s]
    BY <1>1, <2>3 DEF ReadContext, At, Shape
  <2>4. ASSUME NEW t \in Turns, TurnStep(t)
        PROVE  \/ \E u \in Users, c \in Chats : CheckOwner(t, u, c)
               \/ ReadContext(t)
               \/ \E step : Goto(t, step)
    BY <2>4 DEF TurnStep, ModelReplies, ReadTitle, UpdateConversation, InsertTurn
  <2>5. (\E t \in Turns : TurnStep(t)) \/ turn' = turn
    BY DEF Next, CreateConversation, DeleteConversation, vars
  <2>. QED
    BY <2>1, <2>2, <2>3, <2>4, <2>5
<1>4. ToldInv'
  <2>. SUFFICES ASSUME NEW t \in Turns, NEW i \in 1..Len(turn'[t].context),
                       NEW told, told = turn'[t].context[i][1]
                PROVE  /\ turn'[told].step \in Recorded
                       /\ turn'[told].user = turn'[t].user
                       /\ turn'[told].chat = turn'[t].chat
    BY DEF ToldInv
  <2>1. CASE turn'[t].context = <<>>
    BY <2>1
  <2>2. CASE /\ turn'[t].context = turn[t].context /\ turn[t].context # <<>>
             /\ turn'[t].user = turn[t].user /\ turn'[t].chat = turn[t].chat
    <3>1. /\ told \in Turns /\ turn[told].step \in Recorded
          /\ turn[told].user = turn[t].user /\ turn[told].chat = turn[t].chat
      BY <1>1, <2>2 DEF ToldInv
    <3>. QED
      BY <1>2, <2>2, <3>1
  <2>3. CASE /\ turn[t].step = "owned"
             /\ turn'[t].context = RecentContext(turn[t].chat)
             /\ turn'[t].user = turn[t].user /\ turn'[t].chat = turn[t].chat
    <3>1. RecentContext(turn[t].chat) \in Seq(Turns \X Roles)
      BY RecentContextRows
    <3>2. told \in Turns
      BY <2>3, <3>1
    <3>3. /\ turn[told].step \in Recorded
          /\ turn[told].user = turn[t].user /\ turn[told].chat = turn[t].chat
      BY <2>3, RecentTold
    <3>. QED
      BY <1>2, <2>3, <3>2, <3>3
  <2>. QED
    BY <1>3, <2>1, <2>2, <2>3
<1>5. ASSUME Limit % 2 = 0, WholeInv PROVE WholeInv'
  <2>1. Whole(<<>>)
    BY DEF Whole
  <2>. QED
    BY <1>3, <1>5, <2>1, RecentWhole DEF WholeInv
<1>. QED
  BY <1>4, <1>5

LEMMA InitContext == Init => ToldInv /\ WholeInv
<1>1. Whole(<<>>)
  BY DEF Whole
<1>. QED
  BY <1>1 DEF Init, ToldInv, WholeInv

\* What the model is given are whole turns of the same account and
\* conversation.  The limit has to be even: an odd one would cut the oldest
\* turn in two and give the model a reply without its request.
THEOREM ModelSeesWholeTurns ==
  ASSUME Limit % 2 = 0
  PROVE  Spec => []ContextIsWholeTurns
<1>1. TypeOK /\ ToldInv /\ WholeInv => ContextIsWholeTurns
  <2>. SUFFICES ASSUME TypeOK, ToldInv, WholeInv, NEW t \in Turns
                PROVE  LET ctx == turn[t].context IN
                         /\ Len(ctx) % 2 = 0
                         /\ \A i \in 1..(Len(ctx) \div 2) :
                              LET told == ctx[2 * i - 1][1] IN
                                /\ ctx[2 * i - 1] = <<told, "user">>
                                /\ ctx[2 * i] = <<told, "assistant">>
                                /\ turn[told].user = turn[t].user
                                /\ turn[told].chat = turn[t].chat
                         /\ \A i, j \in 1..Len(ctx) : i # j => ctx[i] # ctx[j]
    BY DEF ContextIsWholeTurns
  <2>1. PICK ctx \in Seq(Turns \X Roles) : ctx = turn[t].context
    BY DEF TypeOK, Turn
  <2>2. Whole(ctx)
    BY <2>1 DEF WholeInv
  <2>3. ASSUME NEW i \in 1..(Len(ctx) \div 2)
        PROVE  /\ ctx[2 * i - 1] = <<ctx[2 * i - 1][1], "user">>
               /\ ctx[2 * i] = <<ctx[2 * i - 1][1], "assistant">>
               /\ turn[ctx[2 * i - 1][1]].user = turn[t].user
               /\ turn[ctx[2 * i - 1][1]].chat = turn[t].chat
    <3>1. 2 * i - 1 \in 1..Len(ctx)
      <4>1. PICK n \in Nat : n = Len(ctx)
        BY <2>1
      <4>2. i \in Nat /\ 1 <= i /\ i <= n \div 2 /\ 2 * (n \div 2) <= n
        BY <2>3, <4>1
      <4>. QED
        BY <4>1, <4>2
    <3>2. /\ turn[ctx[2 * i - 1][1]].user = turn[t].user
          /\ turn[ctx[2 * i - 1][1]].chat = turn[t].chat
      BY <2>1, <3>1 DEF ToldInv
    <3>. QED
      BY <2>2, <3>2 DEF Whole
  <2>. QED
    BY <2>1, <2>2, <2>3 DEF Whole
<1>2. TypeOK /\ Inv /\ RowsInv /\ ToldInv /\ WholeInv /\ [Next]_vars => (ToldInv /\ WholeInv)'
  BY NextContext
<1>. QED
  BY RowsAlways, TypeCorrect, InitContext, <1>1, <1>2, PTL DEF Spec

=============================================================================
