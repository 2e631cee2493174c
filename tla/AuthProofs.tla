----------------------------- MODULE AuthProofs -----------------------------
(***************************************************************************)
(* Theorems about the key caches for any number of request threads, any    *)
(* cache lifetime and any bound on the duration of a request for the keys. *)
(*                                                                         *)
(* A key set is as good as the moment it was current at.  The inductive    *)
(* invariant says of each key set - in a cache, on its way into one, or    *)
(* about to be read - up to which moment its last key was the current one, *)
(* and how far that moment can lie before the time it is stamped with.     *)
(***************************************************************************)
EXTENDS Auth, TLAPS

----------------------------------------------------------------------------
(* The inductive invariant. *)

\* Of the keys an issuer published at the times p, the k-th was still the
\* current one at t, or was replaced no longer than slack before.
AsOf(p, k, t, slack) ==
  k \in 1..Len(p) /\ (k < Len(p) => p[k + 1] + slack >= t)

\* How far the stamp of a cached key set can lie after its replacement.
Lag(i) == IF i = "google" THEN MaxFetch ELSE 0

UnderWay == {"fetching", "served", "stored"}

\* Keys are published in the order of time, which nothing is ahead of, and no
\* fetch takes longer than MaxFetch.
ClockInv ==
  /\ \A i \in Issuers :
       /\ \A j \in 1..Current(i) : published[i][j] <= now
       /\ \A j, k \in 1..Current(i) : j <= k => published[i][j] <= published[i][k]
       /\ Current(i) # 0
       /\ cache[i].fetched <= now
  /\ \A q \in Requests :
       /\ req[q].at <= now
       /\ req[q].phase \in UnderWay => now <= req[q].at + MaxFetch

\* A cached key set is as old as its stamp says, up to the lag.
CacheInv ==
  \A i \in Issuers : cache[i].keys # None =>
    AsOf(published[i], cache[i].keys, cache[i].fetched, Lag(i))

\* What a thread was served is as old as the clock it read before it asked.
ServedInv ==
  \A q \in Requests : req[q].phase \in {"served", "stored"} =>
    AsOf(published[req[q].source], req[q].keys, req[q].at, 0)

\* Between its two assignments a thread may stamp another thread's key set.
StoredInv ==
  \A q \in Requests : req[q].phase = "stored" =>
    /\ req[q].source = "google"
    /\ cache["google"].keys # None
    /\ AsOf(published["google"], cache["google"].keys, req[q].at, MaxFetch)

\* A thread that found the cache fresh may read another thread's key set.
HitInv ==
  \A q \in Requests : req[q].phase = "hit" =>
    /\ req[q].source = "google"
    /\ cache["google"].keys # None
    /\ AsOf(published["google"], cache["google"].keys, req[q].at + 1, MaxFetch + CacheTTL)

Inv == TypeOK /\ ClockInv /\ CacheInv /\ ServedInv /\ StoredInv /\ HitInv

----------------------------------------------------------------------------
(* Lemmas about key sets and the records of the threads. *)

\* Publishing a key leaves the age of every key set known so far.
LEMMA AsOfAppend ==
  ASSUME NEW p \in Seq(Nat), NEW n \in Nat, NEW k, NEW t \in Nat, NEW slack \in Nat,
         AsOf(p, k, t, slack), t <= n + slack
  PROVE  AsOf(Append(p, n), k, t, slack)
<1>1. /\ Len(p) \in Nat /\ Len(Append(p, n)) = Len(p) + 1
      /\ \A j \in 1..Len(p) : Append(p, n)[j] = p[j]
      /\ Append(p, n)[Len(p) + 1] = n
  OBVIOUS
<1>. HIDE DEF AsOf
<1>2. k \in 1..Len(p) /\ (k < Len(p) => p[k + 1] + slack >= t)
  BY DEF AsOf
<1>3. CASE k < Len(p)
  BY <1>1, <1>2, <1>3 DEF AsOf
<1>4. CASE k = Len(p)
  BY <1>1, <1>2, <1>4 DEF AsOf
<1>. QED
  BY <1>1, <1>2, <1>3, <1>4

\* The newest key is current.
LEMMA AsOfNewest ==
  ASSUME NEW p \in Seq(Nat), Len(p) # 0, NEW t, NEW slack
  PROVE  AsOf(p, Len(p), t, slack)
BY DEF AsOf

\* A key set that will do for a time will do for an earlier one.
LEMMA AsOfEarlier ==
  ASSUME NEW p \in Seq(Nat), NEW k, NEW t \in Nat, NEW slack \in Nat,
         NEW u \in Nat, NEW wider \in Nat, AsOf(p, k, t, slack), u + slack <= t + wider
  PROVE  AsOf(p, k, u, wider)
BY DEF AsOf

LEMMA Constants ==
  /\ CacheTTL \in Nat /\ CacheTTL >= 1 /\ CacheTTL <= MaxTime
  /\ MaxFetch \in Nat /\ MaxTime \in Nat /\ 0..MaxTime \subseteq Nat
  /\ None \notin Requests /\ None \notin Nat
BY AuthAssumption

LEMMA Fields ==
  ASSUME TypeOK
  PROVE  /\ now \in Nat
         /\ \A i \in Issuers : /\ published[i] \in Seq(Nat)
                               /\ cache[i].keys \in Nat \cup {None}
                               /\ cache[i].fetched \in Nat
         /\ \A q \in Requests : /\ req[q].at \in Nat /\ req[q].key \in Nat
                                /\ req[q].source \in Issuers /\ req[q].issuer \in Issuers
<1>1. \A i \in Issuers : published[i] \in Seq(Nat)
  BY Constants DEF TypeOK
<1>. QED
  BY <1>1, Constants DEF TypeOK

----------------------------------------------------------------------------
(* Types. *)

Record == [phase : {"idle"} \cup Waiting \cup Answers, source : Issuers,
           issuer : Issuers, key : Nat, at : 0..MaxTime, keys : Nat \cup {None}]

LEMMA IdleType == Idle \in Record /\ \A answer \in Answers : Answered(answer) \in Record
<1>1. 0 \in 0..MaxTime /\ "supabase" \in Issuers
  BY Constants DEF Issuers
<1>2. Idle \in Record
  BY <1>1 DEF Idle, Record
<1>. QED
  BY <1>1, <1>2 DEF Answered, Idle, Record

\* What a thread becomes once its key set is known.
LEMMA JudgedType ==
  ASSUME TypeOK, NEW q \in Requests, NEW keys
  PROVE  /\ Judged(q, keys) \in Record
         /\ Judged(q, keys).phase \in {"waiting", "accepted", "refused"}
         /\ Judged(q, keys).at = 0
<1>1. req[q] \in Record /\ 0 \in 0..MaxTime /\ "google" \in Issuers
  BY Constants DEF TypeOK, Record, Issuers
<1>2. CASE req[q].issuer # req[q].source
  <2>1. Judged(q, keys) = [req[q] EXCEPT !.phase = "waiting", !.source = "google", !.at = 0,
                                         !.keys = None]
    BY <1>2 DEF Judged
  <2>. QED
    BY <1>1, <2>1 DEF Record, Waiting
<1>3. CASE req[q].issuer = req[q].source
  <2>1. PICK answer \in {"accepted", "refused"} : Judged(q, keys) = Answered(answer)
    BY <1>3 DEF Judged
  <2>. QED
    BY <2>1, IdleType DEF Answers, Answered, Idle
<1>. QED
  BY <1>2, <1>3

LEMMA Becomes ==
  ASSUME TypeOK, NEW q \in Requests, NEW record \in Record, Become(q, record)
  PROVE  /\ req' \in [Requests -> Record]
         /\ req'[q] = record
         /\ \A p \in Requests : p # q => req'[p] = req[p]
BY DEF Become, TypeOK, Record

\* A thread holds the lock while it fetches Supabase's keys.
Holds(record) == record.phase \in {"fetching", "served"} /\ record.source = "supabase"

\* A thread moves on, and the lock follows it.
LEMMA MoveType ==
  ASSUME TypeOK, NEW q \in Requests, NEW record \in Record, Become(q, record),
         UNCHANGED <<now, published>>,
         cache' \in [Issuers -> [keys : Nat \cup {None}, fetched : 0..MaxTime]],
         \/ lock' = lock /\ (Holds(record) <=> Holds(req[q]))
         \/ lock' = Released(q) /\ ~Holds(record)
         \/ lock = None /\ lock' = q /\ Holds(record)
  PROVE  TypeOK'
<1>1. /\ req' \in [Requests -> Record]
      /\ req'[q] = record
      /\ \A p \in Requests : p # q => req'[p] = req[p]
  BY Becomes
<1>2. \A p \in Requests : lock = p <=> Holds(req[p])
  BY DEF TypeOK, Holds
<1>3. \A p \in Requests : lock' = p <=> Holds(req'[p])
  BY <1>1, <1>2, Constants DEF Released
<1>. QED
  BY <1>1, <1>3 DEF TypeOK, Record, Holds

\* A thread's next request.
LEMMA ArriveRecord ==
  ASSUME TypeOK, NEW q \in Requests, Arrive(q)
  PROVE  \E record \in Record : Become(q, record) /\ record.phase = "waiting" /\ record.at = 0
<1>1. PICK i \in Issuers : \E key \in 1..Current(i) :
        Become(q, [Idle EXCEPT !.phase = "waiting", !.issuer = i, !.key = key])
  BY DEF Arrive
<1>2. PICK key \in 1..Current(i) :
        Become(q, [Idle EXCEPT !.phase = "waiting", !.issuer = i, !.key = key])
  BY <1>1
<1>3. key \in Nat
  BY Fields DEF Current
<1>. DEFINE record == [Idle EXCEPT !.phase = "waiting", !.issuer = i, !.key = key]
<1>4. record \in Record /\ record.phase = "waiting" /\ record.at = 0
  BY <1>3, IdleType DEF Idle, Record, Waiting
<1>. QED
  BY <1>2, <1>4

LEMMA InitType == Init => TypeOK
<1>. SUFFICES ASSUME Init PROVE TypeOK
  OBVIOUS
<1>1. 0 \in 0..MaxTime /\ CacheTTL \in 0..MaxTime
  BY Constants
<1>2. published \in [Issuers -> Seq(0..MaxTime)]
  BY <1>1 DEF Init
<1>3. req \in [Requests -> Record]
  BY IdleType DEF Init
<1>4. \A q \in Requests : lock # q /\ req[q].phase = "idle"
  BY Constants DEF Init, Idle
<1>. QED
  BY <1>1, <1>2, <1>3, <1>4 DEF Init, TypeOK, Record

LEMMA NextType == TypeOK /\ [Next]_vars => TypeOK'
<1>. SUFFICES ASSUME TypeOK, [Next]_vars PROVE TypeOK'
  OBVIOUS
<1>1. /\ cache \in [Issuers -> [keys : Nat \cup {None}, fetched : 0..MaxTime]]
      /\ \A q \in Requests : req[q] \in Record
      /\ now \in 0..MaxTime
  BY DEF TypeOK, Record
<1>2. \A q \in Requests : \A keys : Judged(q, keys) \in Record /\ ~Holds(Judged(q, keys))
  BY JudgedType DEF Holds
<1>3. ASSUME NEW q \in Requests, Arrive(q) PROVE TypeOK'
  <2>1. PICK record \in Record : Become(q, record) /\ record.phase = "waiting"
    BY <1>3, ArriveRecord
  <2>2. ~Holds(record)
    BY <2>1 DEF Holds
  <2>3. ~Holds(req[q])
    BY <1>3 DEF Arrive, Holds, Waiting
  <2>. QED
    BY <1>1, <1>3, <2>1, <2>2, <2>3, MoveType DEF Arrive
<1>4. ASSUME NEW q \in Requests, CheckSupabase(q) PROVE TypeOK'
  <2>1. CASE Fresh("supabase", now)
    <3>1. ~Holds(req[q])
      BY <1>4 DEF CheckSupabase, Holds
    <3>. QED
      BY <1>1, <1>2, <1>4, <2>1, <3>1, MoveType DEF CheckSupabase
  <2>2. CASE ~Fresh("supabase", now)
    <3>1. /\ [req[q] EXCEPT !.phase = "fetching", !.at = now] \in Record
          /\ Holds([req[q] EXCEPT !.phase = "fetching", !.at = now])
      BY <1>1, <1>4 DEF CheckSupabase, Record, Holds, Waiting
    <3>. QED
      BY <1>1, <1>4, <2>2, <3>1, MoveType DEF CheckSupabase
  <2>. QED
    BY <2>1, <2>2
<1>5. ASSUME NEW q \in Requests, CheckGoogle(q) PROVE TypeOK'
  <2>1. PICK phase \in {"hit", "fetching"} :
          Become(q, [req[q] EXCEPT !.at = now, !.phase = phase])
    BY <1>5 DEF CheckGoogle
  <2>2. /\ [req[q] EXCEPT !.at = now, !.phase = phase] \in Record
        /\ ~Holds([req[q] EXCEPT !.at = now, !.phase = phase])
        /\ ~Holds(req[q])
    BY <1>1, <1>5 DEF CheckGoogle, Record, Holds, Waiting
  <2>. QED
    BY <1>1, <1>5, <2>1, <2>2, MoveType DEF CheckGoogle
<1>6. ASSUME NEW q \in Requests, ReadGoogleKeys(q) PROVE TypeOK'
  <2>1. ~Holds(req[q])
    BY <1>6 DEF ReadGoogleKeys, Holds
  <2>. QED
    BY <1>1, <1>2, <1>6, <2>1, MoveType DEF ReadGoogleKeys
<1>7. ASSUME NEW q \in Requests, Serve(q) PROVE TypeOK'
  <2>1. Current(req[q].source) \in Nat
    BY Fields DEF Current
  <2>2. /\ [req[q] EXCEPT !.phase = "served", !.keys = Current(req[q].source)] \in Record
        /\ Holds([req[q] EXCEPT !.phase = "served", !.keys = Current(req[q].source)])
             <=> Holds(req[q])
    BY <1>1, <1>7, <2>1 DEF Serve, Record, Holds, Waiting
  <2>. QED
    BY <1>1, <1>7, <2>2, MoveType DEF Serve
<1>8. ASSUME NEW q \in Requests, FetchRefused(q) \/ FetchFails(q) PROVE TypeOK'
  <2>1. /\ Answered("error") \in Record
        /\ ~Holds(Answered("error"))
    BY IdleType DEF Answers, Answered, Holds, Idle
  <2>. QED
    BY <1>1, <1>2, <1>8, <2>1, MoveType DEF FetchRefused, FetchFails
<1>9. ASSUME NEW q \in Requests, StoreSupabase(q) PROVE TypeOK'
  <2>1. [keys |-> req[q].keys, fetched |-> Stamp(q)]
          \in [keys : Nat \cup {None}, fetched : 0..MaxTime]
    BY <1>1 DEF Record, Stamp
  <2>2. cache' \in [Issuers -> [keys : Nat \cup {None}, fetched : 0..MaxTime]]
    BY <1>1, <1>9, <2>1 DEF StoreSupabase
  <2>. QED
    BY <1>2, <1>9, <2>2, MoveType DEF StoreSupabase
<1>10. ASSUME NEW q \in Requests, StoreGoogleKeys(q) PROVE TypeOK'
  <2>1. /\ [req[q] EXCEPT !.phase = "stored"] \in Record
        /\ ~Holds([req[q] EXCEPT !.phase = "stored"])
        /\ ~Holds(req[q])
    BY <1>1, <1>10 DEF StoreGoogleKeys, Record, Holds, Waiting
  <2>2. [cache["google"] EXCEPT !.keys = req[q].keys]
          \in [keys : Nat \cup {None}, fetched : 0..MaxTime]
    BY <1>1 DEF Record, Issuers
  <2>3. cache' \in [Issuers -> [keys : Nat \cup {None}, fetched : 0..MaxTime]]
    BY <1>1, <1>10, <2>2 DEF StoreGoogleKeys
  <2>. QED
    BY <1>10, <2>1, <2>3, MoveType DEF StoreGoogleKeys
<1>11. ASSUME NEW q \in Requests, StoreGoogleTime(q) PROVE TypeOK'
  <2>1. [cache["google"] EXCEPT !.fetched = Stamp(q)]
          \in [keys : Nat \cup {None}, fetched : 0..MaxTime]
    BY <1>1 DEF Record, Issuers, Stamp
  <2>2. cache' \in [Issuers -> [keys : Nat \cup {None}, fetched : 0..MaxTime]]
    BY <1>1, <1>11, <2>1 DEF StoreGoogleTime
  <2>3. ~Holds(req[q])
    BY <1>11 DEF StoreGoogleTime, Holds
  <2>. QED
    BY <1>2, <1>11, <2>2, <2>3, MoveType DEF StoreGoogleTime
<1>12. ASSUME NEW i \in Issuers, Rotate(i) PROVE TypeOK'
  <2>1. Append(published[i], now) \in Seq(0..MaxTime)
    BY <1>1 DEF TypeOK
  <2>2. published' \in [Issuers -> Seq(0..MaxTime)]
    BY <1>12, <2>1 DEF Rotate, TypeOK
  <2>. QED
    BY <1>12, <2>2 DEF Rotate, TypeOK
<1>13. CASE Tick
  <2>1. now' \in 0..MaxTime
    BY <1>1, <1>13, Constants DEF Tick
  <2>. QED
    BY <1>13, <2>1 DEF Tick, TypeOK
<1>14. CASE UNCHANGED vars
  BY <1>14 DEF vars, TypeOK
<1>. QED
  BY <1>3, <1>4, <1>5, <1>6, <1>7, <1>8, <1>9, <1>10, <1>11, <1>12, <1>13, <1>14
     DEF Next, RequestStep

\* Every variable stays in its range, and the lock is held by the thread that
\* is fetching Supabase's keys, or by nobody: no answer and no failure of the
\* fetch leaves it locked.
THEOREM TypeCorrect == Spec => []TypeOK
BY InitType, NextType, PTL DEF Spec

----------------------------------------------------------------------------
(* The invariant is inductive. *)

\* What a thread's record must satisfy, given the caches.
Sound(record, caches) ==
  /\ record.at <= now
  /\ record.phase \in UnderWay => now <= record.at + MaxFetch
  /\ record.phase \in {"served", "stored"} =>
       AsOf(published[record.source], record.keys, record.at, 0)
  /\ record.phase = "stored" =>
       /\ record.source = "google"
       /\ caches["google"].keys # None
       /\ AsOf(published["google"], caches["google"].keys, record.at, MaxFetch)
  /\ record.phase = "hit" =>
       /\ record.source = "google"
       /\ caches["google"].keys # None
       /\ AsOf(published["google"], caches["google"].keys, record.at + 1, MaxFetch + CacheTTL)

SoundCache(caches) ==
  \A i \in Issuers :
    /\ caches[i].fetched <= now
    /\ caches[i].keys # None =>
         AsOf(published[i], caches[i].keys, caches[i].fetched, Lag(i))

LEMMA InvIsSound ==
  ASSUME Inv
  PROVE  SoundCache(cache) /\ \A q \in Requests : Sound(req[q], cache)
BY DEF Inv, ClockInv, CacheInv, ServedInv, StoredInv, HitInv, SoundCache, Sound

\* A thread moves on at the same time, leaving sound caches behind.
LEMMA MoveInv ==
  ASSUME Inv, TypeOK', NEW q \in Requests, NEW record \in Record, Become(q, record),
         UNCHANGED <<now, published>>, SoundCache(cache'),
         Sound(record, cache'),
         \A p \in Requests : p # q => Sound(req[p], cache')
  PROVE  Inv'
<1>1. \A p \in Requests : req'[p] = record \/ (p # q /\ req'[p] = req[p])
  BY Becomes DEF Inv
<1>2. \A p \in Requests : Sound(req'[p], cache')
  BY <1>1
<1>3. ClockInv'
  BY <1>2 DEF Inv, ClockInv, Sound, SoundCache, Current
<1>4. CacheInv'
  BY DEF CacheInv, SoundCache
<1>5. ServedInv' /\ StoredInv' /\ HitInv'
  BY <1>2 DEF ServedInv, StoredInv, HitInv, Sound
<1>. QED
  BY <1>3, <1>4, <1>5 DEF Inv

\* Threads that wait or are answered carry nothing.
LEMMA WaitingIsSound ==
  ASSUME TypeOK, NEW record, NEW caches, record.at = 0,
         record.phase \notin UnderWay \cup {"hit"}
  PROVE  Sound(record, caches)
BY Fields DEF Sound, UnderWay

\* A freshly found key set is recent enough for the moment it was found at.
LEMMA FreshIsRecent ==
  ASSUME Inv, NEW i \in Issuers, Fresh(i, now)
  PROVE  /\ cache[i].keys # None
         /\ AsOf(published[i], cache[i].keys, now + 1, Lag(i) + CacheTTL)
<1>1. /\ cache[i].keys # None /\ now - cache[i].fetched < CacheTTL
      /\ AsOf(published[i], cache[i].keys, cache[i].fetched, Lag(i))
  BY DEF Fresh, Inv, CacheInv
<1>2. /\ published[i] \in Seq(Nat) /\ cache[i].fetched \in Nat /\ now \in Nat
      /\ Lag(i) \in Nat /\ CacheTTL \in Nat
  BY Fields, Constants DEF Inv, Lag
<1>3. (now + 1) + Lag(i) <= cache[i].fetched + (Lag(i) + CacheTTL)
  BY <1>1, <1>2
<1>4. now + 1 \in Nat /\ Lag(i) + CacheTTL \in Nat
  BY <1>2
<1>. QED
  BY <1>1, <1>2, <1>3, <1>4, AsOfEarlier

LEMMA InitInv == Init => Inv
<1>. SUFFICES ASSUME Init PROVE Inv
  OBVIOUS
<1>1. \A q \in Requests : req[q].phase = "idle" /\ req[q].at = 0
  BY DEF Init, Idle
<1>2. \A i \in Issuers : /\ published[i] = <<0>> /\ cache[i].keys = None
                         /\ cache[i].fetched = 0
  BY DEF Init
<1>3. Len(<<0>>) = 1 /\ <<0>>[1] = 0
  OBVIOUS
<1>4. now \in Nat
  BY Constants DEF Init
<1>5. ClockInv
  BY <1>1, <1>2, <1>3, <1>4 DEF ClockInv, Current, UnderWay
<1>. QED
  BY <1>1, <1>2, <1>5, InitType DEF Inv, CacheInv, ServedInv, StoredInv, HitInv

\* Requests arrive, look at a cache, ask an issuer, are served or fail: no
\* cache changes.
LEMMA ReadInv ==
  ASSUME Inv, TypeOK', NEW q \in Requests,
         \/ Arrive(q) \/ CheckSupabase(q) \/ CheckGoogle(q) \/ ReadGoogleKeys(q)
         \/ Serve(q) \/ FetchRefused(q) \/ FetchFails(q)
  PROVE  Inv'
<1>1. /\ UNCHANGED <<now, published, cache>>
      /\ SoundCache(cache) /\ \A p \in Requests : Sound(req[p], cache)
  BY InvIsSound DEF Arrive, CheckSupabase, CheckGoogle, ReadGoogleKeys, Serve, FetchRefused,
                    FetchFails
<1>2. TypeOK /\ req[q] \in Record /\ now \in Nat /\ MaxFetch \in Nat
  BY Fields, Constants DEF Inv, TypeOK, Record
<1>3. \A keys : Sound(Judged(q, keys), cache) /\ Judged(q, keys) \in Record
  BY <1>2, JudgedType, WaitingIsSound DEF UnderWay
<1>4. Sound(Answered("error"), cache) /\ Answered("error") \in Record
  <2>1. Answered("error") \in Record
    BY IdleType DEF Answers
  <2>2. Answered("error").at = 0 /\ Answered("error").phase = "error"
    BY DEF Answered, Idle
  <2>. QED
    BY <1>2, <2>1, <2>2, WaitingIsSound DEF UnderWay
<1>5. PICK record \in Record : Become(q, record) /\ Sound(record, cache)
  <2>1. CASE Arrive(q)
    BY <1>2, <2>1, ArriveRecord, WaitingIsSound DEF UnderWay
  <2>2. CASE CheckSupabase(q) /\ Fresh("supabase", now)
    BY <1>3, <2>2 DEF CheckSupabase
  <2>3. CASE CheckSupabase(q) /\ ~Fresh("supabase", now)
    <3>. DEFINE new == [req[q] EXCEPT !.phase = "fetching", !.at = now]
    <3>1. new \in Record /\ new.phase = "fetching" /\ new.at = now
      BY <1>2 DEF Record, Waiting, Inv, TypeOK
    <3>2. Become(q, new)
      BY <2>3 DEF CheckSupabase
    <3>. HIDE DEF new
    <3>. QED
      BY <1>2, <3>1, <3>2 DEF Sound
  <2>4. CASE CheckGoogle(q)
    <3>1. PICK phase \in {"hit", "fetching"} :
            /\ Become(q, [req[q] EXCEPT !.at = now, !.phase = phase])
            /\ phase = "hit" => Fresh("google", now)
      BY <2>4 DEF CheckGoogle
    <3>. DEFINE new == [req[q] EXCEPT !.at = now, !.phase = phase]
    <3>2. /\ new \in Record /\ new.phase = phase /\ new.at = now
          /\ new.source = "google"
      BY <1>2, <2>4 DEF CheckGoogle, Record, Waiting, Inv, TypeOK
    <3>3. phase = "hit" =>
            /\ cache["google"].keys # None
            /\ AsOf(published["google"], cache["google"].keys, now + 1, MaxFetch + CacheTTL)
      BY <3>1, FreshIsRecent DEF Issuers, Lag
    <3>4. Become(q, new)
      BY <3>1
    <3>. HIDE DEF new
    <3>. QED
      BY <1>2, <3>2, <3>3, <3>4 DEF Sound
  <2>5. CASE ReadGoogleKeys(q)
    BY <1>3, <2>5 DEF ReadGoogleKeys
  <2>6. CASE Serve(q)
    <3>. DEFINE new == [req[q] EXCEPT !.phase = "served", !.keys = Current(req[q].source)]
    <3>1. /\ req[q].source \in Issuers /\ published[req[q].source] \in Seq(Nat)
          /\ Current(req[q].source) \in Nat /\ Current(req[q].source) # 0
      BY <1>2, Fields DEF Inv, ClockInv, Current
    <3>2. /\ new \in Record /\ new.phase = "served" /\ new.at = req[q].at
          /\ new.source = req[q].source /\ new.keys = Len(published[new.source])
      BY <1>2, <3>1 DEF Record, Waiting, Current
    <3>3. AsOf(published[new.source], new.keys, new.at, 0)
      BY <3>1, <3>2, AsOfNewest DEF Current
    <3>4. Become(q, new)
      BY <2>6 DEF Serve
    <3>5. req[q].at <= now /\ now <= req[q].at + MaxFetch
      BY <1>1, <2>6 DEF Serve, Sound, UnderWay
    <3>. HIDE DEF new
    <3>. QED
      BY <3>2, <3>3, <3>4, <3>5 DEF Sound
  <2>7. CASE FetchRefused(q) \/ FetchFails(q)
    BY <1>3, <1>4, <2>7 DEF FetchRefused, FetchFails
  <2>. QED
    BY <2>1, <2>2, <2>3, <2>4, <2>5, <2>6, <2>7
<1>. QED
  BY <1>1, <1>5, MoveInv

\* The other threads' records, when the cache they look at is the same.
LEMMA SameGoogle ==
  ASSUME NEW record, NEW caches, Sound(record, cache),
         caches["google"].keys = cache["google"].keys
  PROVE  Sound(record, caches)
BY DEF Sound

\* The key set is stored with its stamp, in one piece.
LEMMA StoreSupabaseInv ==
  ASSUME Inv, TypeOK', NEW q \in Requests, StoreSupabase(q)
  PROVE  Inv'
<1>1. TypeOK /\ SoundCache(cache) /\ \A p \in Requests : Sound(req[p], cache)
  BY InvIsSound DEF Inv
<1>2. /\ cache'["google"] = cache["google"]
      /\ cache'["supabase"].keys = req[q].keys /\ cache'["supabase"].fetched = req[q].at
  BY <1>1 DEF StoreSupabase, Stamp, TypeOK, Issuers
<1>3. SoundCache(cache')
  <2>1. /\ req[q].at <= now
        /\ AsOf(published["supabase"], req[q].keys, req[q].at, 0)
    BY <1>1 DEF StoreSupabase, Sound
  <2>2. Lag("supabase") = 0
    BY DEF Lag
  <2>. QED
    BY <1>1, <1>2, <2>1, <2>2 DEF SoundCache, Issuers
<1>4. Judged(q, req[q].keys) \in Record /\ Sound(Judged(q, req[q].keys), cache')
  BY <1>1, JudgedType, WaitingIsSound DEF UnderWay
<1>5. \A p \in Requests : Sound(req[p], cache')
  BY <1>1, <1>2, SameGoogle
<1>. QED
  BY <1>3, <1>4, <1>5, MoveInv DEF StoreSupabase

\* The keys replace others under the stamp of another fetch: their last one was
\* current when this fetch began, and that is at most MaxFetch ago.
LEMMA StoreGoogleKeysInv ==
  ASSUME Inv, TypeOK', NEW q \in Requests, StoreGoogleKeys(q)
  PROVE  Inv'
<1>. DEFINE new == [req[q] EXCEPT !.phase = "stored"]
<1>1. TypeOK /\ SoundCache(cache) /\ \A p \in Requests : Sound(req[p], cache)
  BY InvIsSound DEF Inv
<1>2. /\ cache'["supabase"] = cache["supabase"]
      /\ cache'["google"].keys = req[q].keys
      /\ cache'["google"].fetched = cache["google"].fetched
  BY <1>1 DEF StoreGoogleKeys, TypeOK, Issuers
<1>3. /\ req[q].source = "google" /\ req[q].at <= now /\ now <= req[q].at + MaxFetch
      /\ AsOf(published["google"], req[q].keys, req[q].at, 0)
  BY <1>1 DEF StoreGoogleKeys, Sound, UnderWay
<1>4. /\ published["google"] \in Seq(Nat) /\ req[q].at \in Nat /\ now \in Nat
      /\ MaxFetch \in Nat /\ CacheTTL \in Nat /\ CacheTTL >= 1
      /\ cache["google"].fetched \in Nat
  BY <1>1, Fields, Constants DEF Issuers
<1>5. \A t \in Nat : t <= now => AsOf(published["google"], req[q].keys, t, MaxFetch)
  <2>. SUFFICES ASSUME NEW t \in Nat, t <= now
                PROVE  AsOf(published["google"], req[q].keys, t, MaxFetch)
    OBVIOUS
  <2>1. t + 0 <= req[q].at + MaxFetch
    BY <1>3, <1>4
  <2>. QED
    BY <1>3, <1>4, <2>1, AsOfEarlier
<1>6. \A t \in Nat : t <= now =>
        AsOf(published["google"], req[q].keys, t + 1, MaxFetch + CacheTTL)
  <2>. SUFFICES ASSUME NEW t \in Nat, t <= now
                PROVE  AsOf(published["google"], req[q].keys, t + 1, MaxFetch + CacheTTL)
    OBVIOUS
  <2>1. /\ (t + 1) + MaxFetch <= t + (MaxFetch + CacheTTL)
        /\ t + 1 \in Nat /\ MaxFetch + CacheTTL \in Nat
    BY <1>4
  <2>2. AsOf(published["google"], req[q].keys, t, MaxFetch)
    BY <1>5
  <2>. QED
    BY <1>4, <2>1, <2>2, AsOfEarlier
<1>7. req[q].keys # None
  BY <1>3, <1>4, Constants DEF AsOf
<1>8. SoundCache(cache')
  <2>1. cache["google"].fetched <= now
    BY <1>1 DEF SoundCache, Issuers
  <2>2. Lag("google") = MaxFetch
    BY DEF Lag
  <2>. QED
    BY <1>1, <1>2, <1>4, <1>5, <2>1, <2>2 DEF SoundCache, Issuers
<1>9. /\ new \in Record /\ new.phase = "stored" /\ new.source = req[q].source
      /\ new.at = req[q].at /\ new.keys = req[q].keys
  BY <1>1 DEF TypeOK, Record, Waiting
<1>10. Become(q, new)
  BY DEF StoreGoogleKeys
<1>. HIDE DEF new
<1>11. Sound(new, cache')
  BY <1>2, <1>3, <1>4, <1>5, <1>7, <1>9 DEF Sound
<1>12. \A p \in Requests : Sound(req[p], cache')
  <2>. SUFFICES ASSUME NEW p \in Requests PROVE Sound(req[p], cache')
    OBVIOUS
  <2>1. Sound(req[p], cache) /\ req[p].at \in Nat
    BY <1>1, Fields
  <2>. QED
    BY <1>2, <1>5, <1>6, <1>7, <2>1 DEF Sound
<1>. QED
  BY <1>8, <1>10, <1>11, <1>12, <1>9, MoveInv DEF StoreGoogleKeys

\* The stamp is put on whatever key set is there by now.
LEMMA StoreGoogleTimeInv ==
  ASSUME Inv, TypeOK', NEW q \in Requests, StoreGoogleTime(q)
  PROVE  Inv'
<1>1. TypeOK /\ SoundCache(cache) /\ \A p \in Requests : Sound(req[p], cache)
  BY InvIsSound DEF Inv
<1>2. /\ cache'["supabase"] = cache["supabase"]
      /\ cache'["google"].keys = cache["google"].keys
      /\ cache'["google"].fetched = req[q].at
  BY <1>1 DEF StoreGoogleTime, Stamp, TypeOK, Issuers
<1>3. SoundCache(cache')
  <2>1. /\ req[q].at <= now
        /\ AsOf(published["google"], cache["google"].keys, req[q].at, MaxFetch)
    BY <1>1 DEF StoreGoogleTime, Sound
  <2>2. Lag("google") = MaxFetch
    BY DEF Lag
  <2>. QED
    BY <1>1, <1>2, <2>1, <2>2 DEF SoundCache, Issuers
<1>4. Judged(q, req[q].keys) \in Record /\ Sound(Judged(q, req[q].keys), cache')
  BY <1>1, JudgedType, WaitingIsSound DEF UnderWay
<1>5. \A p \in Requests : Sound(req[p], cache')
  BY <1>1, <1>2, SameGoogle
<1>. QED
  BY <1>3, <1>4, <1>5, MoveInv DEF StoreGoogleTime

\* A key published now replaces none before now.
LEMMA RotateInv ==
  ASSUME Inv, TypeOK', NEW i \in Issuers, Rotate(i)
  PROVE  Inv'
<1>1. /\ TypeOK /\ UNCHANGED <<now, cache, req>>
      /\ \A j \in Issuers : \/ published'[j] = published[j]
                            \/ published'[j] = Append(published[j], now)
  BY DEF Rotate, Inv, TypeOK
<1>2. now \in Nat /\ MaxFetch \in Nat /\ CacheTTL \in Nat /\ CacheTTL >= 1
  BY <1>1, Fields, Constants
<1>3. ASSUME NEW j \in Issuers, NEW k, NEW t \in Nat, NEW slack \in Nat,
             AsOf(published[j], k, t, slack), t <= now + slack
      PROVE  AsOf(published'[j], k, t, slack)
  <2>1. published[j] \in Seq(Nat)
    BY <1>1, Fields
  <2>. QED
    BY <1>1, <1>2, <1>3, <2>1, AsOfAppend
<1>4. \A q \in Requests : /\ req[q].at \in Nat /\ req[q].at <= now
                          /\ req[q].source \in Issuers
  BY <1>1, Fields DEF Inv, ClockInv
<1>5. ClockInv'
  <2>1. ASSUME NEW j \in Issuers
        PROVE  /\ \A k \in 1..Current(j)' : published'[j][k] <= now
               /\ \A k, l \in 1..Current(j)' : k <= l => published'[j][k] <= published'[j][l]
               /\ Current(j)' # 0
    <3>. DEFINE p == published[j]
                m == Len(published[j])
    <3>1. /\ p \in Seq(Nat) /\ m \in Nat /\ m # 0
          /\ \A k \in 1..m : p[k] <= now /\ p[k] \in Nat
          /\ \A k, l \in 1..m : k <= l => p[k] <= p[l]
      BY <1>1, Fields DEF Inv, ClockInv, Current
    <3>2. CASE published'[j] = published[j]
      BY <3>1, <3>2 DEF Current
    <3>3. CASE published'[j] = Append(published[j], now)
      <4>1. /\ Len(published'[j]) = m + 1 /\ published'[j][m + 1] = now
            /\ \A k \in 1..m : published'[j][k] = p[k]
        BY <3>1, <3>3
      <4>. HIDE DEF p, m
      <4>2. \A k \in 1..(m + 1) : k \in 1..m \/ k = m + 1
        BY <3>1
      <4>. QED
        BY <1>2, <3>1, <4>1, <4>2 DEF Current
    <3>. QED
      BY <1>1, <3>2, <3>3
  <2>. QED
    BY <1>1, <2>1 DEF Inv, ClockInv
<1>6. CacheInv'
  <2>. SUFFICES ASSUME NEW j \in Issuers, cache[j].keys # None
                PROVE  AsOf(published'[j], cache[j].keys, cache[j].fetched, Lag(j))
    BY <1>1 DEF CacheInv
  <2>1. /\ AsOf(published[j], cache[j].keys, cache[j].fetched, Lag(j))
        /\ cache[j].fetched \in Nat /\ Lag(j) \in Nat /\ cache[j].fetched <= now
    BY <1>1, <1>2, Fields DEF Inv, CacheInv, ClockInv, Lag
  <2>2. cache[j].fetched <= now + Lag(j)
    BY <1>2, <2>1
  <2>. QED
    BY <1>3, <2>1, <2>2
<1>7. ServedInv'
  <2>. SUFFICES ASSUME NEW q \in Requests, req[q].phase \in {"served", "stored"}
                PROVE  AsOf(published'[req[q].source], req[q].keys, req[q].at, 0)
    BY <1>1 DEF ServedInv
  <2>1. AsOf(published[req[q].source], req[q].keys, req[q].at, 0) /\ req[q].at <= now + 0
    BY <1>2, <1>4 DEF Inv, ServedInv
  <2>. QED
    BY <1>3, <1>4, <2>1
<1>8. StoredInv'
  <2>. SUFFICES ASSUME NEW q \in Requests, req[q].phase = "stored"
                PROVE  AsOf(published'["google"], cache["google"].keys, req[q].at, MaxFetch)
    BY <1>1 DEF Inv, StoredInv
  <2>1. /\ AsOf(published["google"], cache["google"].keys, req[q].at, MaxFetch)
        /\ req[q].at <= now + MaxFetch /\ "google" \in Issuers
    BY <1>2, <1>4 DEF Inv, StoredInv, Issuers
  <2>. QED
    BY <1>2, <1>3, <1>4, <2>1
<1>9. HitInv'
  <2>. SUFFICES ASSUME NEW q \in Requests, req[q].phase = "hit"
                PROVE  AsOf(published'["google"], cache["google"].keys, req[q].at + 1,
                            MaxFetch + CacheTTL)
    BY <1>1 DEF Inv, HitInv
  <2>1. /\ AsOf(published["google"], cache["google"].keys, req[q].at + 1, MaxFetch + CacheTTL)
        /\ req[q].at + 1 <= now + (MaxFetch + CacheTTL) /\ "google" \in Issuers
        /\ req[q].at + 1 \in Nat /\ MaxFetch + CacheTTL \in Nat
    BY <1>2, <1>4 DEF Inv, HitInv, Issuers
  <2>. QED
    BY <1>3, <2>1
<1>. QED
  BY <1>5, <1>6, <1>7, <1>8, <1>9 DEF Inv

LEMMA TickInv ==
  ASSUME Inv, TypeOK', Tick
  PROVE  Inv'
<1>1. UNCHANGED <<published, cache, lock, req>> /\ now' = now + 1
  BY DEF Tick
<1>2. ClockInv'
  <2>1. /\ now \in Nat /\ MaxFetch \in Nat
        /\ \A i \in Issuers : /\ cache[i].fetched \in Nat
                              /\ \A j \in 1..Current(i) : published[i][j] \in Nat
        /\ \A q \in Requests : req[q].at \in Nat
    BY Fields, Constants DEF Inv, Current
  <2>2. \A q \in Requests : req[q].phase \in UnderWay => now + 1 <= req[q].at + MaxFetch
    BY <2>1 DEF Tick, UnderWay
  <2>3. /\ \A i \in Issuers : /\ \A j \in 1..Current(i) : published[i][j] <= now + 1
                              /\ cache[i].fetched <= now + 1
        /\ \A q \in Requests : req[q].at <= now + 1
    BY <2>1 DEF Inv, ClockInv
  <2>. QED
    BY <1>1, <2>2, <2>3 DEF Inv, ClockInv, Current
<1>. QED
  BY <1>1, <1>2 DEF Inv, CacheInv, ServedInv, StoredInv, HitInv

LEMMA NextInv == Inv /\ [Next]_vars => Inv'
<1>. SUFFICES ASSUME Inv, [Next]_vars PROVE Inv'
  OBVIOUS
<1>1. TypeOK'
  BY NextType DEF Inv
<1>2. CASE UNCHANGED vars
  BY <1>2 DEF vars, Inv, TypeOK, ClockInv, CacheInv, ServedInv, StoredInv, HitInv, Current
<1>. QED
  BY <1>1, <1>2, ReadInv, StoreSupabaseInv, StoreGoogleKeysInv, StoreGoogleTimeInv, RotateInv,
     TickInv DEF Next, RequestStep

\* The invariant holds in every reachable state.
THEOREM Invariant == Spec => []Inv
BY InitInv, NextInv, PTL DEF Spec

----------------------------------------------------------------------------
(* What the invariant means for the answers. *)

\* A decision by a key set compares it with the token's key, and only the key
\* set of the token's own issuer decides.
LEMMA JudgedDecides ==
  ASSUME TypeOK, NEW q \in Requests, NEW keys, Become(q, Judged(q, keys)),
         req'[q].phase \in {"accepted", "refused"}
  PROVE  /\ req[q].issuer = req[q].source
         /\ req'[q].phase = IF keys = req[q].key THEN "accepted" ELSE "refused"
<1>1. req'[q] = Judged(q, keys) /\ req[q] \in Record
  BY DEF Become, TypeOK, Record
<1>2. CASE req[q].issuer # req[q].source
  <2>1. Judged(q, keys).phase = "waiting"
    BY <1>1, <1>2 DEF Judged, Record
  <2>. QED
    BY <1>1, <2>1
<1>3. CASE req[q].issuer = req[q].source
  BY <1>1, <1>3 DEF Judged, Answered, Idle
<1>. QED
  BY <1>2, <1>3

\* A step that decides a request has failed to fetch the keys, or has compared
\* the token's key with one that was current until a lifetime ago, or later.
LEMMA Decision ==
  ASSUME Inv, Next, NEW q \in Requests, req[q].phase \in Waiting,
         req'[q].phase \in {"accepted", "refused"}
  PROVE  \/ req[q].phase = "fetching" /\ req'[q].phase = "refused"
         \/ \E keys :
              /\ AsOf(published[req[q].issuer], keys, DecidedAt(q) + 1, Slack(q) + CacheTTL)
              /\ req'[q].phase = IF keys = req[q].key THEN "accepted" ELSE "refused"
<1>1. /\ TypeOK /\ req[q] \in Record /\ req[q].key \in Nat /\ req[q].at \in Nat
      /\ now \in Nat /\ MaxFetch \in Nat /\ CacheTTL \in Nat /\ CacheTTL >= 1
      /\ published["google"] \in Seq(Nat) /\ published["supabase"] \in Seq(Nat)
  BY Fields, Constants DEF Inv, TypeOK, Record, Issuers
<1>2. \A p \in Requests : \A record : Become(p, record) /\ p # q => req'[q] = req[q]
  BY <1>1 DEF Become, TypeOK
<1>3. \A record : Become(q, record) => req'[q] = record
  BY <1>1 DEF Become, TypeOK
<1>4. req[q].phase \notin {"accepted", "refused"}
  BY DEF Waiting
<1>5. RequestStep(q)
  <2>1. PICK p \in Requests : Arrive(p) \/ RequestStep(p)
    BY <1>4 DEF Next, Rotate, Tick
  <2>2. \E record : Become(p, record)
    BY <2>1 DEF Arrive, RequestStep, CheckSupabase, CheckGoogle, ReadGoogleKeys, Serve,
       FetchRefused, FetchFails, StoreSupabase, StoreGoogleKeys, StoreGoogleTime
  <2>3. p = q
    BY <1>2, <1>4, <2>2
  <2>. QED
    BY <2>1, <2>3 DEF Arrive
\* Enough is a recent key set of the source.
<1>6. ASSUME NEW keys, Become(q, Judged(q, keys)),
             AsOf(published[req[q].source], keys, DecidedAt(q) + 1, Lag(req[q].source) + CacheTTL)
      PROVE  \E ks :
               /\ AsOf(published[req[q].issuer], ks, DecidedAt(q) + 1, Slack(q) + CacheTTL)
               /\ req'[q].phase = IF ks = req[q].key THEN "accepted" ELSE "refused"
  BY <1>1, <1>6, JudgedDecides DEF Lag, Slack
<1>7. CASE CheckSupabase(q)
  <2>1. CASE Fresh("supabase", now)
    BY <1>6, <1>7, <2>1, FreshIsRecent DEF Inv, CheckSupabase, DecidedAt, Issuers
  <2>2. CASE ~Fresh("supabase", now)
    <3>1. Become(q, [req[q] EXCEPT !.phase = "fetching", !.at = now])
      BY <1>7, <2>2 DEF CheckSupabase
    <3>2. req'[q].phase = "fetching"
      BY <1>1, <1>3, <3>1 DEF Record
    <3>. QED
      BY <3>2
  <2>. QED
    BY <2>1, <2>2
<1>8. CASE CheckGoogle(q)
  <2>1. PICK phase \in {"hit", "fetching"} :
          Become(q, [req[q] EXCEPT !.at = now, !.phase = phase])
    BY <1>8 DEF CheckGoogle
  <2>2. req'[q].phase = phase
    BY <1>1, <1>3, <2>1 DEF Record
  <2>. QED
    BY <2>1, <2>2
<1>9. CASE ReadGoogleKeys(q)
  <2>1. /\ req[q].source = "google" /\ DecidedAt(q) = req[q].at
        /\ AsOf(published["google"], cache["google"].keys, req[q].at + 1, MaxFetch + CacheTTL)
    BY <1>9 DEF Inv, HitInv, ReadGoogleKeys, DecidedAt
  <2>. QED
    BY <1>6, <1>9, <2>1 DEF ReadGoogleKeys, Lag
<1>10. CASE Serve(q) \/ StoreGoogleKeys(q)
  <2>1. req'[q].phase \in {"served", "stored"}
    <3>1. CASE Serve(q)
      <4>1. req'[q] = [req[q] EXCEPT !.phase = "served", !.keys = Current(req[q].source)]
        BY <1>3, <3>1 DEF Serve
      <4>. QED
        BY <1>1, <4>1 DEF Record
    <3>2. CASE StoreGoogleKeys(q)
      <4>1. req'[q] = [req[q] EXCEPT !.phase = "stored"]
        BY <1>3, <3>2 DEF StoreGoogleKeys
      <4>. QED
        BY <1>1, <4>1 DEF Record
    <3>. QED
      BY <1>10, <3>1, <3>2
  <2>. QED
    BY <2>1
<1>11. CASE FetchRefused(q)
  <2>1. req[q].key # None
    BY <1>1, Constants
  <2>. QED
    BY <1>1, <1>11, <2>1, JudgedDecides DEF FetchRefused
<1>12. CASE FetchFails(q)
  <2>1. req'[q].phase = "error"
    BY <1>3, <1>12 DEF FetchFails, Answered, Idle
  <2>. QED
    BY <2>1
<1>13. CASE StoreSupabase(q) \/ StoreGoogleTime(q)
  <2>1. /\ req[q].source \in Issuers /\ published[req[q].source] \in Seq(Nat)
        /\ DecidedAt(q) = req[q].at
        /\ AsOf(published[req[q].source], req[q].keys, req[q].at, 0)
    BY <1>1, <1>13, Fields DEF Inv, ServedInv, StoreSupabase, StoreGoogleTime, DecidedAt
  <2>2. /\ Lag(req[q].source) \in Nat /\ Lag(req[q].source) + CacheTTL \in Nat
        /\ (req[q].at + 1) + 0 <= req[q].at + (Lag(req[q].source) + CacheTTL)
        /\ req[q].at + 1 \in Nat
    BY <1>1 DEF Lag
  <2>3. AsOf(published[req[q].source], req[q].keys, req[q].at + 1,
             Lag(req[q].source) + CacheTTL)
    BY <1>1, <2>1, <2>2, AsOfEarlier
  <2>. QED
    BY <1>6, <1>13, <2>1, <2>3 DEF StoreSupabase, StoreGoogleTime
<1>. QED
  BY <1>5, <1>7, <1>8, <1>9, <1>10, <1>11, <1>12, <1>13 DEF RequestStep

\* The times of the keys of one issuer, for the arithmetic below.
LEMMA KeyTimes ==
  ASSUME Inv, NEW q \in Requests
  PROVE  /\ Current(req[q].issuer) \in Nat /\ DecidedAt(q) \in Nat /\ Slack(q) \in Nat
         /\ CacheTTL \in Nat /\ req[q].key \in Nat
         /\ \A j \in 1..Current(req[q].issuer) : published[req[q].issuer][j] \in Nat
         /\ \A j, k \in 1..Current(req[q].issuer) :
              j <= k => published[req[q].issuer][j] <= published[req[q].issuer][k]
BY Fields, Constants DEF Inv, ClockInv, Current, DecidedAt, Slack

\* A key that an issuer withdrew is accepted for a lifetime at most, and for a
\* fetch longer from the cache that is written without a lock.
THEOREM WithdrawnKeysExpire == Spec => AcceptedKeyIsRecent
<1>1. ASSUME Inv, Next, NEW q \in Requests, Decides(q, "accepted")
      PROVE  \/ req[q].key = Current(req[q].issuer)
             \/ published[req[q].issuer][req[q].key + 1] + CacheTTL + Slack(q) > DecidedAt(q)
  <2>1. AsOf(published[req[q].issuer], req[q].key, DecidedAt(q) + 1, Slack(q) + CacheTTL)
    BY <1>1, Decision DEF Decides
  <2>2. CASE req[q].key = Current(req[q].issuer)
    BY <2>2
  <2>3. CASE req[q].key # Current(req[q].issuer)
    <3>1. /\ req[q].key + 1 \in 1..Current(req[q].issuer)
          /\ published[req[q].issuer][req[q].key + 1] + (Slack(q) + CacheTTL)
               >= DecidedAt(q) + 1
      BY <1>1, <2>1, <2>3, KeyTimes DEF AsOf, Current
    <3>2. published[req[q].issuer][req[q].key + 1] \in Nat
      BY <1>1, <3>1, KeyTimes
    <3>. QED
      BY <1>1, <3>1, <3>2, KeyTimes
  <2>. QED
    BY <2>2, <2>3
<1>2. ASSUME NEW q \in Requests, UNCHANGED vars
      PROVE  ~Decides(q, "accepted")
  BY <1>2 DEF vars, Decides, Waiting
<1>3. Inv /\ [Next]_vars =>
        [\A q \in Requests : Decides(q, "accepted") =>
           \/ req[q].key = Current(req[q].issuer)
           \/ published[req[q].issuer][req[q].key + 1] + CacheTTL + Slack(q)
                > DecidedAt(q)]_vars
  BY <1>1, <1>2
<1>. QED
  BY <1>3, Invariant, PTL DEF Spec, AcceptedKeyIsRecent

\* A key that has been current for a lifetime is refused only to a request
\* whose own fetch was answered with an error.
THEOREM CurrentKeysWork == Spec => CurrentKeyIsAccepted
<1>1. ASSUME Inv, Next, NEW q \in Requests, Decides(q, "refused"),
             req[q].key = Current(req[q].issuer), req[q].phase # "fetching"
      PROVE  published[req[q].issuer][req[q].key] + CacheTTL + Slack(q) > DecidedAt(q)
  <2>1. PICK keys :
          /\ AsOf(published[req[q].issuer], keys, DecidedAt(q) + 1, Slack(q) + CacheTTL)
          /\ req'[q].phase = IF keys = req[q].key THEN "accepted" ELSE "refused"
    BY <1>1, Decision DEF Decides
  <2>2. keys # req[q].key
    BY <1>1, <2>1 DEF Decides
  <2>3. /\ keys \in 1..Current(req[q].issuer) /\ keys < Current(req[q].issuer)
        /\ published[req[q].issuer][keys + 1] + (Slack(q) + CacheTTL) >= DecidedAt(q) + 1
    BY <1>1, <2>1, <2>2, KeyTimes DEF AsOf, Current
  <2>4. published[req[q].issuer][keys + 1] <= published[req[q].issuer][req[q].key]
    <3>1. /\ keys + 1 \in 1..Current(req[q].issuer)
          /\ req[q].key \in 1..Current(req[q].issuer) /\ keys + 1 <= req[q].key
      BY <1>1, <2>3, KeyTimes
    <3>. QED
      BY <1>1, <3>1, KeyTimes
  <2>5. /\ published[req[q].issuer][keys + 1] \in Nat
        /\ published[req[q].issuer][req[q].key] \in Nat
    <3>1. keys + 1 \in 1..Current(req[q].issuer) /\ req[q].key \in 1..Current(req[q].issuer)
      BY <1>1, <2>3, KeyTimes
    <3>. QED
      BY <1>1, <3>1, KeyTimes
  <2>. QED
    BY <1>1, <2>3, <2>4, <2>5, KeyTimes
<1>2. ASSUME NEW q \in Requests, UNCHANGED vars
      PROVE  ~Decides(q, "refused")
  BY <1>2 DEF vars, Decides, Waiting
<1>3. Inv /\ [Next]_vars =>
        [\A q \in Requests : Decides(q, "refused") /\ req[q].key = Current(req[q].issuer) =>
           \/ req[q].phase = "fetching"
           \/ published[req[q].issuer][req[q].key] + CacheTTL + Slack(q)
                > DecidedAt(q)]_vars
  BY <1>1, <1>2
<1>. QED
  BY <1>3, Invariant, PTL DEF Spec, CurrentKeyIsAccepted

=============================================================================
