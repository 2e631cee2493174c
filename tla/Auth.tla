-------------------------------- MODULE Auth --------------------------------
(***************************************************************************)
(* Who may call: bearer tokens checked against the key sets two issuers    *)
(* publish, cached for an hour (src/auth.py, src/auth_google.py).  Every   *)
(* token is tried as Supabase's first, under the lock of that cache, which *)
(* is held across the request for the keys; a token that does not claim    *)
(* Supabase's role then goes to Google's check, whose cache has no lock.   *)
(*                                                                         *)
(* Signatures, audiences and expiry are abstracted: a token is good if it  *)
(* names a key of the key set found.  An issuer publishes one key at a     *)
(* time, numbered by rotation.                                             *)
(***************************************************************************)
EXTENDS Naturals, Sequences

CONSTANTS
  Requests,      \* request threads
  None,          \* "no key set", "no holder"
  CacheTTL,      \* CACHE_TTL_SECONDS
  MaxFetch,      \* how long a request for the keys can take
  MaxTime,       \* bound on the clock
  MaxKeys        \* bound on the keys the issuers publish, together

ASSUME AuthAssumption ==
  /\ None \notin Requests \cup Nat
  /\ MaxTime \in Nat /\ CacheTTL \in 1..MaxTime
  /\ MaxFetch \in Nat /\ MaxKeys \in Nat

VARIABLES
  now,         \* the clock
  published,   \* per issuer, when each of its keys was published, in order
  cache,       \* _jwks_cache of either module
  lock,        \* who holds auth.py's _cache_lock
  req          \* each request thread's progress

vars == <<now, published, cache, lock, req>>

Issuers == {"supabase", "google"}

Current(i) == Len(published[i])

Waiting == {"waiting", "hit", "fetching", "served", "stored"}
Answers == {"accepted", "refused", "error"}

\* "issuer" and "key" are the token's; "source" is the key set in use.
Idle == [phase |-> "idle", source |-> "supabase", issuer |-> "supabase", key |-> 0,
         at |-> 0, keys |-> None]

Answered(answer) == [Idle EXCEPT !.phase = answer]

Become(q, record) == req' = [req EXCEPT ![q] = record]

\* The caches are stamped 0, which is long ago.
Init ==
  /\ now = CacheTTL
  /\ published = [i \in Issuers |-> <<0>>]
  /\ cache = [i \in Issuers |-> [keys |-> None, fetched |-> 0]]
  /\ lock = None
  /\ req = [q \in Requests |-> Idle]

----------------------------------------------------------------------------
\* A thread's next request.  Its token is signed with a key its issuer has
\* published.
Arrive(q) ==
  /\ req[q].phase \notin Waiting
  /\ \E i \in Issuers : \E key \in 1..Current(i) :
       Become(q, [Idle EXCEPT !.phase = "waiting", !.issuer = i, !.key = key])
  /\ UNCHANGED <<now, published, cache, lock>>

\* get_auth_header_claims, once the key set of the source is known (None: its
\* endpoint answered an error).  Google's check follows Supabase's unless the
\* token claims Supabase's role.
Judged(q, keys) ==
  IF req[q].issuer # req[q].source
  THEN [req[q] EXCEPT !.phase = "waiting", !.source = "google", !.at = 0, !.keys = None]
  ELSE Answered(IF keys = req[q].key THEN "accepted" ELSE "refused")

\* Wrong variant: a key set is kept a moment too long.
FreshAtTTL(i, at) == cache[i].keys # None /\ at - cache[i].fetched <= CacheTTL

Fresh(i, at) == cache[i].keys # None /\ at - cache[i].fetched < CacheTTL

\* _fetch_jwks takes the lock and reads the clock; on a miss it keeps the
\* lock and asks the issuer.
CheckSupabase(q) ==
  /\ req[q].phase = "waiting" /\ req[q].source = "supabase"
  /\ lock = None
  /\ IF Fresh("supabase", now)
     THEN Become(q, Judged(q, cache["supabase"].keys)) /\ UNCHANGED lock
     ELSE Become(q, [req[q] EXCEPT !.phase = "fetching", !.at = now]) /\ lock' = q
  /\ UNCHANGED <<now, published, cache>>

\* _fetch_google_jwks does the same without a lock, and a hit reads the keys
\* after it read their time.
CheckGoogle(q) ==
  /\ req[q].phase = "waiting" /\ req[q].source = "google"
  /\ Become(q, [req[q] EXCEPT !.at = now,
                  !.phase = IF Fresh("google", now) THEN "hit" ELSE "fetching"])
  /\ UNCHANGED <<now, published, cache, lock>>

ReadGoogleKeys(q) ==
  /\ req[q].phase = "hit"
  /\ Become(q, Judged(q, cache["google"].keys))
  /\ UNCHANGED <<now, published, cache, lock>>

----------------------------------------------------------------------------
(* The request to the issuer of the source. *)

\* It is served the keys of that moment ...
Serve(q) ==
  /\ req[q].phase = "fetching"
  /\ Become(q, [req[q] EXCEPT !.phase = "served", !.keys = Current(req[q].source)])
  /\ UNCHANGED <<now, published, cache, lock>>

\* Wrong variant: the lock is released by return only.
KeptOnFailure(q) == IF lock = q /\ req[q].phase = "served" THEN None ELSE lock

\* Leaving the "with" block releases the lock, by return or by exception.
Released(q) == IF lock = q THEN None ELSE lock

\* ... or is answered an HTTP error, which _get_public_key catches ...
FetchRefused(q) ==
  /\ req[q].phase = "fetching"
  /\ Become(q, Judged(q, None))
  /\ lock' = Released(q)
  /\ UNCHANGED <<now, published, cache>>

\* ... or fails otherwise (no connection, a timeout, an answer that is not
\* JSON), which nobody catches: the caller gets a server error.
FetchFails(q) ==
  /\ req[q].phase = "fetching"
  /\ Become(q, Answered("error"))
  /\ lock' = Released(q)
  /\ UNCHANGED <<now, published, cache>>

\* Wrong variant: the key set is stamped with the time of its arrival.
StampedNow(q) == now

\* The key set is stamped with the clock read before the request.
Stamp(q) == req[q].at

StoreSupabase(q) ==
  /\ req[q].phase = "served" /\ req[q].source = "supabase"
  /\ cache' = [cache EXCEPT !["supabase"] = [keys |-> req[q].keys, fetched |-> Stamp(q)]]
  /\ Become(q, Judged(q, req[q].keys))
  /\ lock' = Released(q)
  /\ UNCHANGED <<now, published>>

\* Without a lock the two assignments can be torn apart; the thread goes on
\* with the keys it was served.
StoreGoogleKeys(q) ==
  /\ req[q].phase = "served" /\ req[q].source = "google"
  /\ cache' = [cache EXCEPT !["google"].keys = req[q].keys]
  /\ Become(q, [req[q] EXCEPT !.phase = "stored"])
  /\ UNCHANGED <<now, published, lock>>

StoreGoogleTime(q) ==
  /\ req[q].phase = "stored"
  /\ cache' = [cache EXCEPT !["google"].fetched = Stamp(q)]
  /\ Become(q, Judged(q, req[q].keys))
  /\ UNCHANGED <<now, published, lock>>

----------------------------------------------------------------------------
Rotate(i) ==
  /\ Current("supabase") + Current("google") < MaxKeys
  /\ published' = [published EXCEPT ![i] = Append(@, now)]
  /\ UNCHANGED <<now, cache, lock, req>>

\* A fetch, and the two assignments after it, take at most MaxFetch.
Tick ==
  /\ now < MaxTime
  /\ \A q \in Requests : req[q].phase \in {"fetching", "served", "stored"}
                           => now < req[q].at + MaxFetch
  /\ now' = now + 1
  /\ UNCHANGED <<published, cache, lock, req>>

RequestStep(q) ==
  \/ CheckSupabase(q) \/ CheckGoogle(q) \/ ReadGoogleKeys(q)
  \/ Serve(q) \/ FetchRefused(q) \/ FetchFails(q)
  \/ StoreSupabase(q) \/ StoreGoogleKeys(q) \/ StoreGoogleTime(q)

Next ==
  \/ \E q \in Requests : Arrive(q) \/ RequestStep(q)
  \/ \E i \in Issuers : Rotate(i)
  \/ Tick

Spec == Init /\ [][Next]_vars

(* Every thread that can runs on, and a request to an issuer ends           *)
(* (timeout=15 for each operation on its socket).  A threading.Lock is not  *)
(* fair: which of the waiting threads gets it is left open.                 *)
Fairness == \A q \in Requests : WF_vars(RequestStep(q))

FairSpec == Spec /\ Fairness

----------------------------------------------------------------------------
(* Every variable stays in its range, and the lock is held by a request     *)
(* that is fetching Supabase's keys, or by nobody.                          *)
TypeOK ==
  /\ now \in 0..MaxTime
  /\ published \in [Issuers -> Seq(0..MaxTime)]
  /\ cache \in [Issuers -> [keys : Nat \cup {None}, fetched : 0..MaxTime]]
  /\ req \in [Requests -> [phase : {"idle"} \cup Waiting \cup Answers, source : Issuers,
                           issuer : Issuers, key : Nat, at : 0..MaxTime,
                           keys : Nat \cup {None}]]
  /\ \A q \in Requests :
       lock = q <=> req[q].phase \in {"fetching", "served"} /\ req[q].source = "supabase"

(* What the clock said when the key set that decides q was found fresh, or  *)
(* before it was asked for.                                                 *)
DecidedAt(q) == IF req[q].phase = "waiting" THEN now ELSE req[q].at

(* How much older than CacheTTL a key set can be: Google's, stored by two   *)
(* threads at once, may carry the time of the later one.                    *)
Slack(q) == IF req[q].issuer = "google" THEN MaxFetch ELSE 0

Decides(q, answer) == req[q].phase \in Waiting /\ req'[q].phase = answer

(* An accepted token names a key that its issuer still published less than  *)
(* CacheTTL before the check: a withdrawn key stops being accepted, through *)
(* concurrent refreshes and torn writes of the cache.                       *)
AcceptedKeyIsRecent ==
  [][\A q \in Requests : Decides(q, "accepted") =>
       \/ req[q].key = Current(req[q].issuer)
       \/ published[req[q].issuer][req[q].key + 1] + CacheTTL + Slack(q) > DecidedAt(q)]_vars

(* A token signed with the current key, published for CacheTTL or longer,   *)
(* is refused only because its own issuer answered this request's fetch     *)
(* with an error: no older answer, no other thread and no failure of the    *)
(* other issuer's endpoint has it refused.                                  *)
CurrentKeyIsAccepted ==
  [][\A q \in Requests : Decides(q, "refused") /\ req[q].key = Current(req[q].issuer) =>
       \/ req[q].phase = "fetching"
       \/ published[req[q].issuer][req[q].key] + CacheTTL + Slack(q) > DecidedAt(q)]_vars

(* A request is answered, unless another thread takes the lock ahead of it  *)
(* again and again for ever: no fetch, however it ends, leaves the others   *)
(* locked out.                                                              *)
AnsweredOrOvertaken ==
  \A q \in Requests :
    \/ req[q].phase = "waiting" ~> req[q].phase \in Answers
    \/ \E s \in Requests \ {q} : []<>(lock = s) /\ []<>(lock # s)

----------------------------------------------------------------------------
(* What the comment in _get_public_key says and the code does not keep: if  *)
(* the endpoint is unreachable ("network failure") the token is refused     *)
(* with 401 "rather than a 500 error".                                      *)
UnreachableIsRefused ==
  [][\A q \in Requests : req[q].source = "supabase" => ~Decides(q, "error")]_vars

=============================================================================
