-------------------------- MODULE DeviceRepository --------------------------
(***************************************************************************)
(* The durable enrolment table behind the Android device broker            *)
(* (src/android_device_repository.py) and the HTTP client that writes it.  *)
(*                                                                         *)
(* A write is one PostgREST request with an eight second timeout.  The     *)
(* client turns a timeout, a transport error and a non-2xx answer into the *)
(* same DeviceRepositoryError, so a caller that sees the error cannot tell *)
(* whether the table changed.  Four outcomes are possible:                 *)
(*   "stored"    the write took effect and the caller was told so          *)
(*   "rejected"  the write had no effect and the caller got the error      *)
(*   "unacked"   the write took effect but the caller got the error        *)
(*   "late"      the caller got the error, and the table performs the      *)
(*               write at some later moment (or never)                     *)
(* WriteOutcomes chooses which of them an instance admits.                 *)
(***************************************************************************)
EXTENDS Naturals

CONSTANTS
  Owners,         \* signed-in accounts
  Devices,        \* device ids (fresh UUIDs) that registrations may draw
  Pairings,       \* pairing ids (fresh UUIDs)
  None,           \* "no owner", "no pairing"
  WriteOutcomes   \* the outcomes a repository write may have

ASSUME OutcomesAssumption ==
  WriteOutcomes \subseteq {"stored", "rejected", "unacked", "late"}

ASSUME NoneAssumption == None \notin Owners \cup Devices \cup Pairings

VARIABLES
  rows,   \* the table: one DurableDeviceRecord per device id
  late    \* writes reported as failed that the table has yet to perform

(***************************************************************************)
(* A row keeps the columns the properties tell apart: revoked_at as a      *)
(* status, the owner, the high-water mark of accepted sequence numbers,    *)
(* and (bookkeeping, not a column) the pairing the device came from.       *)
(***************************************************************************)
Row == [status : {"absent", "active", "revoked"},
        owner : Owners \cup {None},
        pairing : Pairings \cup {None},
        lastSequence : Nat]

AbsentRow ==
  [status |-> "absent", owner |-> None, pairing |-> None, lastSequence |-> 0]

Write ==
  [kind : {"save"}, device : Devices, row : Row]
    \cup [kind : {"revoke_active"}, owner : Owners, pairing : Pairings]
    \cup [kind : {"advance"}, device : Devices, sequence : Nat]

----------------------------------------------------------------------------
(* The effect of each write on the table. *)

\* save: an upsert of the whole row.
Saved(d, row) == [rows EXCEPT ![d] = row]

\* A wrong variant without the owner filter.
EveryoneRevoked(o) ==
  [d \in Devices |-> IF rows[d].status = "active"
                     THEN [rows[d] EXCEPT !.status = "revoked"] ELSE rows[d]]

\* revoke_active_for_owner: PATCH filtered by owner and revoked_at is null.
ActiveRevoked(o) ==
  [d \in Devices |->
     IF rows[d].status = "active" /\ rows[d].owner = o
     THEN [rows[d] EXCEPT !.status = "revoked"]
     ELSE rows[d]]

\* Wrong variant: the filter does not compare the numbers.
AdvanceMatchesStale(d, s) == rows[d].status = "active"

\* advance_sequence: PATCH filtered by revoked_at is null and last_sequence < s.
AdvanceMatches(d, s) == rows[d].status = "active" /\ s > rows[d].lastSequence

\* Wrong variant: the number is not stored.
SequenceNotStored(d, s) == rows

SequenceAdvanced(d, s) ==
  IF AdvanceMatches(d, s) THEN [rows EXCEPT ![d].lastSequence = s] ELSE rows

Performed(w) ==
  CASE w.kind = "save"          -> Saved(w.device, w.row)
    [] w.kind = "revoke_active" -> ActiveRevoked(w.owner)
    [] w.kind = "advance"       -> SequenceAdvanced(w.device, w.sequence)

----------------------------------------------------------------------------
\* _request: one write and the way it ends.
Request(w, outcome) ==
  /\ rows' = IF outcome \in {"stored", "unacked"} THEN Performed(w) ELSE rows
  /\ late' = IF outcome = "late" THEN late \cup {w} ELSE late

\* The table performs a write whose caller has already been given the error.
LateWrite(w) ==
  /\ w \in late
  /\ rows' = Performed(w)
  /\ late' = late \ {w}

RepositoryInit ==
  /\ rows = [d \in Devices |-> AbsentRow]
  /\ late = {}

RepositoryTypeOK ==
  /\ rows \in [Devices -> Row]
  /\ late \subseteq Write

Active(d) == rows[d].status = "active"

=============================================================================
