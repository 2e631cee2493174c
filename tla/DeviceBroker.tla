---------------------------- MODULE DeviceBroker ----------------------------
(***************************************************************************)
(* AndroidDeviceBroker (src/android_device_broker.py): owner-scoped        *)
(* pairing, enrolment, revocation and the acceptance of signed device      *)
(* messages.  Pairings, the code index and the used nonces live in the     *)
(* process and vanish when it restarts; the device rows are durable.       *)
(*                                                                         *)
(* Request threads interleave between lock sections.  The broker's RLock   *)
(* is held across the repository calls of one section, so a section that   *)
(* writes is two or three steps and the variable lock names its holder:    *)
(* meanwhile the table may perform late writes, the clock moves and the    *)
(* process may die, but no other section runs.                             *)
(***************************************************************************)
EXTENDS DeviceRepository, Sequences, FiniteSets

CONSTANTS
  Codes,        \* pairing codes that may be drawn (each at most once)
  Prefixes,     \* lookup prefixes
  Prefix,       \* the first four characters of a code
  Messages,     \* messages the phones have signed
  Threads,      \* requests with a device message in flight
  PairingTTL,   \* PAIRING_TTL_SECONDS
  MessageTTL,   \* MAX_IDENTITY_RECEIPT_TTL_SECONDS
  MaxTime       \* bound on the clock

ASSUME PrefixAssumption == Prefix \in [Codes -> Prefixes]

ASSUME MessagesAssumption ==
  Messages \subseteq
    [device : Devices, nonce : STRING, sequence : Nat \ {0}, expires : Nat]

ASSUME TimeAssumption ==
  PairingTTL \in Nat \ {0} /\ MessageTTL \in Nat \ {0} /\ MaxTime \in Nat

ASSUME NoCodeAssumption == None \notin Codes \cup Messages

VARIABLES
  now,         \* the clock, in arbitrary units
  pairings,    \* _pairings
  codeIndex,   \* _pairing_code_index
  attaching,   \* sessions between the two sections of create_pairing_session
  usedNonces,  \* _used_receipt_nonces
  lock,        \* the section that holds _lock across a repository call
  requests,    \* messages that passed the expiry check and wait for the lock
  issuer,      \* history: the owner each pairing id was issued to
  shownFor,    \* history: the pairing each code was displayed for
  claims,      \* history: the pairings each code was exchanged for
  enrolled,    \* history: the device an owner last enrolled and still wants
  accepted     \* history: the sequence numbers accepted from each device

volatile == <<pairings, codeIndex, attaching, usedNonces, lock, requests>>
history == <<issuer, shownFor, claims, enrolled, accepted>>
vars == <<rows, late, now, volatile, history>>

Pairing ==
  [status : {"absent", "open", "consumed"}, owner : Owners \cup {None},
   expires : Nat, code : Codes \cup {None}, claimed : BOOLEAN]

AbsentPairing == [status |-> "absent", owner |-> None, expires |-> 0,
                  code |-> None, claimed |-> FALSE]

Free == [step |-> "free"]

Holder ==
  {Free}
    \cup [step : {"revoke_prior", "save_new"}, owner : Owners,
          pairing : Pairings, device : Devices]
    \cup [step : {"save_revoked"}, device : Devices, row : Row]
    \cup [step : {"advance"}, message : Messages]

----------------------------------------------------------------------------
Init ==
  /\ RepositoryInit
  /\ now = 0
  /\ pairings = [p \in Pairings |-> AbsentPairing]
  /\ codeIndex = [x \in Prefixes |-> None]
  /\ attaching = {}
  /\ usedNonces = {}
  /\ lock = Free
  /\ requests = [t \in Threads |-> None]
  /\ issuer = [p \in Pairings |-> None]
  /\ shownFor = [c \in Codes |-> None]
  /\ claims = [c \in Codes |-> <<>>]
  /\ enrolled = [o \in Owners |-> None]
  /\ accepted = [d \in Devices |-> <<>>]

----------------------------------------------------------------------------
(* Pairing. *)

NewPairing(o, p) ==
  /\ lock = Free
  /\ issuer[p] = None
  /\ pairings' = [pairings EXCEPT ![p] =
       [status |-> "open", owner |-> o, expires |-> now + PairingTTL,
        code |-> None, claimed |-> FALSE]]
  /\ issuer' = [issuer EXCEPT ![p] = o]
  /\ UNCHANGED <<rows, late, now, codeIndex, usedNonces, lock, requests,
                 shownFor, claims, enrolled, accepted>>

\* issue_pairing_challenge called by the owner's route.
IssueChallenge(o, p) == NewPairing(o, p) /\ UNCHANGED attaching

\* create_pairing_session, first section: the challenge is already stored.
BeginSession(o, p) == NewPairing(o, p) /\ attaching' = attaching \cup {p}

\* Wrong variant: the index maps the prefix to the code itself.
CodeIndexedByValue(p, c) == [codeIndex EXCEPT ![Prefix[c]] = c]

CodeIndexed(p, c) == [codeIndex EXCEPT ![Prefix[c]] = p]

\* create_pairing_session, second section.  A later session whose code has
\* the same prefix takes over the index entry.
AttachCode(p, c) ==
  /\ lock = Free
  /\ p \in attaching
  /\ shownFor[c] = None
  /\ pairings' = [pairings EXCEPT ![p].code = c, ![p].claimed = FALSE]
  /\ codeIndex' = CodeIndexed(p, c)
  /\ attaching' = attaching \ {p}
  /\ shownFor' = [shownFor EXCEPT ![c] = p]
  /\ UNCHANGED <<rows, late, now, usedNonces, lock, requests,
                 issuer, claims, enrolled, accepted>>

\* A wrong variant that trusts the prefix and skips the digest comparison.
ClaimableByPrefix(p, c) ==
  pairings[p].status = "open" /\ ~pairings[p].claimed /\ now < pairings[p].expires

Claimable(p, c) ==
  /\ pairings[p].status = "open"
  /\ ~pairings[p].claimed
  /\ now < pairings[p].expires
  /\ pairings[p].code = c

\* claim_pairing_session: a code is exchanged for its registration challenge.
Claim(c) ==
  /\ lock = Free
  /\ codeIndex[Prefix[c]] # None
  /\ LET p == codeIndex[Prefix[c]] IN
       /\ Claimable(p, c)
       /\ pairings' = [pairings EXCEPT ![p].claimed = TRUE]
       /\ claims' = [claims EXCEPT ![c] = Append(@, p)]
  /\ UNCHANGED <<rows, late, now, codeIndex, attaching, usedNonces, lock,
                 requests, issuer, shownFor, enrolled, accepted>>

----------------------------------------------------------------------------
(* Enrolment. *)

\* Wrong variants: any caller's pairing, and an id that is not fresh.
RegistrableByAnyone(o, p) ==
  pairings[p].status = "open" /\ now < pairings[p].expires

UnusedNow(d) == ~Active(d)

\* The new device id is a fresh UUID.
Unused(d) ==
  rows[d] = AbsentRow /\ \A w \in late : w.kind = "save" => w.device # d

Registrable(o, p) ==
  /\ pairings[p].status = "open"
  /\ pairings[p].owner = o
  /\ now < pairings[p].expires

\* Wrong variant: the pairing stays open until the device is stored.
BeginEnrollmentUnspent(o, p, d) ==
  /\ lock = Free
  /\ Registrable(o, p)
  /\ Unused(d)
  /\ lock' = [step |-> "revoke_prior", owner |-> o, pairing |-> p, device |-> d]
  /\ enrolled' = [enrolled EXCEPT ![o] = None]
  /\ UNCHANGED <<rows, late, now, pairings, codeIndex, attaching, usedNonces,
                 requests, issuer, shownFor, claims, accepted>>

\* _register_device_locked up to its first repository call.  The pairing is
\* spent before the table is touched, whatever happens there.
BeginEnrollment(o, p, d) ==
  /\ lock = Free
  /\ Registrable(o, p)
  /\ Unused(d)
  /\ pairings' = [pairings EXCEPT ![p].status = "consumed"]
  /\ lock' = [step |-> "revoke_prior", owner |-> o, pairing |-> p, device |-> d]
  /\ enrolled' = [enrolled EXCEPT ![o] = None]
  /\ UNCHANGED <<rows, late, now, codeIndex, attaching, usedNonces, requests,
                 issuer, shownFor, claims, accepted>>

\* register_device: the caller is the signed-in owner o.
RegisterDevice(o, p, d) == BeginEnrollment(o, p, d)

\* register_paired_device: the owner is the pairing's, the code was claimed.
RegisterPairedDevice(p, d) ==
  /\ pairings[p].claimed
  /\ \E o \in Owners : pairings[p].owner = o /\ BeginEnrollment(o, p, d)

\* Wrong variant: the error of the revocation is ignored.
RevokePriorUnchecked(outcome) ==
  /\ lock.step = "revoke_prior"
  /\ Request([kind |-> "revoke_active", owner |-> lock.owner,
              pairing |-> lock.pairing], outcome)
  /\ lock' = [lock EXCEPT !.step = "save_new"]
  /\ UNCHANGED <<now, pairings, codeIndex, attaching, usedNonces, requests, history>>

\* The revocation of the owner's prior device; an error abandons enrolment.
RevokePrior(outcome) ==
  /\ lock.step = "revoke_prior"
  /\ Request([kind |-> "revoke_active", owner |-> lock.owner,
              pairing |-> lock.pairing], outcome)
  /\ lock' = IF outcome = "stored" THEN [lock EXCEPT !.step = "save_new"] ELSE Free
  /\ UNCHANGED <<now, pairings, codeIndex, attaching, usedNonces, requests, history>>

NewRow == [status |-> "active", owner |-> lock.owner,
           pairing |-> lock.pairing, lastSequence |-> 0]

\* The insert of the new device; only an acknowledged one reaches the phone.
SaveNew(outcome) ==
  /\ lock.step = "save_new"
  /\ Request([kind |-> "save", device |-> lock.device, row |-> NewRow], outcome)
  /\ lock' = Free
  /\ enrolled' = IF outcome = "stored"
                 THEN [enrolled EXCEPT ![lock.owner] = lock.device]
                 ELSE enrolled
  /\ UNCHANGED <<now, pairings, codeIndex, attaching, usedNonces, requests,
                 issuer, shownFor, claims, accepted>>

----------------------------------------------------------------------------
(* Revocation: the row is read, then upserted whole with revoked_at set. *)

BeginRevoke(o, d) ==
  /\ lock = Free
  /\ Active(d) /\ rows[d].owner = o
  /\ lock' = [step |-> "save_revoked", device |-> d,
              row |-> [rows[d] EXCEPT !.status = "revoked"]]
  /\ enrolled' = IF enrolled[o] = d THEN [enrolled EXCEPT ![o] = None] ELSE enrolled
  /\ UNCHANGED <<rows, late, now, pairings, codeIndex, attaching, usedNonces,
                 requests, issuer, shownFor, claims, accepted>>

SaveRevoked(outcome) ==
  /\ lock.step = "save_revoked"
  /\ Request([kind |-> "save", device |-> lock.device, row |-> lock.row], outcome)
  /\ lock' = Free
  /\ UNCHANGED <<now, pairings, codeIndex, attaching, usedNonces, requests, history>>

----------------------------------------------------------------------------
(* Signed messages: identity receipts, polls, connection tests, recoveries *)
(* and command receipts all pass the same acceptance.  The expiry window   *)
(* is checked first, outside the lock.                                     *)

Admit(t, m) ==
  /\ requests[t] = None
  /\ now < m.expires /\ m.expires <= now + MessageTTL
  /\ requests' = [requests EXCEPT ![t] = m]
  /\ UNCHANGED <<rows, late, now, pairings, codeIndex, attaching, usedNonces,
                 lock, history>>

NonceKey(m) == <<m.device, m.nonce>>

Acceptable(m) ==
  /\ Active(m.device)
  /\ NonceKey(m) \notin usedNonces
  /\ m.sequence > rows[m.device].lastSequence

\* The locked section reads the device row and verifies the signature.
Verify(t) ==
  /\ lock = Free
  /\ requests[t] # None
  /\ requests' = [requests EXCEPT ![t] = None]
  /\ lock' = IF Acceptable(requests[t])
             THEN [step |-> "advance", message |-> requests[t]]
             ELSE Free
  /\ UNCHANGED <<rows, late, now, pairings, codeIndex, attaching, usedNonces,
                 history>>

\* _advance_sequence, then the nonce is recorded.  A PATCH that matched no
\* row and one whose answer was lost are both a refusal.
Advance(outcome) ==
  /\ lock.step = "advance"
  /\ LET m == lock.message
         ok == outcome = "stored" /\ AdvanceMatches(m.device, m.sequence) IN
       /\ Request([kind |-> "advance", device |-> m.device,
                   sequence |-> m.sequence], outcome)
       /\ usedNonces' = IF ok THEN usedNonces \cup {NonceKey(m)} ELSE usedNonces
       /\ accepted' = IF ok THEN [accepted EXCEPT ![m.device] = Append(@, m.sequence)]
                            ELSE accepted
  /\ lock' = Free
  /\ UNCHANGED <<now, pairings, codeIndex, attaching, requests,
                 issuer, shownFor, claims, enrolled>>

----------------------------------------------------------------------------
(* The environment. *)

PerformLate ==
  /\ \E w \in late : LateWrite(w)
  /\ UNCHANGED <<now, volatile, history>>

Tick ==
  /\ now < MaxTime
  /\ now' = now + 1
  /\ UNCHANGED <<rows, late, volatile, history>>

\* The process dies and starts again, in the middle of a section or not.
Restart ==
  /\ pairings' = [p \in Pairings |-> AbsentPairing]
  /\ codeIndex' = [x \in Prefixes |-> None]
  /\ attaching' = {}
  /\ usedNonces' = {}
  /\ lock' = Free
  /\ requests' = [t \in Threads |-> None]
  /\ UNCHANGED <<rows, late, now, history>>

----------------------------------------------------------------------------
Next ==
  \/ \E o \in Owners, p \in Pairings : IssueChallenge(o, p) \/ BeginSession(o, p)
  \/ \E p \in Pairings, c \in Codes : AttachCode(p, c)
  \/ \E c \in Codes : Claim(c)
  \/ \E o \in Owners, p \in Pairings, d \in Devices : RegisterDevice(o, p, d)
  \/ \E p \in Pairings, d \in Devices : RegisterPairedDevice(p, d)
  \/ \E outcome \in WriteOutcomes :
       RevokePrior(outcome) \/ SaveNew(outcome) \/ SaveRevoked(outcome) \/ Advance(outcome)
  \/ \E o \in Owners, d \in Devices : BeginRevoke(o, d)
  \/ \E t \in Threads, m \in Messages : Admit(t, m)
  \/ \E t \in Threads : Verify(t)
  \/ PerformLate
  \/ Tick
  \/ Restart

Spec == Init /\ [][Next]_vars

----------------------------------------------------------------------------
(* Every variable stays in its range. *)
TypeOK ==
  /\ RepositoryTypeOK
  /\ now \in Nat
  /\ pairings \in [Pairings -> Pairing]
  /\ codeIndex \in [Prefixes -> Pairings \cup {None}]
  /\ attaching \subseteq Pairings
  /\ usedNonces \subseteq Devices \X STRING
  /\ lock \in Holder
  /\ requests \in [Threads -> Messages \cup {None}]
  /\ issuer \in [Pairings -> Owners \cup {None}]
  /\ shownFor \in [Codes -> Pairings \cup {None}]
  /\ claims \in [Codes -> Seq(Pairings)]
  /\ enrolled \in [Owners -> Devices \cup {None}]
  /\ accepted \in [Devices -> Seq(Nat)]

(* "One owner has exactly one active Android companion" (_register_device_  *)
(* locked): never two, whatever fails between the revocation of the prior   *)
(* device and the insert of the new one, and wherever the process dies.     *)
OneActiveDevice ==
  \A d1, d2 \in Devices :
    Active(d1) /\ Active(d2) /\ rows[d1].owner = rows[d2].owner => d1 = d2

(* A device whose registration was answered with success can be used until  *)
(* its owner starts another registration or asks for its revocation: no     *)
(* other owner's request, failure or restart takes it away.                 *)
NewestEnrollmentActive ==
  \A o \in Owners :
    enrolled[o] # None => Active(enrolled[o]) /\ rows[enrolled[o]].owner = o

(* A device belongs to the account that was issued its pairing: neither the *)
(* owner's route nor the phone's can bind a device to another account.      *)
EnrollmentBoundToIssuer ==
  \A d \in Devices :
    rows[d].status # "absent" => rows[d].owner = issuer[rows[d].pairing]

(* A pairing enrols at most one device, even when its repository calls fail *)
(* or answer late and the phone tries again.                                *)
PairingUsedOnce ==
  \A d1, d2 \in Devices :
    /\ rows[d1].status # "absent" /\ rows[d2].status # "absent"
    /\ rows[d1].pairing = rows[d2].pairing
    => d1 = d2

(* A displayed code is exchanged at most once, and only for the pairing it  *)
(* was displayed for, although the index is keyed by a prefix that another  *)
(* session's code may share.                                                *)
CodeExchangedOnce ==
  \A c \in Codes : claims[c] \in {<<>>, <<shownFor[c]>>}

(* The sequence numbers accepted from a device only grow: a message is not  *)
(* accepted twice, nor after a newer one, although the nonces are forgotten *)
(* on restart and a request may be redelivered at any time.                 *)
AcceptedInOrder ==
  \A d \in Devices : \A i, j \in 1..Len(accepted[d]) :
    i < j => accepted[d][i] < accepted[d][j]

(* A revoked device is never active again: recovery "never ... restores a   *)
(* revoked record" (recover_device), and no late write does either.         *)
RevocationPermanent ==
  [][\A d \in Devices : rows[d].status = "revoked" => rows'[d].status = "revoked"]_vars

(* The stored number of a device moves back in a revocation alone, whichever *)
(* order the table performs the writes in.  revoke_device upserts the row it *)
(* read, and with it loses a late advance performed in between: the replays  *)
(* this would admit meet a device that is revoked in the same write.         *)
SequenceLostWithDevice ==
  [][\A d \in Devices :
       rows[d].status # "absent" /\ rows'[d].lastSequence < rows[d].lastSequence
         => rows'[d].status = "revoked"]_vars

(* To the rest of the backend the table is one device per owner: however a  *)
(* registration fails half-way, each step enrols one fresh device in the    *)
(* place of none, or revokes one, or changes nothing, for one owner only.   *)
ActiveOf(o) == {d \in Devices : Active(d) /\ rows[d].owner = o}
RevokedOf(o) == {d \in Devices : rows[d].status = "revoked" /\ rows[d].owner = o}

Registry(o) == INSTANCE OwnerDevices WITH active <- ActiveOf(o), revoked <- RevokedOf(o)

ImplementsRegistry ==
  /\ \A o \in Owners : Registry(o)!RegistryInit
  /\ [][\A o \in Owners : Registry(o)!RegistryStep]_vars

=============================================================================
