------------------------- MODULE DeviceBrokerProofs -------------------------
(***************************************************************************)
(* Theorems about the device broker for every number of owners, devices,   *)
(* pairings, codes and messages.                                           *)
(*                                                                         *)
(* Every write the broker issues is "sound": a save either creates a row   *)
(* that was absent or stores a revoked one.  The inductive invariant says  *)
(* so of the writes in flight and of the lock's holder, and everything     *)
(* about the table follows from what one sound write can do to one row.    *)
(***************************************************************************)
EXTENDS DeviceBroker, TLAPS

----------------------------------------------------------------------------
(* Types. *)

\* A write leaves the table a table.
LEMMA PerformedType ==
  ASSUME RepositoryTypeOK, NEW w \in Write
  PROVE  Performed(w) \in [Devices -> Row]
<1>1. CASE w.kind = "save"
  <2>1. w.device \in Devices /\ w.row \in Row
    BY <1>1 DEF Write
  <2>2. Performed(w) = Saved(w.device, w.row)
    BY <1>1 DEF Performed
  <2>. QED
    BY <2>1, <2>2 DEF Saved, RepositoryTypeOK
<1>2. CASE w.kind = "revoke_active"
  <2>1. Performed(w) = ActiveRevoked(w.owner)
    BY <1>2 DEF Performed
  <2>2. \A d \in Devices : [rows[d] EXCEPT !.status = "revoked"] \in Row
    BY DEF RepositoryTypeOK, Row
  <2>. QED
    BY <2>1, <2>2 DEF ActiveRevoked, RepositoryTypeOK
<1>3. CASE w.kind = "advance"
  <2>1. w.device \in Devices /\ w.sequence \in Nat
    BY <1>3 DEF Write
  <2>2. Performed(w) = SequenceAdvanced(w.device, w.sequence)
    BY <1>3 DEF Performed
  <2>3. [rows[w.device] EXCEPT !.lastSequence = w.sequence] \in Row
    BY <2>1 DEF RepositoryTypeOK, Row
  <2>. QED
    BY <2>1, <2>2, <2>3 DEF SequenceAdvanced, RepositoryTypeOK
<1>. QED
  BY <1>1, <1>2, <1>3 DEF Write

LEMMA RequestType ==
  ASSUME RepositoryTypeOK, NEW w \in Write, NEW outcome, Request(w, outcome)
  PROVE  RepositoryTypeOK'
BY PerformedType DEF Request, RepositoryTypeOK

LEMMA LateWriteType ==
  ASSUME RepositoryTypeOK, NEW w, LateWrite(w)
  PROVE  RepositoryTypeOK'
BY PerformedType DEF LateWrite, RepositoryTypeOK

LEMMA InitType == Init => TypeOK
<1>. SUFFICES ASSUME Init PROVE TypeOK
  OBVIOUS
<1>1. RepositoryTypeOK
  BY DEF Init, RepositoryInit, RepositoryTypeOK, AbsentRow, Row
<1>2. pairings \in [Pairings -> Pairing]
  BY DEF Init, AbsentPairing, Pairing
<1>3. claims \in [Codes -> Seq(Pairings)] /\ accepted \in [Devices -> Seq(Nat)]
  BY DEF Init
<1>. QED
  BY <1>1, <1>2, <1>3 DEF Init, TypeOK, Holder

\* What an enrolment, a revocation and an acceptance write are writes.
LEMMA IssuedWrites ==
  ASSUME TypeOK
  PROVE  /\ lock.step = "revoke_prior" =>
              [kind |-> "revoke_active", owner |-> lock.owner,
               pairing |-> lock.pairing] \in Write
         /\ lock.step = "save_new" =>
              [kind |-> "save", device |-> lock.device, row |-> NewRow] \in Write
         /\ lock.step = "save_revoked" =>
              [kind |-> "save", device |-> lock.device, row |-> lock.row] \in Write
         /\ lock.step = "advance" =>
              [kind |-> "advance", device |-> lock.message.device,
               sequence |-> lock.message.sequence] \in Write
<1>. lock \in Holder
  BY DEF TypeOK
<1>1. CASE lock.step = "revoke_prior"
  <2>. lock.owner \in Owners /\ lock.pairing \in Pairings
    BY <1>1 DEF Holder, Free
  <2>. QED
    BY <1>1 DEF Write
<1>2. CASE lock.step = "save_new"
  <2>. lock.owner \in Owners /\ lock.pairing \in Pairings /\ lock.device \in Devices
    BY <1>2 DEF Holder, Free
  <2>. NewRow \in Row
    BY DEF NewRow, Row
  <2>. QED
    BY <1>2 DEF Write
<1>3. CASE lock.step = "save_revoked"
  <2>. lock.device \in Devices /\ lock.row \in Row
    BY <1>3 DEF Holder, Free
  <2>. QED
    BY <1>3 DEF Write
<1>4. CASE lock.step = "advance"
  <2>. lock.message \in Messages
    BY <1>4 DEF Holder, Free
  <2>. lock.message.device \in Devices /\ lock.message.sequence \in Nat
    BY MessagesAssumption
  <2>. QED
    BY <1>4 DEF Write
<1>. QED
  BY <1>1, <1>2, <1>3, <1>4

LEMMA NextType == TypeOK /\ [Next]_vars => TypeOK'
<1>. SUFFICES ASSUME TypeOK, [Next]_vars PROVE TypeOK'
  OBVIOUS
<1>. USE DEF volatile, history
<1>1. ASSUME NEW o \in Owners, NEW p \in Pairings, NewPairing(o, p),
             attaching' \subseteq Pairings
      PROVE  TypeOK'
  <2>1. [status |-> "open", owner |-> o, expires |-> now + PairingTTL,
         code |-> None, claimed |-> FALSE] \in Pairing
    BY TimeAssumption DEF TypeOK, Pairing
  <2>2. pairings' \in [Pairings -> Pairing]
    BY <1>1, <2>1 DEF NewPairing, TypeOK
  <2>. QED
    BY <1>1, <2>2 DEF NewPairing, TypeOK, RepositoryTypeOK
<1>2. ASSUME NEW p \in Pairings, NEW c \in Codes, AttachCode(p, c)
      PROVE  TypeOK'
  <2>1. [[pairings[p] EXCEPT !.code = c] EXCEPT !.claimed = FALSE] \in Pairing
    BY DEF TypeOK, Pairing
  <2>2. pairings' \in [Pairings -> Pairing]
    BY <1>2, <2>1 DEF AttachCode, TypeOK, Pairing
  <2>3. codeIndex' \in [Prefixes -> Pairings \cup {None}]
    BY <1>2, PrefixAssumption DEF AttachCode, CodeIndexed, TypeOK
  <2>. QED
    BY <1>2, <2>2, <2>3 DEF AttachCode, TypeOK, RepositoryTypeOK
<1>3. ASSUME NEW c \in Codes, Claim(c)
      PROVE  TypeOK'
  <2>. DEFINE p == codeIndex[Prefix[c]]
  <2>1. p \in Pairings
    BY <1>3, PrefixAssumption DEF Claim, TypeOK
  <2>2. pairings' = [pairings EXCEPT ![p].claimed = TRUE]
    BY <1>3 DEF Claim
  <2>. HIDE DEF p
  <2>3. [pairings[p] EXCEPT !.claimed = TRUE] \in Pairing
    BY <2>1 DEF TypeOK, Pairing
  <2>4. pairings' \in [Pairings -> Pairing]
    BY <2>2, <2>3 DEF TypeOK
  <2>5. claims' \in [Codes -> Seq(Pairings)]
    <3>1. Append(claims[c], p) \in Seq(Pairings)
      BY <2>1 DEF TypeOK
    <3>. QED
      BY <1>3, <3>1 DEF Claim, TypeOK, p
  <2>. QED
    BY <1>3, <2>4, <2>5 DEF Claim, TypeOK, RepositoryTypeOK
<1>4. ASSUME NEW o \in Owners, NEW p \in Pairings, NEW d \in Devices,
             BeginEnrollment(o, p, d)
      PROVE  TypeOK'
  <2>1. [pairings[p] EXCEPT !.status = "consumed"] \in Pairing
    BY DEF TypeOK, Pairing
  <2>2. pairings' \in [Pairings -> Pairing]
    BY <1>4, <2>1 DEF BeginEnrollment, TypeOK
  <2>3. lock' \in Holder
    BY <1>4 DEF BeginEnrollment, Holder
  <2>. QED
    BY <1>4, <2>2, <2>3 DEF BeginEnrollment, TypeOK, RepositoryTypeOK
<1>5. ASSUME NEW outcome \in WriteOutcomes, RevokePrior(outcome)
      PROVE  TypeOK'
  <2>1. RepositoryTypeOK'
    BY <1>5, IssuedWrites, RequestType DEF RevokePrior, TypeOK
  <2>2. lock.step = "revoke_prior" /\ lock \in Holder
    BY <1>5 DEF RevokePrior, TypeOK
  <2>3. [lock EXCEPT !.step = "save_new"] \in Holder
    BY <2>2 DEF Holder, Free
  <2>4. lock' \in Holder
    BY <1>5, <2>3 DEF RevokePrior, Holder
  <2>. QED
    BY <1>5, <2>1, <2>4 DEF RevokePrior, TypeOK
<1>6. ASSUME NEW outcome \in WriteOutcomes, SaveNew(outcome)
      PROVE  TypeOK'
  <2>1. RepositoryTypeOK'
    BY <1>6, IssuedWrites, RequestType DEF SaveNew, TypeOK
  <2>2. lock.device \in Devices
    BY <1>6 DEF SaveNew, TypeOK, Holder, Free
  <2>. QED
    BY <1>6, <2>1, <2>2 DEF SaveNew, TypeOK, Holder
<1>7. ASSUME NEW outcome \in WriteOutcomes, SaveRevoked(outcome)
      PROVE  TypeOK'
  <2>1. RepositoryTypeOK'
    BY <1>7, IssuedWrites, RequestType DEF SaveRevoked, TypeOK
  <2>. QED
    BY <1>7, <2>1 DEF SaveRevoked, TypeOK, Holder
<1>8. ASSUME NEW outcome \in WriteOutcomes, Advance(outcome)
      PROVE  TypeOK'
  <2>. DEFINE m == lock.message
  <2>1. RepositoryTypeOK'
    BY <1>8, IssuedWrites, RequestType DEF Advance, TypeOK
  <2>2. m \in Messages
    BY <1>8 DEF Advance, TypeOK, Holder, Free
  <2>3. m.device \in Devices /\ m.nonce \in STRING /\ m.sequence \in Nat
    BY <2>2, MessagesAssumption
  <2>4. usedNonces' \subseteq Devices \X STRING
    BY <1>8, <2>3 DEF Advance, TypeOK, NonceKey
  <2>5. Append(accepted[m.device], m.sequence) \in Seq(Nat)
    BY <2>3 DEF TypeOK
  <2>6. accepted' \in [Devices -> Seq(Nat)]
    BY <1>8, <2>3, <2>5 DEF Advance, TypeOK
  <2>. QED
    BY <1>8, <2>1, <2>4, <2>6 DEF Advance, TypeOK, Holder
<1>9. ASSUME NEW o \in Owners, NEW d \in Devices, BeginRevoke(o, d)
      PROVE  TypeOK'
  <2>1. [rows[d] EXCEPT !.status = "revoked"] \in Row
    BY DEF TypeOK, RepositoryTypeOK, Row
  <2>. QED
    BY <1>9, <2>1 DEF BeginRevoke, TypeOK, RepositoryTypeOK, Holder
<1>10. ASSUME NEW t \in Threads, NEW m \in Messages, Admit(t, m)
       PROVE  TypeOK'
  BY <1>10 DEF Admit, TypeOK, RepositoryTypeOK
<1>11. ASSUME NEW t \in Threads, Verify(t)
       PROVE  TypeOK'
  <2>1. requests[t] \in Messages
    BY <1>11 DEF Verify, TypeOK
  <2>. QED
    BY <1>11, <2>1 DEF Verify, TypeOK, RepositoryTypeOK, Holder
<1>12. CASE PerformLate
  BY <1>12, LateWriteType DEF PerformLate, TypeOK
<1>13. CASE Tick
  BY <1>13 DEF Tick, TypeOK, RepositoryTypeOK
<1>14. CASE Restart
  BY <1>14 DEF Restart, TypeOK, RepositoryTypeOK, AbsentPairing, Pairing, Holder
<1>15. CASE UNCHANGED vars
  BY <1>15 DEF vars, TypeOK, RepositoryTypeOK
<1>. QED
  <2>1. ASSUME NEW o \in Owners, NEW p \in Pairings,
               IssueChallenge(o, p) \/ BeginSession(o, p)
        PROVE  TypeOK'
    BY <1>1, <2>1 DEF IssueChallenge, BeginSession, TypeOK
  <2>. QED
    BY <1>2, <1>3, <1>4, <1>5, <1>6, <1>7, <1>8, <1>9, <1>10, <1>11, <1>12,
       <1>13, <1>14, <1>15, <2>1 DEF Next, RegisterDevice, RegisterPairedDevice

\* Every variable of the broker and of the table stays in its range.
THEOREM TypeCorrect == Spec => []TypeOK
BY InitType, NextType, PTL DEF Spec

----------------------------------------------------------------------------
(* Sound writes. *)

SoundSave(w) ==
  w.kind = "save" =>
    \/ w.row.status = "revoked" /\ rows[w.device].status # "absent"
    \/ w.row.status = "active" /\ rows[w.device].status = "absent"

Creates(w, d) == w.kind = "save" /\ w.device = d /\ w.row.status = "active"

\* The inductive invariant about writes in flight.  A device id between its
\* drawing and its insert has no row and no other write under way.
WritesSound ==
  /\ \A w \in late : SoundSave(w)
  /\ \A w1, w2 \in late : \A d \in Devices : Creates(w1, d) /\ Creates(w2, d) => w1 = w2
  /\ lock.step \in {"revoke_prior", "save_new"} =>
       /\ rows[lock.device].status = "absent"
       /\ \A w \in late : w.kind = "save" => w.device # lock.device
  /\ lock.step = "save_revoked" =>
       lock.row.status = "revoked" /\ rows[lock.device].status # "absent"

\* What one sound write can do to one row.
LEMMA WriteOnRow ==
  ASSUME RepositoryTypeOK, NEW w \in Write, SoundSave(w), NEW d \in Devices
  PROVE  /\ rows[d].status = "revoked" => Performed(w)[d].status = "revoked"
         /\ rows[d].status = "active" => Performed(w)[d].status # "absent"
         /\ rows[d].status = "active" /\ Performed(w)[d].status = "active"
              => Performed(w)[d].lastSequence >= rows[d].lastSequence
         /\ rows[d].status = "absent" /\ Performed(w)[d].status # "absent"
              => Creates(w, d)
<1>. rows \in [Devices -> Row] /\ rows[d] \in Row
  BY DEF RepositoryTypeOK
<1>. rows[d].status \in {"absent", "active", "revoked"} /\ rows[d].lastSequence \in Nat
  BY DEF Row
<1>1. CASE w.kind = "save"
  <2>1. w.device \in Devices
    BY <1>1 DEF Write
  <2>2. Performed(w)[d] = IF w.device = d THEN w.row ELSE rows[d]
    BY <1>1, <2>1 DEF Performed, Saved
  <2>. QED
    BY <1>1, <2>2 DEF SoundSave, Creates
<1>2. CASE w.kind = "revoke_active"
  <2>1. \/ Performed(w)[d] = rows[d]
        \/ /\ rows[d].status = "active"
           /\ Performed(w)[d] = [rows[d] EXCEPT !.status = "revoked"]
    BY <1>2 DEF Performed, ActiveRevoked
  <2>2. [rows[d] EXCEPT !.status = "revoked"].status = "revoked"
    BY DEF Row
  <2>3. CASE Performed(w)[d] = rows[d]
    BY <2>3
  <2>4. CASE /\ rows[d].status = "active"
             /\ Performed(w)[d] = [rows[d] EXCEPT !.status = "revoked"]
    <3>1. Performed(w)[d].status = "revoked"
      BY <2>2, <2>4
    <3>. QED
      BY <2>4, <3>1
  <2>. QED
    BY <2>1, <2>3, <2>4
<1>3. CASE w.kind = "advance"
  <2>1. w.device \in Devices /\ w.sequence \in Nat
    BY <1>3 DEF Write
  <2>2. \/ Performed(w)[d] = rows[d]
        \/ /\ AdvanceMatches(d, w.sequence)
           /\ Performed(w)[d] = [rows[d] EXCEPT !.lastSequence = w.sequence]
    BY <1>3, <2>1 DEF Performed, SequenceAdvanced
  <2>3. /\ [rows[d] EXCEPT !.lastSequence = w.sequence].status = rows[d].status
        /\ [rows[d] EXCEPT !.lastSequence = w.sequence].lastSequence = w.sequence
    BY DEF Row
  <2>4. CASE Performed(w)[d] = rows[d]
    BY <2>4
  <2>5. CASE /\ AdvanceMatches(d, w.sequence)
             /\ Performed(w)[d] = [rows[d] EXCEPT !.lastSequence = w.sequence]
    <3>1. /\ Performed(w)[d].status = rows[d].status
          /\ Performed(w)[d].lastSequence = w.sequence
      BY <2>3, <2>5
    <3>2. rows[d].status = "active" /\ w.sequence > rows[d].lastSequence
      BY <2>5 DEF AdvanceMatches
    <3>. QED
      BY <2>1, <3>1, <3>2
  <2>. QED
    BY <2>2, <2>4, <2>5
<1>. QED
  BY <1>1, <1>2, <1>3 DEF Write

\* The writes the lock's holder issues are sound.
LEMMA IssuedSound ==
  ASSUME TypeOK, WritesSound
  PROVE  /\ lock.step = "revoke_prior" =>
              SoundSave([kind |-> "revoke_active", owner |-> lock.owner,
                         pairing |-> lock.pairing])
         /\ lock.step = "save_new" =>
              SoundSave([kind |-> "save", device |-> lock.device, row |-> NewRow])
         /\ lock.step = "save_revoked" =>
              SoundSave([kind |-> "save", device |-> lock.device, row |-> lock.row])
         /\ lock.step = "advance" =>
              SoundSave([kind |-> "advance", device |-> lock.message.device,
                         sequence |-> lock.message.sequence])
BY DEF WritesSound, SoundSave, NewRow

\* A step leaves the table alone or performs one sound write on it.
LEMMA TableStep ==
  ASSUME TypeOK, WritesSound, [Next]_vars
  PROVE  \/ rows' = rows
         \/ \E w \in Write : SoundSave(w) /\ rows' = Performed(w)
<1>. USE DEF volatile, history
<1>1. ASSUME NEW outcome \in WriteOutcomes, NEW w \in Write, SoundSave(w),
             Request(w, outcome)
      PROVE  rows' = rows \/ \E v \in Write : SoundSave(v) /\ rows' = Performed(v)
  BY <1>1 DEF Request
<1>2. ASSUME NEW outcome \in WriteOutcomes,
             \/ RevokePrior(outcome) \/ SaveNew(outcome)
             \/ SaveRevoked(outcome) \/ Advance(outcome)
      PROVE  rows' = rows \/ \E v \in Write : SoundSave(v) /\ rows' = Performed(v)
  <2>1. CASE RevokePrior(outcome)
    BY <1>1, <2>1, IssuedWrites, IssuedSound DEF RevokePrior
  <2>2. CASE SaveNew(outcome)
    BY <1>1, <2>2, IssuedWrites, IssuedSound DEF SaveNew
  <2>3. CASE SaveRevoked(outcome)
    BY <1>1, <2>3, IssuedWrites, IssuedSound DEF SaveRevoked
  <2>4. CASE Advance(outcome)
    BY <1>1, <2>4, IssuedWrites, IssuedSound DEF Advance
  <2>. QED
    BY <1>2, <2>1, <2>2, <2>3, <2>4
<1>3. CASE PerformLate
  BY <1>3 DEF PerformLate, LateWrite, WritesSound, TypeOK, RepositoryTypeOK
<1>4. CASE UNCHANGED vars
  BY <1>4 DEF vars
<1>. QED
  BY <1>2, <1>3, <1>4 DEF Next, IssueChallenge, BeginSession, NewPairing, AttachCode,
     Claim, RegisterDevice, RegisterPairedDevice, BeginEnrollment, BeginRevoke,
     Admit, Verify, Tick, Restart

\* A write that is still in flight after a sound write stays sound, unless
\* both would create the same device.
LEMMA SoundPreserved ==
  ASSUME RepositoryTypeOK, NEW w \in Write, SoundSave(w), rows' = Performed(w),
         NEW v \in Write, SoundSave(v),
         \A d \in Devices : Creates(w, d) => ~Creates(v, d)
  PROVE  SoundSave(v)'
<1>. SUFFICES ASSUME v.kind = "save" PROVE SoundSave(v)'
  BY DEF SoundSave
<1>1. v.device \in Devices
  BY DEF Write
<1>. DEFINE d == v.device
<1>2. rows[d] \in Row /\ rows'[d] = Performed(w)[d] /\ rows'[d] \in Row
  BY <1>1, PerformedType DEF RepositoryTypeOK
<1>3. rows[d].status \in {"absent", "active", "revoked"}
  BY <1>2 DEF Row
<1>4. rows[d].status # "absent" => rows'[d].status # "absent"
  BY <1>1, <1>2, <1>3, WriteOnRow
<1>5. rows[d].status = "absent" /\ v.row.status = "active" => rows'[d].status = "absent"
  BY <1>1, <1>2, WriteOnRow DEF Creates
<1>. QED
  BY <1>4, <1>5 DEF SoundSave

LEMMA InitSound == Init => WritesSound
BY DEF Init, RepositoryInit, WritesSound, Free

LEMMA NextSound == TypeOK /\ WritesSound /\ [Next]_vars => WritesSound'
<1>. SUFFICES ASSUME TypeOK, WritesSound, [Next]_vars PROVE WritesSound'
  OBVIOUS
<1>. USE DEF volatile, history
<1>. late \subseteq Write /\ RepositoryTypeOK /\ TypeOK'
  BY NextType DEF TypeOK, RepositoryTypeOK
\* A request by the lock's holder that then lets the lock go.
<1>1. ASSUME NEW outcome \in WriteOutcomes, NEW w \in Write, SoundSave(w),
             Request(w, outcome), lock' = Free,
             \A d \in Devices, v \in late : Creates(w, d) => ~Creates(v, d)
      PROVE  WritesSound'
  <2>1. CASE rows' = rows
    <3>1. late' \subseteq late \cup {w}
      BY <1>1 DEF Request
    <3>. QED
      BY <1>1, <2>1, <3>1 DEF WritesSound, SoundSave, Free
  <2>2. CASE rows' # rows
    <3>1. rows' = Performed(w) /\ late' = late
      BY <1>1, <2>2 DEF Request
    <3>2. \A v \in late : SoundSave(v)'
      BY <1>1, <3>1, SoundPreserved DEF WritesSound
    <3>. QED
      BY <1>1, <3>1, <3>2 DEF WritesSound, Free
  <2>. QED
    BY <2>1, <2>2
<1>2. ASSUME rows' = rows, late' = late,
             \/ lock' = lock
             \/ lock' = Free
             \/ lock'.step = "advance"
      PROVE  WritesSound'
  BY <1>2 DEF WritesSound, SoundSave, Free
<1>3. ASSUME NEW o \in Owners, NEW p \in Pairings, NEW d \in Devices,
             BeginEnrollment(o, p, d)
      PROVE  WritesSound'
  <2>1. /\ rows' = rows /\ late' = late
        /\ lock'.step = "revoke_prior" /\ lock'.device = d
        /\ rows[d].status = "absent"
        /\ \A w \in late : w.kind = "save" => w.device # d
    BY <1>3 DEF BeginEnrollment, Unused, AbsentRow
  <2>. QED
    BY <2>1 DEF WritesSound, SoundSave
<1>4. ASSUME NEW outcome \in WriteOutcomes, RevokePrior(outcome)
      PROVE  WritesSound'
  <2>. DEFINE w == [kind |-> "revoke_active", owner |-> lock.owner,
                    pairing |-> lock.pairing]
  <2>1. /\ w \in Write /\ SoundSave(w) /\ Request(w, outcome)
        /\ \A d \in Devices : ~Creates(w, d)
    BY <1>4, IssuedWrites, IssuedSound DEF RevokePrior, Creates
  <2>2. CASE lock' = Free
    BY <1>1, <2>1, <2>2
  <2>3. CASE lock' # Free
    <3>1. outcome = "stored" /\ lock' = [lock EXCEPT !.step = "save_new"]
      BY <1>4, <2>3 DEF RevokePrior
    <3>2. rows' = Performed(w) /\ late' = late
      BY <2>1, <3>1 DEF Request
    <3>3. \A v \in late : SoundSave(v)'
      BY <2>1, <3>2, SoundPreserved DEF WritesSound
    <3>4. lock.step = "revoke_prior" /\ lock \in Holder
      BY <1>4 DEF RevokePrior, TypeOK
    <3>5. lock.device \in Devices /\ lock'.device = lock.device /\ lock'.step = "save_new"
      BY <3>1, <3>4 DEF Holder, Free
    <3>6. rows[lock.device].status = "absent"
      BY <3>4 DEF WritesSound
    <3>7. rows'[lock.device].status = "absent"
      BY <2>1, <3>2, <3>5, <3>6, WriteOnRow
    <3>. QED
      BY <3>2, <3>3, <3>4, <3>5, <3>7 DEF WritesSound
  <2>. QED
    BY <2>2, <2>3
<1>5. ASSUME NEW outcome \in WriteOutcomes, SaveNew(outcome)
      PROVE  WritesSound'
  <2>. DEFINE w == [kind |-> "save", device |-> lock.device, row |-> NewRow]
  <2>1. w \in Write /\ SoundSave(w) /\ Request(w, outcome) /\ lock' = Free
    BY <1>5, IssuedWrites, IssuedSound DEF SaveNew
  <2>2. \A v \in late : v.kind = "save" => v.device # lock.device
    BY <1>5 DEF SaveNew, WritesSound
  <2>3. \A d \in Devices, v \in late : Creates(w, d) => ~Creates(v, d)
    BY <2>2 DEF Creates
  <2>. QED
    BY <1>1, <2>1, <2>3
<1>6. ASSUME NEW outcome \in WriteOutcomes, SaveRevoked(outcome)
      PROVE  WritesSound'
  <2>. DEFINE w == [kind |-> "save", device |-> lock.device, row |-> lock.row]
  <2>1. /\ w \in Write /\ SoundSave(w) /\ Request(w, outcome) /\ lock' = Free
        /\ lock.row.status = "revoked"
    BY <1>6, IssuedWrites, IssuedSound DEF SaveRevoked, WritesSound
  <2>2. \A d \in Devices : ~Creates(w, d)
    BY <2>1 DEF Creates
  <2>. QED
    BY <1>1, <2>1, <2>2
<1>7. ASSUME NEW outcome \in WriteOutcomes, Advance(outcome)
      PROVE  WritesSound'
  <2>. DEFINE w == [kind |-> "advance", device |-> lock.message.device,
                    sequence |-> lock.message.sequence]
  <2>1. /\ w \in Write /\ SoundSave(w) /\ Request(w, outcome) /\ lock' = Free
        /\ \A d \in Devices : ~Creates(w, d)
    BY <1>7, IssuedWrites, IssuedSound DEF Advance, Creates
  <2>. QED
    BY <1>1, <2>1
<1>8. ASSUME NEW o \in Owners, NEW d \in Devices, BeginRevoke(o, d)
      PROVE  WritesSound'
  <2>1. /\ rows' = rows /\ late' = late /\ rows[d].status = "active"
        /\ lock' = [step |-> "save_revoked", device |-> d,
                    row |-> [rows[d] EXCEPT !.status = "revoked"]]
    BY <1>8 DEF BeginRevoke, Active
  <2>2. [rows[d] EXCEPT !.status = "revoked"].status = "revoked"
    BY DEF TypeOK, RepositoryTypeOK, Row
  <2>3. lock'.step = "save_revoked" /\ lock'.device = d /\ lock'.row.status = "revoked"
    BY <2>1, <2>2
  <2>. QED
    BY <2>1, <2>3 DEF WritesSound, SoundSave
<1>9. CASE PerformLate
  <2>1. PICK w \in late : LateWrite(w)
    BY <1>9 DEF PerformLate
  <2>2. /\ w \in Write /\ SoundSave(w) /\ rows' = Performed(w)
        /\ late' = late \ {w} /\ lock' = lock
    BY <1>9, <2>1 DEF PerformLate, LateWrite, WritesSound
  <2>3. \A v \in late' : SoundSave(v)'
    BY <2>2, SoundPreserved DEF WritesSound
  <2>4. ASSUME lock.step \in {"revoke_prior", "save_new"}
        PROVE  rows'[lock.device].status = "absent"
    <3>1. lock.device \in Devices
      BY <2>4 DEF TypeOK, Holder, Free
    <3>2. ~Creates(w, lock.device) /\ rows[lock.device].status = "absent"
      BY <2>2, <2>4 DEF WritesSound, Creates
    <3>. QED
      BY <2>2, <3>1, <3>2, WriteOnRow
  <2>5. ASSUME lock.step = "save_revoked"
        PROVE  rows'[lock.device].status # "absent"
    <3>1. lock.device \in Devices
      BY <2>5 DEF TypeOK, Holder, Free
    <3>2. rows[lock.device].status \in {"active", "revoked"}
      BY <2>5, <3>1 DEF WritesSound, TypeOK, RepositoryTypeOK, Row
    <3>. QED
      BY <2>2, <3>1, <3>2, WriteOnRow
  <2>. QED
    BY <2>2, <2>3, <2>4, <2>5 DEF WritesSound
<1>10. CASE \/ \E o \in Owners, p \in Pairings : IssueChallenge(o, p) \/ BeginSession(o, p)
            \/ \E p \in Pairings, c \in Codes : AttachCode(p, c)
            \/ \E c \in Codes : Claim(c)
            \/ \E t \in Threads, m \in Messages : Admit(t, m)
            \/ \E t \in Threads : Verify(t)
            \/ Tick \/ Restart \/ UNCHANGED vars
  <2>1. rows' = rows /\ late' = late
    BY <1>10 DEF IssueChallenge, BeginSession, NewPairing, AttachCode, Claim,
       Admit, Verify, Tick, Restart, vars
  <2>2. ASSUME NEW t \in Threads, Verify(t)
        PROVE  lock' = Free \/ lock'.step = "advance"
    BY <2>2 DEF Verify
  <2>3. lock' = lock \/ lock' = Free \/ lock'.step = "advance"
    BY <1>10, <2>2 DEF IssueChallenge, BeginSession, NewPairing, AttachCode, Claim,
       Admit, Tick, Restart, vars
  <2>. QED
    BY <1>2, <2>1, <2>3
<1>. QED
  BY <1>3, <1>4, <1>5, <1>6, <1>7, <1>8, <1>9, <1>10
     DEF Next, RegisterDevice, RegisterPairedDevice

LEMMA SoundAlways == Spec => [](TypeOK /\ WritesSound)
BY InitType, NextType, InitSound, NextSound, PTL DEF Spec

----------------------------------------------------------------------------
(* What no step may do to a row, late writes and restarts included. *)

\* A revoked device is never active again.
THEOREM RevocationIsPermanent == Spec => RevocationPermanent
<1>1. ASSUME TypeOK, WritesSound, [Next]_vars
      PROVE  \A d \in Devices : rows[d].status = "revoked" => rows'[d].status = "revoked"
  BY <1>1, TableStep, WriteOnRow DEF TypeOK
<1>2. TypeOK /\ WritesSound /\ [Next]_vars
        => [\A d \in Devices : rows[d].status = "revoked" => rows'[d].status = "revoked"]_vars
  BY <1>1
<1>. QED
  BY <1>2, SoundAlways, PTL DEF Spec, RevocationPermanent

\* The stored number moves back only in the write that revokes the device.
THEOREM SequenceIsKept == Spec => SequenceLostWithDevice
<1>1. ASSUME TypeOK, WritesSound, [Next]_vars, NEW d \in Devices,
             rows[d].status # "absent", rows'[d].lastSequence < rows[d].lastSequence
      PROVE  rows'[d].status = "revoked"
  <2>1. /\ rows[d] \in Row /\ rows'[d] \in Row
    BY <1>1, NextType DEF TypeOK, RepositoryTypeOK
  <2>2. /\ rows[d].status \in {"active", "revoked"}
        /\ rows'[d].status \in {"absent", "active", "revoked"}
        /\ rows[d].lastSequence \in Nat /\ rows'[d].lastSequence \in Nat
    BY <1>1, <2>1 DEF Row
  <2>3. PICK w \in Write : SoundSave(w) /\ rows' = Performed(w)
    BY <1>1, <2>2, TableStep
  <2>. QED
    BY <1>1, <2>2, <2>3, WriteOnRow DEF TypeOK
<1>2. TypeOK /\ WritesSound /\ [Next]_vars
        => [\A d \in Devices :
              rows[d].status # "absent" /\ rows'[d].lastSequence < rows[d].lastSequence
                => rows'[d].status = "revoked"]_vars
  BY <1>1
<1>. QED
  BY <1>2, SoundAlways, PTL DEF Spec, SequenceLostWithDevice

----------------------------------------------------------------------------
(* Messages are accepted once and in order. *)

\* The strengthening: what was accepted from an active device is covered by
\* its durable high-water mark, and nothing is accepted before enrolment.
AcceptedCovered ==
  \A d \in Devices :
    /\ rows[d].status = "absent" => accepted[d] = <<>>
    /\ Active(d) => \A i \in 1..Len(accepted[d]) : accepted[d][i] <= rows[d].lastSequence

LEMMA InitAccepted == Init => AcceptedCovered /\ AcceptedInOrder
BY DEF Init, RepositoryInit, AbsentRow, AcceptedCovered, AcceptedInOrder, Active

\* A step that accepts nothing keeps the history covered.
LEMMA CoveredPreserved ==
  ASSUME TypeOK, WritesSound, AcceptedCovered, [Next]_vars, accepted' = accepted
  PROVE  AcceptedCovered'
<1>. SUFFICES ASSUME NEW d \in Devices
              PROVE  /\ rows'[d].status = "absent" => accepted[d] = <<>>
                     /\ rows'[d].status = "active" =>
                          \A i \in 1..Len(accepted[d]) : accepted[d][i] <= rows'[d].lastSequence
  BY DEF AcceptedCovered, Active
<1>1. /\ rows[d] \in Row /\ rows'[d] \in Row /\ accepted[d] \in Seq(Nat)
  BY NextType DEF TypeOK, RepositoryTypeOK
<1>2. /\ rows[d].status \in {"absent", "active", "revoked"}
      /\ rows[d].lastSequence \in Nat /\ rows'[d].lastSequence \in Nat
      /\ \A i \in 1..Len(accepted[d]) : accepted[d][i] \in Nat
  BY <1>1 DEF Row
<1>3. CASE rows' = rows
  BY <1>3 DEF AcceptedCovered, Active
<1>4. ASSUME NEW w \in Write, SoundSave(w), rows' = Performed(w)
      PROVE  /\ rows'[d].status = "absent" => rows[d].status = "absent"
             /\ rows'[d].status = "active" /\ rows[d].status = "active" =>
                  rows'[d].lastSequence >= rows[d].lastSequence
             /\ rows'[d].status = "active" => rows[d].status # "revoked"
  BY <1>2, <1>4, WriteOnRow DEF TypeOK
<1>5. CASE rows' # rows
  <2>1. /\ rows'[d].status = "absent" => rows[d].status = "absent"
        /\ rows'[d].status = "active" /\ rows[d].status = "active" =>
             rows'[d].lastSequence >= rows[d].lastSequence
        /\ rows'[d].status = "active" => rows[d].status # "revoked"
    BY <1>4, <1>5, TableStep
  <2>2. CASE rows[d].status = "absent"
    <3>1. accepted[d] = <<>>
      BY <2>2 DEF AcceptedCovered
    <3>. QED
      BY <3>1
  <2>3. CASE rows[d].status = "active"
    <3>1. \A i \in 1..Len(accepted[d]) : accepted[d][i] <= rows[d].lastSequence
      BY <2>3 DEF AcceptedCovered, Active
    <3>2. rows'[d].status = "active" =>
            \A i \in 1..Len(accepted[d]) : accepted[d][i] <= rows'[d].lastSequence
      BY <1>2, <2>1, <2>3, <3>1
    <3>. QED
      BY <2>1, <2>3, <3>2
  <2>4. CASE rows[d].status = "revoked"
    BY <2>1, <2>4
  <2>. QED
    BY <1>2, <2>2, <2>3, <2>4
<1>. QED
  BY <1>3, <1>5

LEMMA NextAccepted ==
  TypeOK /\ WritesSound /\ AcceptedCovered /\ AcceptedInOrder /\ [Next]_vars
    => AcceptedCovered' /\ AcceptedInOrder'
<1>. SUFFICES ASSUME TypeOK, WritesSound, AcceptedCovered, AcceptedInOrder, [Next]_vars
              PROVE  AcceptedCovered' /\ AcceptedInOrder'
  OBVIOUS
<1>. USE DEF volatile, history
<1>1. CASE accepted' = accepted
  BY <1>1, CoveredPreserved DEF AcceptedInOrder
<1>2. ASSUME NEW outcome \in WriteOutcomes, Advance(outcome), accepted' # accepted
      PROVE  AcceptedCovered' /\ AcceptedInOrder'
  <2>. DEFINE m == lock.message
              dev == m.device
              old == accepted[dev]
  <2>1. m \in Messages
    BY <1>2 DEF Advance, TypeOK, Holder, Free
  <2>2. dev \in Devices /\ m.sequence \in Nat /\ old \in Seq(Nat)
    BY <2>1, MessagesAssumption DEF TypeOK
  <2>3. /\ outcome = "stored" /\ AdvanceMatches(dev, m.sequence)
        /\ accepted' = [accepted EXCEPT ![dev] = Append(old, m.sequence)]
        /\ Request([kind |-> "advance", device |-> dev, sequence |-> m.sequence], outcome)
    BY <1>2 DEF Advance
  <2>4. rows' = [rows EXCEPT ![dev].lastSequence = m.sequence]
    BY <2>3 DEF Request, Performed, SequenceAdvanced
  <2>5. rows[dev].status = "active" /\ m.sequence > rows[dev].lastSequence
        /\ rows[dev].lastSequence \in Nat
    BY <2>2, <2>3 DEF AdvanceMatches, TypeOK, RepositoryTypeOK, Row
  <2>6. rows'[dev].status = "active" /\ rows'[dev].lastSequence = m.sequence
    BY <2>2, <2>4, <2>5 DEF TypeOK, RepositoryTypeOK, Row
  <2>7. \A i \in 1..Len(old) : old[i] \in Nat /\ old[i] < m.sequence
    BY <2>2, <2>5 DEF AcceptedCovered, Active
  <2>8. /\ Len(accepted'[dev]) = Len(old) + 1 /\ Len(old) \in Nat
        /\ \A i \in 1..Len(old) : accepted'[dev][i] = old[i]
        /\ accepted'[dev][Len(old) + 1] = m.sequence
    BY <2>2, <2>3 DEF TypeOK
  <2>. HIDE DEF m, dev, old
  <2>9. \A d \in Devices : d # dev => accepted'[d] = accepted[d] /\ rows'[d] = rows[d]
    BY <2>2, <2>3, <2>4 DEF TypeOK, RepositoryTypeOK
  <2>10. AcceptedCovered'
    <3>1. ASSUME NEW i \in 1..Len(accepted'[dev])
          PROVE  accepted'[dev][i] <= m.sequence
      BY <2>2, <2>7, <2>8
    <3>. QED
      BY <2>6, <2>9, <3>1 DEF AcceptedCovered, Active
  <2>11. AcceptedInOrder'
    <3>1. ASSUME NEW i \in 1..Len(accepted'[dev]), NEW j \in 1..Len(accepted'[dev]), i < j
          PROVE  accepted'[dev][i] < accepted'[dev][j]
      <4>1. i \in 1..Len(old)
        BY <2>8, <3>1
      <4>2. CASE j = Len(old) + 1
        BY <2>7, <2>8, <4>1, <4>2
      <4>3. CASE j \in 1..Len(old)
        <5>1. old[i] < old[j]
          BY <2>2, <3>1, <4>1, <4>3 DEF AcceptedInOrder, old
        <5>. QED
          BY <2>8, <4>1, <4>3, <5>1
      <4>. QED
        BY <2>8, <4>2, <4>3
    <3>. QED
      BY <2>9, <3>1 DEF AcceptedInOrder
  <2>. QED
    BY <2>10, <2>11
<1>. QED
  <2>1. CASE \E outcome \in WriteOutcomes : Advance(outcome)
    BY <1>1, <1>2, <2>1
  <2>2. CASE ~ \E outcome \in WriteOutcomes : Advance(outcome)
    <3>1. accepted' = accepted
      BY <2>2 DEF Next, IssueChallenge, BeginSession, NewPairing, AttachCode, Claim,
         RegisterDevice, RegisterPairedDevice, BeginEnrollment, RevokePrior, SaveNew,
         SaveRevoked, BeginRevoke, Admit, Verify, PerformLate, Tick, Restart, vars
    <3>. QED
      BY <1>1, <3>1
  <2>. QED
    BY <2>1, <2>2

\* No message is accepted twice or after a newer one, across restarts.
THEOREM AcceptanceIsOrdered == Spec => []AcceptedInOrder
<1>1. Spec => [](AcceptedCovered /\ AcceptedInOrder)
  BY SoundAlways, InitAccepted, NextAccepted, PTL DEF Spec
<1>. QED
  BY <1>1, PTL

----------------------------------------------------------------------------
(* One active device per owner, when no write outlives its request. *)

\* Between the revocation of the prior device and the insert of the new one
\* the owner has no active device, and the lock keeps it so.
OwnerCleared ==
  lock.step = "save_new" =>
    \A d \in Devices : ~(Active(d) /\ rows[d].owner = lock.owner)

OneActiveInv ==
  TypeOK /\ WritesSound /\ late = {} /\ OneActiveDevice /\ OwnerCleared

LEMMA InitOneActive == Init => OneActiveInv
<1>1. Init => OneActiveDevice /\ OwnerCleared /\ late = {}
  BY DEF Init, RepositoryInit, AbsentRow, OneActiveDevice, OwnerCleared, Active, Free
<1>. QED
  BY <1>1, InitType, InitSound DEF OneActiveInv

\* A step after which no device is newly active, and the active ones keep
\* their owners, cannot break the rule.
LEMMA FewerActive ==
  ASSUME OneActiveDevice,
         \A d \in Devices : rows'[d].status = "active" =>
           Active(d) /\ rows'[d].owner = rows[d].owner
  PROVE  OneActiveDevice'
BY DEF OneActiveDevice, Active

LEMMA NextOneActive ==
  ASSUME "late" \notin WriteOutcomes
  PROVE  OneActiveInv /\ [Next]_vars => OneActiveInv'
<1>. SUFFICES ASSUME OneActiveInv, [Next]_vars PROVE OneActiveInv'
  OBVIOUS
<1>. USE DEF volatile, history
<1>. /\ TypeOK /\ WritesSound /\ late = {} /\ OneActiveDevice /\ OwnerCleared
     /\ TypeOK' /\ WritesSound'
  BY NextType, NextSound DEF OneActiveInv
<1>. rows \in [Devices -> Row] /\ rows' \in [Devices -> Row]
  BY DEF TypeOK, RepositoryTypeOK
<1>1. ASSUME NEW outcome \in WriteOutcomes, NEW w, Request(w, outcome)
      PROVE  late' = {} /\ (rows' = rows \/ rows' = Performed(w))
  BY <1>1 DEF Request
<1>2. ASSUME NEW outcome \in WriteOutcomes, RevokePrior(outcome)
      PROVE  OneActiveInv'
  <2>. DEFINE w == [kind |-> "revoke_active", owner |-> lock.owner,
                    pairing |-> lock.pairing]
  <2>1. /\ lock.step = "revoke_prior" /\ lock \in Holder /\ Request(w, outcome)
        /\ lock' = IF outcome = "stored" THEN [lock EXCEPT !.step = "save_new"] ELSE Free
    BY <1>2 DEF RevokePrior, TypeOK
  <2>2. Performed(w) = ActiveRevoked(lock.owner)
    BY DEF Performed
  <2>3. \A d \in Devices :
          \/ ActiveRevoked(lock.owner)[d].status = "revoked"
          \/ /\ ActiveRevoked(lock.owner)[d] = rows[d]
             /\ ~(rows[d].status = "active" /\ rows[d].owner = lock.owner)
    BY DEF ActiveRevoked, Row
  <2>4. late' = {} /\ (rows' = rows \/ rows' = ActiveRevoked(lock.owner))
    BY <1>1, <2>1, <2>2
  <2>5. \A d \in Devices : rows'[d].status = "active" =>
          Active(d) /\ rows'[d].owner = rows[d].owner
    BY <2>3, <2>4 DEF Active
  <2>6. OneActiveDevice'
    BY <2>5, FewerActive
  <2>7. OwnerCleared'
    <3>1. CASE outcome = "stored"
      <4>1. lock'.owner = lock.owner
        BY <2>1, <3>1 DEF Holder, Free
      <4>2. rows' = ActiveRevoked(lock.owner)
        BY <2>1, <2>2, <3>1 DEF Request
      <4>. QED
        BY <2>3, <4>1, <4>2 DEF OwnerCleared, Active
    <3>2. CASE outcome # "stored"
      BY <2>1, <3>2 DEF OwnerCleared, Free
    <3>. QED
      BY <3>1, <3>2
  <2>. QED
    BY <2>4, <2>6, <2>7 DEF OneActiveInv
<1>3. ASSUME NEW outcome \in WriteOutcomes, SaveNew(outcome)
      PROVE  OneActiveInv'
  <2>. DEFINE w == [kind |-> "save", device |-> lock.device, row |-> NewRow]
  <2>1. /\ lock.step = "save_new" /\ lock.device \in Devices
        /\ Request(w, outcome) /\ lock' = Free
    BY <1>3 DEF SaveNew, TypeOK, Holder, Free
  <2>2. Performed(w) = [rows EXCEPT ![lock.device] = NewRow]
    BY DEF Performed, Saved
  <2>3. late' = {} /\ (rows' = rows \/ rows' = [rows EXCEPT ![lock.device] = NewRow])
    BY <1>1, <2>1, <2>2
  <2>4. \A d \in Devices : ~(rows[d].status = "active" /\ rows[d].owner = lock.owner)
    BY <2>1 DEF OwnerCleared, Active
  <2>5. OneActiveDevice'
    <3>1. CASE rows' = rows
      BY <3>1 DEF OneActiveDevice, Active
    <3>2. CASE rows' = [rows EXCEPT ![lock.device] = NewRow]
      <4>1. /\ rows'[lock.device].owner = lock.owner
            /\ \A d \in Devices : d # lock.device => rows'[d] = rows[d]
        BY <2>1, <3>2 DEF NewRow
      <4>. QED
        BY <2>1, <2>4, <4>1 DEF OneActiveDevice, Active
    <3>. QED
      BY <2>3, <3>1, <3>2
  <2>. QED
    BY <2>1, <2>3, <2>5 DEF OneActiveInv, OwnerCleared, Free
<1>4. ASSUME NEW outcome \in WriteOutcomes, SaveRevoked(outcome)
      PROVE  OneActiveInv'
  <2>. DEFINE w == [kind |-> "save", device |-> lock.device, row |-> lock.row]
  <2>1. /\ lock.device \in Devices /\ lock.row.status = "revoked"
        /\ Request(w, outcome) /\ lock' = Free
    BY <1>4 DEF SaveRevoked, TypeOK, Holder, Free, WritesSound
  <2>2. Performed(w) = [rows EXCEPT ![lock.device] = lock.row]
    BY DEF Performed, Saved
  <2>3. late' = {} /\ (rows' = rows \/ rows' = [rows EXCEPT ![lock.device] = lock.row])
    BY <1>1, <2>1, <2>2
  <2>4. \A d \in Devices : rows'[d].status = "active" => rows'[d] = rows[d]
    BY <2>1, <2>3
  <2>5. OneActiveDevice'
    BY <2>4, FewerActive DEF Active
  <2>. QED
    BY <2>1, <2>3, <2>5 DEF OneActiveInv, OwnerCleared, Free
<1>5. ASSUME NEW outcome \in WriteOutcomes, Advance(outcome)
      PROVE  OneActiveInv'
  <2>. DEFINE dev == lock.message.device
              s == lock.message.sequence
              w == [kind |-> "advance", device |-> dev, sequence |-> s]
  <2>1. Request(w, outcome) /\ lock' = Free
    BY <1>5 DEF Advance
  <2>2. Performed(w) = SequenceAdvanced(dev, s)
    BY DEF Performed
  <2>3. late' = {} /\ (rows' = rows \/ rows' = [rows EXCEPT ![dev].lastSequence = s])
    BY <1>1, <2>1, <2>2 DEF SequenceAdvanced
  <2>4. \A d \in Devices : rows'[d].status = rows[d].status /\ rows'[d].owner = rows[d].owner
    BY <2>3 DEF Row
  <2>5. OneActiveDevice'
    BY <2>4, FewerActive DEF Active
  <2>. QED
    BY <2>1, <2>3, <2>5 DEF OneActiveInv, OwnerCleared, Free
<1>6. ASSUME rows' = rows, late' = late, lock'.step = "save_new" => lock' = lock
      PROVE  OneActiveInv'
  BY <1>6 DEF OneActiveInv, OneActiveDevice, OwnerCleared, Active
<1>7. ~PerformLate
  BY DEF PerformLate
<1>8. CASE \/ \E o \in Owners, p \in Pairings : IssueChallenge(o, p) \/ BeginSession(o, p)
           \/ \E p \in Pairings, c \in Codes : AttachCode(p, c)
           \/ \E c \in Codes : Claim(c)
           \/ \E o \in Owners, p \in Pairings, d \in Devices : RegisterDevice(o, p, d)
           \/ \E p \in Pairings, d \in Devices : RegisterPairedDevice(p, d)
           \/ \E o \in Owners, d \in Devices : BeginRevoke(o, d)
           \/ \E t \in Threads, m \in Messages : Admit(t, m)
           \/ \E t \in Threads : Verify(t)
           \/ Tick \/ Restart \/ UNCHANGED vars
  <2>1. rows' = rows /\ late' = late
    BY <1>8 DEF IssueChallenge, BeginSession, NewPairing, AttachCode, Claim,
       RegisterDevice, RegisterPairedDevice, BeginEnrollment, BeginRevoke,
       Admit, Verify, Tick, Restart, vars
  <2>2. ASSUME NEW o \in Owners, NEW p \in Pairings, NEW d \in Devices,
               BeginEnrollment(o, p, d)
        PROVE  lock'.step # "save_new"
    BY <2>2 DEF BeginEnrollment
  <2>3. ASSUME NEW o \in Owners, NEW d \in Devices, BeginRevoke(o, d)
        PROVE  lock'.step # "save_new"
    BY <2>3 DEF BeginRevoke
  <2>4. ASSUME NEW t \in Threads, Verify(t)
        PROVE  lock'.step # "save_new"
    BY <2>4 DEF Verify, Free
  <2>5. CASE \/ \E o \in Owners, p \in Pairings : IssueChallenge(o, p) \/ BeginSession(o, p)
             \/ \E p \in Pairings, c \in Codes : AttachCode(p, c)
             \/ \E c \in Codes : Claim(c)
             \/ \E t \in Threads, m \in Messages : Admit(t, m)
             \/ Tick \/ UNCHANGED vars
    <3>1. lock' = lock
      BY <2>5 DEF IssueChallenge, BeginSession, NewPairing, AttachCode, Claim, Admit,
         Tick, vars
    <3>. QED
      BY <1>6, <2>1, <3>1
  <2>6. CASE \/ \E o \in Owners, p \in Pairings, d \in Devices : RegisterDevice(o, p, d)
             \/ \E p \in Pairings, d \in Devices : RegisterPairedDevice(p, d)
    BY <1>6, <2>1, <2>2, <2>6 DEF RegisterDevice, RegisterPairedDevice
  <2>7. CASE Restart
    <3>1. lock'.step # "save_new"
      BY <2>7 DEF Restart, Free
    <3>. QED
      BY <1>6, <2>1, <3>1
  <2>. QED
    BY <1>6, <1>8, <2>1, <2>3, <2>4, <2>5, <2>6, <2>7
<1>. QED
  BY <1>2, <1>3, <1>4, <1>5, <1>7, <1>8 DEF Next

\* When no write outlives its request an owner never has two active devices,
\* whatever fails or restarts between the revocation and the insert.
THEOREM OneActiveDeviceAlways ==
  ASSUME "late" \notin WriteOutcomes
  PROVE  Spec => []OneActiveDevice
<1>1. OneActiveInv /\ [Next]_vars => OneActiveInv'
  BY NextOneActive
<1>2. OneActiveInv => OneActiveDevice
  BY DEF OneActiveInv
<1>. QED
  BY <1>1, <1>2, InitOneActive, PTL DEF Spec

=============================================================================
