----------------------- MODULE DeviceEnrollmentProofs -----------------------
(***************************************************************************)
(* Theorems about pairing codes, pairings and enrolled devices, for every  *)
(* number of owners, devices, pairings and codes.                          *)
(*                                                                         *)
(* A pairing's owner and a device reach a row by way of the lock's holder  *)
(* and of writes that the table may perform late.  The invariants speak of *)
(* all those places at once: a device is bound to a pairing and an owner   *)
(* wherever a row says so, or will say so.                                 *)
(***************************************************************************)
EXTENDS DeviceBrokerProofs

----------------------------------------------------------------------------
(* The inductive invariants. *)

\* A code belongs to the session it was displayed for, and once it was
\* exchanged that session knows.
CodesInv ==
  \A c \in Codes :
    /\ claims[c] # <<>> => shownFor[c] # None /\ claims[c] = <<shownFor[c]>>
    /\ \A p \in Pairings : pairings[p].code = c =>
         shownFor[c] = p /\ (claims[c] # <<>> => pairings[p].claimed)

\* A row, a write under way or the lock's holder gives the device d, enrolled
\* by the pairing p, to the owner o.
Bound(d, p, o) ==
  \/ rows[d].status # "absent" /\ rows[d].pairing = p /\ rows[d].owner = o
  \/ \E w \in late : /\ w.kind = "save" /\ w.device = d
                     /\ w.row.pairing = p /\ w.row.owner = o
  \/ /\ lock.step \in {"revoke_prior", "save_new"} /\ lock.device = d
     /\ lock.pairing = p /\ lock.owner = o
  \/ /\ lock.step = "save_revoked" /\ lock.device = d
     /\ lock.row.pairing = p /\ lock.row.owner = o

SomePairing == Pairings \cup {None}
SomeOwner == Owners \cup {None}

\* A pairing is its issuer's.
IssuedInv ==
  \A p \in Pairings : pairings[p].status # "absent" =>
    pairings[p].owner \in Owners /\ issuer[p] = pairings[p].owner

\* A bound pairing is spent, was issued to the owner, and binds no other
\* device; an id is issued once, so this outlives the process.
BoundInv ==
  /\ \A d \in Devices, p \in SomePairing, o \in SomeOwner : Bound(d, p, o) =>
       /\ p \in Pairings /\ o \in Owners
       /\ issuer[p] = o /\ pairings[p].status # "open"
  /\ \A d1, d2 \in Devices, p \in SomePairing, o1, o2 \in SomeOwner :
       Bound(d1, p, o1) /\ Bound(d2, p, o2) => d1 = d2

\* While an owner's registration is under way no device counts as enrolled for
\* the owner, nor does one whose revocation is under way for anyone.
EnrolledInv ==
  /\ lock.step \in {"revoke_prior", "save_new"} => enrolled[lock.owner] = None
  /\ lock.step = "save_revoked" => \A o \in Owners : enrolled[o] # lock.device

----------------------------------------------------------------------------
(* Codes. *)

LEMMA InitCodes == Init => CodesInv
BY NoCodeAssumption DEF Init, CodesInv, AbsentPairing

LEMMA NextCodes == TypeOK /\ CodesInv /\ [Next]_vars => CodesInv'
<1>. SUFFICES ASSUME TypeOK, CodesInv, [Next]_vars PROVE CodesInv'
  OBVIOUS
<1>. USE DEF volatile, history
<1>1. /\ pairings \in [Pairings -> Pairing] /\ claims \in [Codes -> Seq(Pairings)]
      /\ shownFor \in [Codes -> Pairings \cup {None}]
      /\ None \notin Codes /\ None \notin Pairings
  BY NoCodeAssumption, NoneAssumption DEF TypeOK
<1>2. ASSUME NEW o \in Owners, NEW p \in Pairings, NewPairing(o, p)
      PROVE  CodesInv'
  <2>1. /\ claims' = claims /\ shownFor' = shownFor
        /\ pairings'[p].code = None
        /\ \A q \in Pairings : q # p => pairings'[q] = pairings[q]
    BY <1>1, <1>2 DEF NewPairing
  <2>. QED
    BY <1>1, <2>1 DEF CodesInv
<1>3. ASSUME NEW p \in Pairings, NEW c \in Codes, AttachCode(p, c)
      PROVE  CodesInv'
  <2>1. /\ claims' = claims /\ shownFor[c] = None /\ shownFor'[c] = p
        /\ \A other \in Codes : other # c => shownFor'[other] = shownFor[other]
        /\ pairings' = [pairings EXCEPT ![p].code = c, ![p].claimed = FALSE]
    BY <1>1, <1>3 DEF AttachCode
  <2>2. pairings'[p].code = c /\ \A q \in Pairings : q # p => pairings'[q] = pairings[q]
    BY <1>1, <2>1 DEF Pairing
  <2>3. claims[c] = <<>> /\ \A q \in Pairings : pairings[q].code # c
    BY <1>1, <2>1 DEF CodesInv
  <2>. QED
    BY <1>1, <2>1, <2>2, <2>3 DEF CodesInv
<1>4. ASSUME NEW c \in Codes, Claim(c)
      PROVE  CodesInv'
  <2>1. codeIndex[Prefix[c]] \in Pairings
    BY <1>4, PrefixAssumption DEF Claim, TypeOK
  <2>2. PICK p \in Pairings :
          /\ Claimable(p, c)
          /\ pairings' = [pairings EXCEPT ![p].claimed = TRUE]
          /\ claims' = [claims EXCEPT ![c] = Append(@, p)]
          /\ shownFor' = shownFor
    BY <1>4, <2>1 DEF Claim
  <2>3. shownFor[c] = p /\ claims[c] = <<>>
    BY <2>2 DEF Claimable, CodesInv
  <2>4. Append(<<>>, p) = <<p>>
    OBVIOUS
  <2>5. /\ claims'[c] = <<p>>
        /\ \A other \in Codes : other # c => claims'[other] = claims[other]
    BY <1>1, <2>2, <2>3, <2>4
  <2>6. /\ pairings'[p].claimed = TRUE /\ pairings'[p].code = pairings[p].code
        /\ \A q \in Pairings : q # p => pairings'[q] = pairings[q]
    BY <1>1, <2>2 DEF Pairing
  <2>. QED
    BY <1>1, <2>2, <2>3, <2>5, <2>6 DEF CodesInv, Claimable
<1>5. ASSUME NEW o \in Owners, NEW p \in Pairings, NEW d \in Devices,
             BeginEnrollment(o, p, d)
      PROVE  CodesInv'
  <2>1. /\ claims' = claims /\ shownFor' = shownFor
        /\ \A q \in Pairings : /\ pairings'[q].code = pairings[q].code
                                /\ pairings'[q].claimed = pairings[q].claimed
    BY <1>1, <1>5 DEF BeginEnrollment, Pairing
  <2>. QED
    BY <2>1 DEF CodesInv
<1>6. CASE Restart
  BY <1>1, <1>6 DEF Restart, AbsentPairing, CodesInv
<1>7. CASE UNCHANGED <<pairings, shownFor, claims>>
  BY <1>7 DEF CodesInv
<1>. QED
  BY <1>2, <1>3, <1>4, <1>5, <1>6, <1>7 DEF Next, IssueChallenge, BeginSession,
     RegisterDevice, RegisterPairedDevice, RevokePrior, SaveNew, SaveRevoked, Advance,
     BeginRevoke, Admit, Verify, PerformLate, Tick, vars

\* A displayed code is exchanged at most once, and for its own session.
THEOREM CodesWorkOnce == Spec => []CodeExchangedOnce
<1>1. TypeOK /\ CodesInv => CodeExchangedOnce
  BY DEF CodesInv, CodeExchangedOnce
<1>. QED
  BY <1>1, TypeCorrect, InitCodes, NextCodes, PTL DEF Spec

----------------------------------------------------------------------------
(* Pairings and the devices bound to them. *)

\* A pairing id keeps its issuer, and a spent one is never open again.
LEMMA PairingStep ==
  ASSUME TypeOK, IssuedInv, [Next]_vars
  PROVE  /\ IssuedInv'
         /\ \A p \in Pairings : issuer[p] # None =>
              /\ issuer'[p] = issuer[p]
              /\ pairings[p].status # "open" => pairings'[p].status # "open"
<1>. DEFINE Kept == \A p \in Pairings : issuer[p] # None =>
                      /\ issuer'[p] = issuer[p]
                      /\ pairings[p].status # "open" => pairings'[p].status # "open"
<1>. SUFFICES IssuedInv' /\ Kept
  OBVIOUS
<1>. USE DEF volatile, history
<1>1. /\ pairings \in [Pairings -> Pairing] /\ issuer \in [Pairings -> Owners \cup {None}]
      /\ None \notin Owners
  BY NoneAssumption DEF TypeOK
<1>2. ASSUME NEW o \in Owners, NEW p \in Pairings, NewPairing(o, p)
      PROVE  IssuedInv' /\ Kept
  <2>1. /\ pairings'[p].owner = o /\ issuer'[p] = o /\ issuer[p] = None
        /\ \A q \in Pairings : q # p => pairings'[q] = pairings[q] /\ issuer'[q] = issuer[q]
    BY <1>1, <1>2 DEF NewPairing
  <2>. QED
    BY <2>1 DEF IssuedInv
<1>3. ASSUME issuer' = issuer,
             \A p \in Pairings : /\ pairings'[p].owner = pairings[p].owner
                                 /\ \/ pairings'[p].status = pairings[p].status
                                    \/ /\ pairings[p].status = "open"
                                       /\ pairings'[p].status = "consumed"
      PROVE  IssuedInv' /\ Kept
  BY <1>3 DEF IssuedInv
<1>4. ASSUME NEW p \in Pairings, NEW c \in Codes, AttachCode(p, c)
      PROVE  IssuedInv' /\ Kept
  <2>1. /\ issuer' = issuer
        /\ \A q \in Pairings : /\ pairings'[q].owner = pairings[q].owner
                               /\ pairings'[q].status = pairings[q].status
    BY <1>1, <1>4 DEF AttachCode, Pairing
  <2>. QED
    BY <1>3, <2>1
<1>5. ASSUME NEW c \in Codes, Claim(c)
      PROVE  IssuedInv' /\ Kept
  <2>1. PICK p : /\ pairings' = [pairings EXCEPT ![p].claimed = TRUE]
                 /\ issuer' = issuer
    BY <1>5 DEF Claim
  <2>2. \A q \in Pairings : /\ pairings'[q].owner = pairings[q].owner
                            /\ pairings'[q].status = pairings[q].status
    BY <1>1, <2>1 DEF Pairing
  <2>. QED
    BY <1>3, <2>1, <2>2
<1>6. ASSUME NEW o \in Owners, NEW p \in Pairings, NEW d \in Devices,
             BeginEnrollment(o, p, d)
      PROVE  IssuedInv' /\ Kept
  <2>1. /\ issuer' = issuer /\ pairings[p].status = "open"
        /\ pairings' = [pairings EXCEPT ![p].status = "consumed"]
    BY <1>6 DEF BeginEnrollment, Registrable
  <2>2. /\ pairings'[p].status = "consumed" /\ pairings'[p].owner = pairings[p].owner
        /\ \A q \in Pairings : q # p => pairings'[q] = pairings[q]
    BY <1>1, <2>1 DEF Pairing
  <2>. QED
    BY <1>3, <2>1, <2>2
<1>7. CASE Restart
  BY <1>1, <1>7 DEF Restart, AbsentPairing, IssuedInv
<1>8. CASE UNCHANGED <<pairings, issuer>>
  BY <1>8 DEF IssuedInv
<1>. QED
  BY <1>2, <1>4, <1>5, <1>6, <1>7, <1>8 DEF Next, IssueChallenge, BeginSession,
     RegisterDevice, RegisterPairedDevice, RevokePrior, SaveNew, SaveRevoked, Advance,
     BeginRevoke, Admit, Verify, PerformLate, Tick, vars

\* A write gives a row no other owner or pairing than it had, unless it saves
\* the row whole.
LEMMA WriteBinds ==
  ASSUME RepositoryTypeOK, NEW w \in Write, NEW d \in Devices,
         Performed(w)[d].status # "absent"
  PROVE  \/ /\ rows[d].status # "absent"
            /\ Performed(w)[d].pairing = rows[d].pairing
            /\ Performed(w)[d].owner = rows[d].owner
         \/ w.kind = "save" /\ w.device = d /\ Performed(w)[d] = w.row
<1>. rows \in [Devices -> Row] /\ rows[d] \in Row
  BY DEF RepositoryTypeOK
<1>1. CASE w.kind = "save"
  <2>1. w.device \in Devices
    BY <1>1 DEF Write
  <2>2. Performed(w)[d] = IF w.device = d THEN w.row ELSE rows[d]
    BY <1>1, <2>1 DEF Performed, Saved
  <2>. QED
    BY <1>1, <2>2
<1>2. CASE w.kind = "revoke_active"
  <2>1. \/ Performed(w)[d] = rows[d]
        \/ /\ rows[d].status = "active"
           /\ Performed(w)[d] = [rows[d] EXCEPT !.status = "revoked"]
    BY <1>2 DEF Performed, ActiveRevoked
  <2>. QED
    BY <2>1 DEF Row
<1>3. CASE w.kind = "advance"
  <2>1. w.device \in Devices
    BY <1>3 DEF Write
  <2>2. \/ Performed(w)[d] = rows[d]
        \/ Performed(w)[d] = [rows[d] EXCEPT !.lastSequence = w.sequence]
    BY <1>3, <2>1 DEF Performed, SequenceAdvanced
  <2>. QED
    BY <2>2 DEF Row
<1>. QED
  BY <1>1, <1>2, <1>3 DEF Write

\* The holder that saves a row has bound it.
SavesBound(w) == w.kind = "save" => Bound(w.device, w.row.pairing, w.row.owner)

LEMMA IssuedBound ==
  ASSUME TypeOK
  PROVE  /\ lock.step = "save_new" =>
              SavesBound([kind |-> "save", device |-> lock.device, row |-> NewRow])
         /\ lock.step = "save_revoked" =>
              SavesBound([kind |-> "save", device |-> lock.device, row |-> lock.row])
BY DEF SavesBound, Bound, NewRow

\* A request, and the lock's next step with it, binds nothing new.
LEMMA RequestBinds ==
  ASSUME TypeOK, NEW w \in Write, SavesBound(w), NEW outcome, Request(w, outcome),
         \/ lock' = Free
         \/ /\ lock.step = "revoke_prior" /\ lock'.step = "save_new"
            /\ lock'.device = lock.device /\ lock'.pairing = lock.pairing
            /\ lock'.owner = lock.owner,
         NEW d \in Devices, NEW p, NEW o, Bound(d, p, o)'
  PROVE  Bound(d, p, o)
<1>1. CASE rows'[d].status # "absent" /\ rows'[d].pairing = p /\ rows'[d].owner = o
  <2>1. CASE rows' = rows
    BY <1>1, <2>1 DEF Bound
  <2>2. CASE rows' = Performed(w)
    <3>1. \/ /\ rows[d].status # "absent"
             /\ rows'[d].pairing = rows[d].pairing /\ rows'[d].owner = rows[d].owner
          \/ w.kind = "save" /\ w.device = d /\ rows'[d] = w.row
      BY <1>1, <2>2, WriteBinds DEF TypeOK
    <3>2. CASE /\ rows[d].status # "absent"
               /\ rows'[d].pairing = rows[d].pairing /\ rows'[d].owner = rows[d].owner
      BY <1>1, <3>2 DEF Bound
    <3>3. CASE w.kind = "save" /\ w.device = d /\ rows'[d] = w.row
      <4>1. w.device = d /\ w.row.pairing = p /\ w.row.owner = o
        BY <1>1, <3>3
      <4>. QED
        BY <3>3, <4>1 DEF SavesBound
    <3>. QED
      BY <3>1, <3>2, <3>3
  <2>. QED
    BY <2>1, <2>2 DEF Request
<1>2. ASSUME NEW v \in late', v.kind = "save", v.device = d,
             v.row.pairing = p, v.row.owner = o
      PROVE  Bound(d, p, o)
  <2>1. v \in late \/ v = w
    BY <1>2 DEF Request
  <2>2. CASE v \in late
    BY <1>2, <2>2 DEF Bound
  <2>3. CASE v = w
    BY <1>2, <2>3 DEF SavesBound
  <2>. QED
    BY <2>1, <2>2, <2>3
<1>3. CASE /\ lock'.step \in {"revoke_prior", "save_new"} /\ lock'.device = d
           /\ lock'.pairing = p /\ lock'.owner = o
  <2>1. /\ lock.step = "revoke_prior" /\ lock.device = d
        /\ lock.pairing = p /\ lock.owner = o
    BY <1>3 DEF Free
  <2>. QED
    BY <2>1 DEF Bound
<1>4. ~(lock'.step = "save_revoked")
  BY DEF Free
<1>. QED
  BY <1>1, <1>2, <1>3, <1>4 DEF Bound

\* Only the beginning of an enrolment binds a device.
LEMMA BoundStep ==
  ASSUME TypeOK, [Next]_vars, NEW d \in Devices, NEW p, NEW o, Bound(d, p, o)'
  PROVE  \/ Bound(d, p, o)
         \/ p \in Pairings /\ o \in Owners /\ BeginEnrollment(o, p, d)
<1>. USE DEF volatile, history
<1>1. ASSUME NEW outcome \in WriteOutcomes, RevokePrior(outcome)
      PROVE  Bound(d, p, o)
  <2>. DEFINE w == [kind |-> "revoke_active", owner |-> lock.owner, pairing |-> lock.pairing]
  <2>1. lock.step = "revoke_prior" /\ w \in Write /\ Request(w, outcome) /\ SavesBound(w)
    BY <1>1, IssuedWrites DEF RevokePrior, SavesBound
  <2>2. \/ lock' = Free
        \/ lock' = [lock EXCEPT !.step = "save_new"]
    BY <1>1 DEF RevokePrior
  <2>3. lock' = [lock EXCEPT !.step = "save_new"] =>
          /\ lock'.step = "save_new" /\ lock'.device = lock.device
          /\ lock'.pairing = lock.pairing /\ lock'.owner = lock.owner
    BY <2>1 DEF TypeOK, Holder, Free
  <2>. HIDE DEF w
  <2>. QED
    BY <2>1, <2>2, <2>3, RequestBinds
<1>2. ASSUME NEW outcome \in WriteOutcomes,
             SaveNew(outcome) \/ SaveRevoked(outcome) \/ Advance(outcome)
      PROVE  Bound(d, p, o)
  <2>1. PICK w \in Write : Request(w, outcome) /\ SavesBound(w)
    <3>1. CASE SaveNew(outcome)
      BY <3>1, IssuedWrites, IssuedBound DEF SaveNew
    <3>2. CASE SaveRevoked(outcome)
      BY <3>2, IssuedWrites, IssuedBound DEF SaveRevoked
    <3>3. CASE Advance(outcome)
      BY <3>3, IssuedWrites DEF Advance, SavesBound
    <3>. QED
      BY <1>2, <3>1, <3>2, <3>3
  <2>2. lock' = Free
    BY <1>2 DEF SaveNew, SaveRevoked, Advance
  <2>. QED
    BY <2>1, <2>2, RequestBinds
<1>3. CASE PerformLate
  <2>1. PICK w \in late : LateWrite(w)
    BY <1>3 DEF PerformLate
  <2>2. /\ w \in Write /\ rows' = Performed(w) /\ late' \subseteq late /\ lock' = lock
        /\ RepositoryTypeOK
    BY <1>3, <2>1 DEF PerformLate, LateWrite, TypeOK, RepositoryTypeOK
  <2>3. ASSUME rows'[d].status # "absent", rows'[d].pairing = p, rows'[d].owner = o
        PROVE  Bound(d, p, o)
    <3>1. \/ /\ rows[d].status # "absent"
             /\ rows'[d].pairing = rows[d].pairing /\ rows'[d].owner = rows[d].owner
          \/ w.kind = "save" /\ w.device = d /\ rows'[d] = w.row
      BY <2>2, <2>3, WriteBinds
    <3>. QED
      BY <2>3, <3>1 DEF Bound
  <2>. QED
    BY <2>2, <2>3 DEF Bound
<1>4. ASSUME NEW o2 \in Owners, NEW p2 \in Pairings, NEW d2 \in Devices,
             BeginEnrollment(o2, p2, d2)
      PROVE  \/ Bound(d, p, o)
             \/ p \in Pairings /\ o \in Owners /\ BeginEnrollment(o, p, d)
  <2>1. /\ rows' = rows /\ late' = late
        /\ lock' = [step |-> "revoke_prior", owner |-> o2, pairing |-> p2, device |-> d2]
    BY <1>4 DEF BeginEnrollment
  <2>2. \/ Bound(d, p, o)
        \/ d = d2 /\ p = p2 /\ o = o2
    BY <2>1 DEF Bound
  <2>. QED
    BY <1>4, <2>2
<1>5. ASSUME NEW o2 \in Owners, NEW d2 \in Devices, BeginRevoke(o2, d2)
      PROVE  Bound(d, p, o)
  <2>1. /\ rows' = rows /\ late' = late /\ rows[d2].status = "active"
        /\ lock' = [step |-> "save_revoked", device |-> d2,
                    row |-> [rows[d2] EXCEPT !.status = "revoked"]]
    BY <1>5 DEF BeginRevoke, Active
  <2>2. /\ [rows[d2] EXCEPT !.status = "revoked"].pairing = rows[d2].pairing
        /\ [rows[d2] EXCEPT !.status = "revoked"].owner = rows[d2].owner
    BY DEF TypeOK, RepositoryTypeOK, Row
  <2>3. lock'.step = "save_revoked" /\ lock'.device = d2
        /\ lock'.row.pairing = rows[d2].pairing /\ lock'.row.owner = rows[d2].owner
    BY <2>1, <2>2
  <2>. QED
    BY <2>1, <2>3 DEF Bound
<1>6. ASSUME rows' = rows, late' = late,
             lock' = lock \/ lock'.step \in {"free", "advance"}
      PROVE  Bound(d, p, o)
  BY <1>6 DEF Bound
<1>7. CASE \/ \E o2 \in Owners, q \in Pairings : IssueChallenge(o2, q) \/ BeginSession(o2, q)
           \/ \E q \in Pairings, c \in Codes : AttachCode(q, c)
           \/ \E c \in Codes : Claim(c)
           \/ \E t \in Threads, m \in Messages : Admit(t, m)
           \/ \E t \in Threads : Verify(t)
           \/ Tick \/ Restart \/ UNCHANGED vars
  <2>1. rows' = rows /\ late' = late
    BY <1>7 DEF IssueChallenge, BeginSession, NewPairing, AttachCode, Claim,
       Admit, Verify, Tick, Restart, vars
  <2>2. \A t \in Threads : Verify(t) => lock'.step \in {"free", "advance"}
    BY DEF Verify, Free
  <2>3. Restart => lock'.step = "free"
    BY DEF Restart, Free
  <2>4. lock' = lock \/ lock'.step \in {"free", "advance"}
    BY <1>7, <2>2, <2>3 DEF IssueChallenge, BeginSession, NewPairing, AttachCode, Claim,
       Admit, Tick, vars
  <2>. QED
    BY <1>6, <2>1, <2>4
<1>. QED
  BY <1>1, <1>2, <1>3, <1>4, <1>5, <1>7 DEF Next, RegisterDevice, RegisterPairedDevice

LEMMA InitBound == Init => IssuedInv /\ BoundInv
BY DEF Init, RepositoryInit, AbsentRow, AbsentPairing, IssuedInv, BoundInv, Bound, Free

LEMMA NextBound == TypeOK /\ IssuedInv /\ BoundInv /\ [Next]_vars => BoundInv'
<1>. SUFFICES ASSUME TypeOK, IssuedInv, BoundInv, [Next]_vars PROVE BoundInv'
  OBVIOUS
<1>1. None \notin Owners /\ pairings \in [Pairings -> Pairing]
  BY NoneAssumption DEF TypeOK
<1>2. ASSUME NEW d \in Devices, NEW p \in Pairings, NEW o \in Owners,
             BeginEnrollment(o, p, d)
      PROVE  /\ issuer'[p] = o /\ pairings'[p].status # "open"
             /\ pairings[p].status = "open"
  BY <1>1, <1>2 DEF BeginEnrollment, Registrable, IssuedInv, Pairing
<1>3. ASSUME NEW d \in Devices, NEW p \in SomePairing, NEW o \in SomeOwner, Bound(d, p, o)'
      PROVE  /\ p \in Pairings /\ o \in Owners
             /\ issuer'[p] = o /\ pairings'[p].status # "open"
  <2>1. CASE Bound(d, p, o)
    <3>1. p \in Pairings /\ o \in Owners /\ issuer[p] = o /\ pairings[p].status # "open"
      BY <2>1 DEF BoundInv
    <3>. QED
      BY <1>1, <3>1, PairingStep
  <2>. QED
    BY <1>2, <1>3, <2>1, BoundStep
<1>4. ASSUME NEW d1 \in Devices, NEW d2 \in Devices, NEW p \in SomePairing,
             NEW o1 \in SomeOwner, NEW o2 \in SomeOwner,
             Bound(d1, p, o1)', Bound(d2, p, o2)'
      PROVE  d1 = d2
  <2>1. /\ Bound(d1, p, o1) => pairings[p].status # "open"
        /\ Bound(d2, p, o2) => pairings[p].status # "open"
        /\ Bound(d1, p, o1) /\ Bound(d2, p, o2) => d1 = d2
    BY DEF BoundInv
  <2>2. /\ \/ Bound(d1, p, o1)
           \/ p \in Pairings /\ o1 \in Owners /\ BeginEnrollment(o1, p, d1)
        /\ \/ Bound(d2, p, o2)
           \/ p \in Pairings /\ o2 \in Owners /\ BeginEnrollment(o2, p, d2)
    BY <1>4, BoundStep
  <2>3. BeginEnrollment(o1, p, d1) /\ BeginEnrollment(o2, p, d2) => d1 = d2
    BY DEF BeginEnrollment
  <2>. QED
    BY <1>2, <2>1, <2>2, <2>3
<1>. QED
  BY <1>3, <1>4 DEF BoundInv

LEMMA BoundAlways == Spec => [](TypeOK /\ BoundInv)
<1>1. TypeOK /\ IssuedInv /\ [Next]_vars => IssuedInv'
  BY PairingStep
<1>. QED
  BY <1>1, TypeCorrect, InitBound, NextBound, PTL DEF Spec

\* What a row says is bound.
LEMMA RowBound ==
  ASSUME TypeOK, NEW d \in Devices, rows[d].status # "absent"
  PROVE  /\ rows[d].pairing \in SomePairing /\ rows[d].owner \in SomeOwner
         /\ Bound(d, rows[d].pairing, rows[d].owner)
<1>1. rows[d] \in Row
  BY DEF TypeOK, RepositoryTypeOK
<1>. QED
  BY <1>1 DEF Row, SomePairing, SomeOwner, Bound

\* A device belongs to the account that was issued its pairing, through late
\* writes and restarts.
THEOREM DevicesStayWithIssuer == Spec => []EnrollmentBoundToIssuer
<1>1. TypeOK /\ BoundInv => EnrollmentBoundToIssuer
  BY RowBound DEF BoundInv, EnrollmentBoundToIssuer
<1>. QED
  BY <1>1, BoundAlways, PTL

\* A pairing enrols at most one device.
THEOREM PairingsWorkOnce == Spec => []PairingUsedOnce
<1>1. TypeOK /\ BoundInv => PairingUsedOnce
  <2>. SUFFICES ASSUME TypeOK, BoundInv, NEW d1 \in Devices, NEW d2 \in Devices,
                       rows[d1].status # "absent", rows[d2].status # "absent",
                       rows[d1].pairing = rows[d2].pairing
                PROVE  d1 = d2
    BY DEF PairingUsedOnce
  <2>1. /\ Bound(d1, rows[d1].pairing, rows[d1].owner)
        /\ Bound(d2, rows[d1].pairing, rows[d2].owner)
        /\ rows[d1].pairing \in SomePairing
        /\ rows[d1].owner \in SomeOwner /\ rows[d2].owner \in SomeOwner
    BY RowBound
  <2>. QED
    BY <2>1 DEF BoundInv
<1>. QED
  BY <1>1, BoundAlways, PTL

----------------------------------------------------------------------------
(* The newest enrolment stays active, when no write outlives its request.  *)
(* A late revocation of the owner's prior devices, performed after another *)
(* enrolment of the same owner, would take the new device away.            *)

NewestInv == OneActiveInv /\ EnrolledInv /\ NewestEnrollmentActive

LEMMA InitNewest == Init => NewestInv
<1>1. Init => EnrolledInv /\ NewestEnrollmentActive
  BY DEF Init, Free, EnrolledInv, NewestEnrollmentActive
<1>. QED
  BY <1>1, InitOneActive DEF NewestInv

\* A step that leaves every enrolled device active and its owner's.
LEMMA EnrolledStaysActive ==
  ASSUME TypeOK, NewestEnrollmentActive,
         \A o \in Owners : enrolled'[o] # None => enrolled'[o] = enrolled[o],
         \A o \in Owners : \A d \in Devices :
           enrolled'[o] = d /\ rows[d].status = "active" /\ rows[d].owner = o =>
             rows'[d].status = "active" /\ rows'[d].owner = o
  PROVE  NewestEnrollmentActive'
<1>. SUFFICES ASSUME NEW o \in Owners, enrolled'[o] # None
              PROVE  /\ rows'[enrolled'[o]].status = "active"
                     /\ rows'[enrolled'[o]].owner = o
  BY DEF NewestEnrollmentActive, Active
<1>1. enrolled'[o] = enrolled[o] /\ enrolled[o] \in Devices
  BY DEF TypeOK
<1>2. rows[enrolled[o]].status = "active" /\ rows[enrolled[o]].owner = o
  BY <1>1 DEF NewestEnrollmentActive, Active
<1>. QED
  BY <1>1, <1>2

LEMMA NextNewest ==
  ASSUME "late" \notin WriteOutcomes
  PROVE  NewestInv /\ [Next]_vars => NewestInv'
<1>. SUFFICES ASSUME NewestInv, [Next]_vars PROVE NewestInv'
  OBVIOUS
<1>. USE DEF volatile, history
<1>. /\ TypeOK /\ WritesSound /\ late = {} /\ EnrolledInv /\ NewestEnrollmentActive
     /\ OneActiveInv'
  BY NextOneActive DEF NewestInv, OneActiveInv
<1>1. /\ rows \in [Devices -> Row] /\ enrolled \in [Owners -> Devices \cup {None}]
      /\ None \notin Devices
  BY NoneAssumption DEF TypeOK, RepositoryTypeOK
<1>2. ASSUME NEW outcome \in WriteOutcomes, RevokePrior(outcome)
      PROVE  NewestInv'
  <2>1. /\ lock.step = "revoke_prior" /\ lock.owner \in Owners
        /\ enrolled[lock.owner] = None /\ enrolled' = enrolled
        /\ \/ lock' = Free
           \/ lock' = [lock EXCEPT !.step = "save_new"]
    BY <1>2 DEF RevokePrior, TypeOK, Holder, Free, EnrolledInv
  <2>2. rows' = rows \/ rows' = ActiveRevoked(lock.owner)
    BY <1>2 DEF RevokePrior, Request, Performed
  <2>3. \A d \in Devices : rows[d].owner # lock.owner => rows'[d] = rows[d]
    BY <2>2 DEF ActiveRevoked
  <2>4. NewestEnrollmentActive'
    BY <2>1, <2>3, <1>1, EnrolledStaysActive
  <2>5. EnrolledInv'
    <3>1. lock' = [lock EXCEPT !.step = "save_new"] =>
            lock'.step = "save_new" /\ lock'.owner = lock.owner
      BY <2>1 DEF TypeOK, Holder, Free
    <3>. QED
      BY <2>1, <3>1 DEF EnrolledInv, Free
  <2>. QED
    BY <2>4, <2>5 DEF NewestInv
<1>3. ASSUME NEW outcome \in WriteOutcomes, SaveNew(outcome)
      PROVE  NewestInv'
  <2>1. /\ lock.step = "save_new" /\ lock.device \in Devices /\ lock.owner \in Owners
        /\ rows[lock.device].status = "absent" /\ lock' = Free
    BY <1>3 DEF SaveNew, TypeOK, Holder, Free, WritesSound
  <2>2. \/ rows' = rows
        \/ rows' = [rows EXCEPT ![lock.device] = NewRow]
    BY <1>3 DEF SaveNew, Request, Performed, Saved
  <2>3. \A d \in Devices : rows[d].status = "active" => rows'[d] = rows[d]
    BY <1>1, <2>1, <2>2
  <2>4. NewestEnrollmentActive'
    <3>1. CASE outcome = "stored"
      <4>1. /\ rows' = [rows EXCEPT ![lock.device] = NewRow]
            /\ enrolled' = [enrolled EXCEPT ![lock.owner] = lock.device]
        BY <1>3, <3>1 DEF SaveNew, Request, Performed, Saved
      <4>2. /\ rows'[lock.device].status = "active" /\ rows'[lock.device].owner = lock.owner
            /\ enrolled'[lock.owner] = lock.device
            /\ \A o \in Owners : o # lock.owner => enrolled'[o] = enrolled[o]
        BY <1>1, <2>1, <4>1 DEF NewRow
      <4>3. ASSUME NEW o \in Owners, o # lock.owner, enrolled'[o] # None
            PROVE  rows'[enrolled'[o]].status = "active" /\ rows'[enrolled'[o]].owner = o
        <5>1. /\ enrolled'[o] = enrolled[o] /\ enrolled[o] \in Devices
              /\ rows[enrolled[o]].status = "active" /\ rows[enrolled[o]].owner = o
          BY <1>1, <4>2, <4>3 DEF NewestEnrollmentActive, Active
        <5>. QED
          BY <2>3, <5>1
      <4>. QED
        BY <4>2, <4>3 DEF NewestEnrollmentActive, Active
    <3>2. CASE outcome # "stored"
      <4>1. enrolled' = enrolled
        BY <1>3, <3>2 DEF SaveNew
      <4>. QED
        BY <2>3, <4>1, EnrolledStaysActive
    <3>. QED
      BY <3>1, <3>2
  <2>. QED
    BY <2>1, <2>4 DEF NewestInv, EnrolledInv, Free
<1>4. ASSUME NEW outcome \in WriteOutcomes, SaveRevoked(outcome)
      PROVE  NewestInv'
  <2>1. /\ lock.step = "save_revoked" /\ lock.device \in Devices
        /\ \A o \in Owners : enrolled[o] # lock.device
        /\ enrolled' = enrolled /\ lock' = Free
    BY <1>4 DEF SaveRevoked, TypeOK, Holder, Free, EnrolledInv
  <2>2. \/ rows' = rows
        \/ rows' = [rows EXCEPT ![lock.device] = lock.row]
    BY <1>4 DEF SaveRevoked, Request, Performed, Saved
  <2>3. \A d \in Devices : d # lock.device => rows'[d] = rows[d]
    BY <1>1, <2>1, <2>2
  <2>4. NewestEnrollmentActive'
    BY <2>1, <2>3, EnrolledStaysActive
  <2>. QED
    BY <2>1, <2>4 DEF NewestInv, EnrolledInv, Free
<1>5. ASSUME NEW outcome \in WriteOutcomes, Advance(outcome)
      PROVE  NewestInv'
  <2>. DEFINE dev == lock.message.device
              s == lock.message.sequence
  <2>1. enrolled' = enrolled /\ lock' = Free
    BY <1>5 DEF Advance
  <2>2. rows' = rows \/ rows' = [rows EXCEPT ![dev].lastSequence = s]
    BY <1>5 DEF Advance, Request, Performed, SequenceAdvanced
  <2>3. \A d \in Devices : rows'[d].status = rows[d].status /\ rows'[d].owner = rows[d].owner
    BY <1>1, <2>2 DEF Row
  <2>4. NewestEnrollmentActive'
    BY <2>1, <2>3, EnrolledStaysActive
  <2>. QED
    BY <2>1, <2>4 DEF NewestInv, EnrolledInv, Free
<1>6. ASSUME NEW o \in Owners, NEW p \in Pairings, NEW d \in Devices,
             BeginEnrollment(o, p, d)
      PROVE  NewestInv'
  <2>1. /\ rows' = rows /\ lock'.step = "revoke_prior" /\ lock'.owner = o
        /\ enrolled' = [enrolled EXCEPT ![o] = None]
    BY <1>6 DEF BeginEnrollment
  <2>2. enrolled'[o] = None /\ \A x \in Owners : x # o => enrolled'[x] = enrolled[x]
    BY <1>1, <2>1
  <2>3. NewestEnrollmentActive'
    BY <2>1, <2>2, EnrolledStaysActive
  <2>. QED
    BY <2>1, <2>2, <2>3 DEF NewestInv, EnrolledInv
<1>7. ASSUME NEW o \in Owners, NEW d \in Devices, BeginRevoke(o, d)
      PROVE  NewestInv'
  <2>1. /\ rows' = rows /\ rows[d].owner = o
        /\ lock'.step = "save_revoked" /\ lock'.device = d
        /\ enrolled' = IF enrolled[o] = d THEN [enrolled EXCEPT ![o] = None] ELSE enrolled
    BY <1>7 DEF BeginRevoke
  <2>2. /\ \A x \in Owners : enrolled'[x] # None => enrolled'[x] = enrolled[x]
        /\ enrolled'[o] # d
    BY <1>1, <2>1
  <2>3. ASSUME NEW x \in Owners PROVE enrolled'[x] # d
    <3>1. enrolled[x] = d => x = o
      BY <1>1, <2>1 DEF NewestEnrollmentActive
    <3>. QED
      BY <1>1, <2>2, <3>1
  <2>4. NewestEnrollmentActive'
    BY <2>1, <2>2, EnrolledStaysActive
  <2>. QED
    BY <2>1, <2>3, <2>4 DEF NewestInv, EnrolledInv
<1>8. ASSUME rows' = rows, enrolled' = enrolled,
             lock' = lock \/ lock'.step \in {"free", "advance"}
      PROVE  NewestInv'
  BY <1>8 DEF NewestInv, EnrolledInv, NewestEnrollmentActive, Active
<1>9. ~PerformLate
  BY DEF PerformLate
<1>10. CASE \/ \E o \in Owners, q \in Pairings : IssueChallenge(o, q) \/ BeginSession(o, q)
            \/ \E q \in Pairings, c \in Codes : AttachCode(q, c)
            \/ \E c \in Codes : Claim(c)
            \/ \E t \in Threads, m \in Messages : Admit(t, m)
            \/ \E t \in Threads : Verify(t)
            \/ Tick \/ Restart \/ UNCHANGED vars
  <2>1. rows' = rows /\ enrolled' = enrolled
    BY <1>10 DEF IssueChallenge, BeginSession, NewPairing, AttachCode, Claim,
       Admit, Verify, Tick, Restart, vars
  <2>2. /\ \A t \in Threads : Verify(t) => lock'.step \in {"free", "advance"}
        /\ Restart => lock'.step = "free"
    BY DEF Verify, Restart, Free
  <2>3. lock' = lock \/ lock'.step \in {"free", "advance"}
    BY <1>10, <2>2 DEF IssueChallenge, BeginSession, NewPairing, AttachCode, Claim,
       Admit, Tick, vars
  <2>. QED
    BY <1>8, <2>1, <2>3
<1>. QED
  BY <1>2, <1>3, <1>4, <1>5, <1>6, <1>7, <1>9, <1>10
     DEF Next, RegisterDevice, RegisterPairedDevice

\* A device that was registered with success stays active for its owner until
\* the owner registers again or revokes it, if no write outlives its request.
THEOREM NewestEnrollmentStays ==
  ASSUME "late" \notin WriteOutcomes
  PROVE  Spec => []NewestEnrollmentActive
<1>1. NewestInv /\ [Next]_vars => NewestInv'
  BY NextNewest
<1>2. NewestInv => NewestEnrollmentActive
  BY DEF NewestInv
<1>. QED
  BY <1>1, <1>2, InitNewest, PTL DEF Spec

----------------------------------------------------------------------------
(* Each owner's rows are one registry of module OwnerDevices. *)

\* What a revocation read of its row stays true until it is written back.
RevokedInv ==
  lock.step = "save_revoked" => lock.row.owner = rows[lock.device].owner

RegistryInv == OneActiveInv /\ RevokedInv

LEMMA InitRegistry == Init => RegistryInv /\ \A o \in Owners : Registry(o)!RegistryInit
<1>. SUFFICES ASSUME Init PROVE RegistryInv /\ \A o \in Owners : Registry(o)!RegistryInit
  OBVIOUS
<1>1. RevokedInv
  BY DEF Init, RevokedInv, Free
<1>2. ASSUME NEW o \in Owners PROVE Registry(o)!RegistryInit
  <2>1. \A d \in Devices : rows[d].status = "absent"
    BY DEF Init, RepositoryInit, AbsentRow
  <2>2. ActiveOf(o) = {} /\ RevokedOf(o) = {}
    BY <2>1 DEF ActiveOf, RevokedOf, Active
  <2>. QED
    BY <2>2 DEF Registry!RegistryInit
<1>. QED
  BY <1>1, <1>2, InitOneActive DEF RegistryInv

LEMMA NextRevoked ==
  ASSUME "late" \notin WriteOutcomes
  PROVE  RegistryInv /\ [Next]_vars => RegistryInv'
<1>. SUFFICES ASSUME RegistryInv, [Next]_vars PROVE RevokedInv'
  BY NextOneActive DEF RegistryInv
<1>. USE DEF volatile, history
<1>1. ASSUME NEW o \in Owners, NEW d \in Devices, BeginRevoke(o, d)
      PROVE  RevokedInv'
  <2>1. rows \in [Devices -> Row]
    BY DEF RegistryInv, OneActiveInv, TypeOK, RepositoryTypeOK
  <2>2. /\ rows' = rows /\ lock'.device = d
        /\ lock'.row = [rows[d] EXCEPT !.status = "revoked"]
    BY <1>1 DEF BeginRevoke
  <2>. QED
    BY <2>1, <2>2 DEF RevokedInv, Row
<1>2. ASSUME rows' = rows, lock' = lock PROVE RevokedInv'
  BY <1>2 DEF RegistryInv, RevokedInv
<1>3. ASSUME lock'.step # "save_revoked" PROVE RevokedInv'
  BY <1>3 DEF RevokedInv
<1>4. ASSUME NEW outcome \in WriteOutcomes,
             RevokePrior(outcome) \/ SaveNew(outcome) \/ SaveRevoked(outcome) \/ Advance(outcome)
      PROVE  lock'.step # "save_revoked"
  <2>1. lock \in Holder
    BY DEF RegistryInv, OneActiveInv, TypeOK
  <2>2. CASE RevokePrior(outcome)
    <3>1. \/ lock' = Free
          \/ lock' = [lock EXCEPT !.step = "save_new"] /\ lock.step = "revoke_prior"
      BY <2>2 DEF RevokePrior
    <3>. QED
      BY <2>1, <3>1 DEF Holder, Free
  <2>3. CASE SaveNew(outcome) \/ SaveRevoked(outcome) \/ Advance(outcome)
    BY <2>3 DEF SaveNew, SaveRevoked, Advance, Free
  <2>. QED
    BY <1>4, <2>2, <2>3
<1>5. ASSUME NEW o \in Owners, NEW p \in Pairings, NEW d \in Devices,
             BeginEnrollment(o, p, d)
      PROVE  lock'.step # "save_revoked"
  BY <1>5 DEF BeginEnrollment
<1>6. /\ \A t \in Threads : Verify(t) => lock'.step # "save_revoked"
      /\ Restart => lock'.step # "save_revoked"
  BY DEF Verify, Restart, Free
<1>7. CASE \/ \E o \in Owners, q \in Pairings : IssueChallenge(o, q) \/ BeginSession(o, q)
           \/ \E q \in Pairings, c \in Codes : AttachCode(q, c)
           \/ \E c \in Codes : Claim(c)
           \/ \E t \in Threads, m \in Messages : Admit(t, m)
           \/ Tick \/ UNCHANGED vars
  <2>1. rows' = rows /\ lock' = lock
    BY <1>7 DEF IssueChallenge, BeginSession, NewPairing, AttachCode, Claim, Admit, Tick, vars
  <2>. QED
    BY <1>2, <2>1
<1>8. ~PerformLate
  BY DEF PerformLate, RegistryInv, OneActiveInv
<1>. QED
  BY <1>1, <1>3, <1>4, <1>5, <1>6, <1>7, <1>8
     DEF Next, RegisterDevice, RegisterPairedDevice

\* One row changes, from an owner's active ones to the revoked, or into them.
LEMMA RowMoves ==
  ASSUME NEW d \in Devices, NEW o \in Owners,
         \A e \in Devices : e # d => /\ rows'[e].status = rows[e].status
                                     /\ rows'[e].owner = rows[e].owner,
         \/ /\ rows[d].status = "absent" /\ rows'[d].status = "active"
            /\ rows'[d].owner = o => ActiveOf(o) = {}
         \/ /\ rows[d].status \in {"active", "revoked"} /\ rows'[d].status = "revoked"
            /\ rows'[d].owner = rows[d].owner
         \/ /\ rows'[d].status = rows[d].status /\ rows'[d].owner = rows[d].owner
  PROVE  Registry(o)!RegistryStep
<1>. DEFINE A == ActiveOf(o)
            R == RevokedOf(o)
<1>0. /\ A' = {e \in Devices : rows'[e].status = "active" /\ rows'[e].owner = o}
      /\ R' = {e \in Devices : rows'[e].status = "revoked" /\ rows'[e].owner = o}
      /\ A = {e \in Devices : rows[e].status = "active" /\ rows[e].owner = o}
      /\ R = {e \in Devices : rows[e].status = "revoked" /\ rows[e].owner = o}
  BY DEF ActiveOf, RevokedOf, Active
<1>1. CASE rows[d].status = "absent" /\ rows'[d].status = "active" /\ rows'[d].owner = o
  <2>1. d \notin A \cup R /\ A = {} /\ A' = {d} /\ R' = R
    BY <1>0, <1>1
  <2>. QED
    BY <2>1 DEF Registry!RegistryStep, Registry!Enroll
<1>2. CASE rows[d].status = "active" /\ rows'[d].status = "revoked" /\ rows[d].owner = o
  <2>1. d \in A /\ A' = A \ {d} /\ R' = R \cup {d}
    BY <1>0, <1>2
  <2>. QED
    BY <2>1 DEF Registry!RegistryStep, Registry!Revoke
<1>3. CASE /\ ~(rows[d].status = "absent" /\ rows'[d].status = "active" /\ rows'[d].owner = o)
           /\ ~(rows[d].status = "active" /\ rows'[d].status = "revoked" /\ rows[d].owner = o)
  <2>1. A' = A /\ R' = R
    BY <1>0, <1>3
  <2>. QED
    BY <2>1 DEF Registry!RegistryStep, Registry!registry
<1>. QED
  BY <1>1, <1>2, <1>3

LEMMA RowsStay ==
  ASSUME NEW o \in Owners, rows' = rows
  PROVE  Registry(o)!RegistryStep
<1>1. ActiveOf(o)' = ActiveOf(o) /\ RevokedOf(o)' = RevokedOf(o)
  BY DEF ActiveOf, RevokedOf, Active
<1>. QED
  BY <1>1 DEF Registry!RegistryStep, Registry!registry

LEMMA RegistryMoves ==
  ASSUME RegistryInv, [Next]_vars, NEW o \in Owners
  PROVE  Registry(o)!RegistryStep
<1>. USE DEF volatile, history
<1>1. /\ TypeOK /\ WritesSound /\ late = {} /\ OneActiveDevice /\ OwnerCleared
      /\ RevokedInv /\ rows \in [Devices -> Row] /\ lock \in Holder
  BY DEF RegistryInv, OneActiveInv, TypeOK, RepositoryTypeOK
<1>2. ASSUME NEW outcome \in WriteOutcomes, RevokePrior(outcome)
      PROVE  Registry(o)!RegistryStep
  <2>1. rows' = rows \/ rows' = ActiveRevoked(lock.owner)
    BY <1>2 DEF RevokePrior, Request, Performed
  <2>2. ASSUME rows' = ActiveRevoked(lock.owner),
               NEW d \in Devices, rows[d].status = "active", rows[d].owner = lock.owner
        PROVE  Registry(o)!RegistryStep
    <3>1. \A e \in Devices : e # d => rows'[e] = rows[e]
      BY <1>1, <2>2 DEF ActiveRevoked, OneActiveDevice, Active
    <3>2. rows'[d].status = "revoked" /\ rows'[d].owner = rows[d].owner
      BY <1>1, <2>2 DEF ActiveRevoked, Row
    <3>. QED
      BY <2>2, <3>1, <3>2, RowMoves
  <2>3. ASSUME rows' = ActiveRevoked(lock.owner),
               ~ \E d \in Devices : rows[d].status = "active" /\ rows[d].owner = lock.owner
        PROVE  rows' = rows
    BY <1>1, <2>3 DEF ActiveRevoked
  <2>. QED
    BY <2>1, <2>2, <2>3, RowsStay
<1>3. ASSUME NEW outcome \in WriteOutcomes, SaveNew(outcome)
      PROVE  Registry(o)!RegistryStep
  <2>. DEFINE d == lock.device
  <2>1. /\ lock.step = "save_new" /\ d \in Devices /\ rows[d].status = "absent"
    BY <1>1, <1>3 DEF SaveNew, Holder, Free, WritesSound
  <2>2. rows' = rows \/ rows' = [rows EXCEPT ![d] = NewRow]
    BY <1>3 DEF SaveNew, Request, Performed, Saved
  <2>3. ActiveOf(lock.owner) = {}
    BY <1>1, <2>1 DEF OwnerCleared, ActiveOf
  <2>4. ASSUME rows' = [rows EXCEPT ![d] = NewRow]
        PROVE  /\ rows'[d].status = "active" /\ rows'[d].owner = lock.owner
               /\ \A e \in Devices : e # d => rows'[e] = rows[e]
    BY <1>1, <2>1, <2>4 DEF NewRow
  <2>5. PICK x \in Devices : x = d
    BY <2>1
  <2>. HIDE DEF d
  <2>. QED
    BY <2>1, <2>2, <2>3, <2>4, <2>5, RowMoves, RowsStay
<1>4. ASSUME NEW outcome \in WriteOutcomes, SaveRevoked(outcome)
      PROVE  Registry(o)!RegistryStep
  <2>1. /\ lock.step = "save_revoked" /\ lock.device \in Devices
        /\ lock.row.status = "revoked" /\ rows[lock.device].status # "absent"
        /\ lock.row.owner = rows[lock.device].owner
    BY <1>1, <1>4 DEF SaveRevoked, Holder, Free, WritesSound, RevokedInv
  <2>2. rows' = rows \/ rows' = [rows EXCEPT ![lock.device] = lock.row]
    BY <1>4 DEF SaveRevoked, Request, Performed, Saved
  <2>3. PICK d \in Devices : d = lock.device
    BY <2>1
  <2>4. ASSUME rows' = [rows EXCEPT ![d] = lock.row]
        PROVE  /\ rows'[d].status = "revoked" /\ rows'[d].owner = rows[d].owner
               /\ rows[d].status \in {"active", "revoked"}
               /\ \A e \in Devices : e # d => rows'[e] = rows[e]
    BY <1>1, <2>1, <2>3, <2>4 DEF Row
  <2>. QED
    BY <2>2, <2>3, <2>4, RowMoves, RowsStay
<1>5. ASSUME NEW outcome \in WriteOutcomes, Advance(outcome)
      PROVE  Registry(o)!RegistryStep
  <2>. DEFINE dev == lock.message.device
              s == lock.message.sequence
  <2>1. rows' = rows \/ rows' = [rows EXCEPT ![dev].lastSequence = s]
    BY <1>5 DEF Advance, Request, Performed, SequenceAdvanced
  <2>2. \A e \in Devices : rows'[e].status = rows[e].status /\ rows'[e].owner = rows[e].owner
    BY <1>1, <2>1 DEF Row
  <2>3. ActiveOf(o)' = ActiveOf(o) /\ RevokedOf(o)' = RevokedOf(o)
    BY <2>2 DEF ActiveOf, RevokedOf, Active
  <2>. QED
    BY <2>3 DEF Registry!RegistryStep, Registry!registry
<1>6. CASE \/ \E u \in Owners, p \in Pairings : IssueChallenge(u, p) \/ BeginSession(u, p)
           \/ \E p \in Pairings, c \in Codes : AttachCode(p, c)
           \/ \E c \in Codes : Claim(c)
           \/ \E u \in Owners, p \in Pairings, d \in Devices : RegisterDevice(u, p, d)
           \/ \E p \in Pairings, d \in Devices : RegisterPairedDevice(p, d)
           \/ \E u \in Owners, d \in Devices : BeginRevoke(u, d)
           \/ \E t \in Threads, m \in Messages : Admit(t, m)
           \/ \E t \in Threads : Verify(t)
           \/ Tick \/ Restart \/ UNCHANGED vars
  <2>1. rows' = rows
    BY <1>6 DEF IssueChallenge, BeginSession, NewPairing, AttachCode, Claim,
       RegisterDevice, RegisterPairedDevice, BeginEnrollment, BeginRevoke,
       Admit, Verify, Tick, Restart, vars
  <2>. QED
    BY <2>1, RowsStay
<1>7. ~PerformLate
  BY <1>1 DEF PerformLate
<1>. QED
  BY <1>2, <1>3, <1>4, <1>5, <1>6, <1>7 DEF Next

\* To the rest of the backend the table is one registry per owner, of which one
\* device at most is active, whatever requests fail and whenever the process
\* dies, if no write outlives its request.
THEOREM TableIsARegistry ==
  ASSUME "late" \notin WriteOutcomes
  PROVE  Spec => ImplementsRegistry
<1>1. RegistryInv /\ [Next]_vars => RegistryInv'
  BY NextRevoked
<1>2. RegistryInv /\ [Next]_vars => [\A o \in Owners : Registry(o)!RegistryStep]_vars
  BY RegistryMoves
<1>3. Init => \A o \in Owners : Registry(o)!RegistryInit
  BY InitRegistry
<1>4. Init => RegistryInv
  BY InitRegistry
<1>. QED
  BY <1>1, <1>2, <1>3, <1>4, PTL DEF Spec, ImplementsRegistry

=============================================================================
