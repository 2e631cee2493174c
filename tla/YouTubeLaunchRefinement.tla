----------------------- MODULE YouTubeLaunchRefinement -----------------------
(***************************************************************************)
(* The threads, the queue and the phone implement the contract of module   *)
(* ConsentLaunch: each step of a launch is one step of the contract, or    *)
(* none of its.                                                            *)
(***************************************************************************)
EXTENDS YouTubeLaunchProofs

----------------------------------------------------------------------------
(* The stage of a run, read off its history. *)

LEMMA SameStage ==
  ASSUME NEW r \in Runs,
         accepted'[r] = accepted[r], phone'[r] = phone[r], handouts'[r] = handouts[r],
         stored'[r] = stored[r], approvedBy'[r] = approvedBy[r],
         r \in created' <=> r \in created
  PROVE  StageOf(r)' = StageOf(r)
BY DEF StageOf, Repeated

\* Under the invariant nothing is repeated, and the history of a run is the
\* history of one launch up to its stage.
StageFollows(r) ==
  /\ r \notin created => StageOf(r) = "none"
  /\ r \in created /\ approvedBy[r] = <<>> => StageOf(r) = "offered"
  /\ approvedBy[r] = <<"tools">> => StageOf(r) = "spent"
  /\ approvedBy[r] = <<"youtube">> /\ stored[r] = 0 => StageOf(r) = "approved"
  /\ stored[r] = 1 /\ handouts[r] = 0 => StageOf(r) = "queued"
  /\ handouts[r] = 1 /\ phone[r] = "none" => StageOf(r) = "handed"
  /\ phone[r] # "none" /\ accepted[r] = <<>> => StageOf(r) = "acted"
  /\ accepted[r] # <<>> => StageOf(r) = "reported"

LEMMA Stages == Inv => \A r \in Runs : StageFollows(r)
<1>. SUFFICES ASSUME Inv, NEW r \in Runs PROVE StageFollows(r)
  OBVIOUS
<1>1. /\ handouts[r] \in Nat /\ stored[r] \in Nat
      /\ handouts[r] <= stored[r] /\ stored[r] <= 1
      /\ stored[r] = 1 => approvedBy[r] = <<"youtube">>
      /\ phone[r] # "none" => handouts[r] = 1
      /\ accepted[r] # <<>> => phone[r] # "none"
      /\ approvedBy[r] # <<>> => r \in created
  BY DEF Inv, TypeOK, CommandOnce, PhoneActsOnce, KnownWasDrawn
<1>2. ~Repeated(r)
  <2>1. /\ Len(approvedBy[r]) <= 1 /\ Len(accepted[r]) <= 1
        /\ Len(approvedBy[r]) \in Nat /\ Len(accepted[r]) \in Nat
    BY DEF Inv, TypeOK, TicketOnce, PhoneActsOnce
  <2>. QED
    BY <1>1, <2>1 DEF Repeated
<1>3. /\ <<"youtube">> # <<>> /\ <<"tools">> # <<>> /\ <<"youtube">> # <<"tools">>
  OBVIOUS
<1>4. /\ stored[r] = 0 => handouts[r] = 0
      /\ handouts[r] = 1 => stored[r] = 1
      /\ handouts[r] = 0 => phone[r] = "none" /\ accepted[r] = <<>>
  BY <1>1
<1>5. r \notin created => StageOf(r) = "none"
  BY <1>1, <1>2, <1>3, <1>4 DEF StageOf
<1>6. r \in created /\ approvedBy[r] = <<>> => StageOf(r) = "offered"
  BY <1>1, <1>2, <1>3, <1>4 DEF StageOf
<1>7. approvedBy[r] = <<"tools">> => StageOf(r) = "spent"
  BY <1>1, <1>2, <1>3, <1>4 DEF StageOf
<1>8. approvedBy[r] = <<"youtube">> /\ stored[r] = 0 => StageOf(r) = "approved"
  BY <1>1, <1>2, <1>4 DEF StageOf
<1>9. stored[r] = 1 /\ handouts[r] = 0 => StageOf(r) = "queued"
  BY <1>2, <1>4 DEF StageOf
<1>10. handouts[r] = 1 /\ phone[r] = "none" => StageOf(r) = "handed"
  BY <1>1, <1>2 DEF StageOf
<1>11. phone[r] # "none" /\ accepted[r] = <<>> => StageOf(r) = "acted"
  BY <1>2 DEF StageOf
<1>12. accepted[r] # <<>> => StageOf(r) = "reported"
  BY <1>2 DEF StageOf
<1>. QED
  BY <1>5, <1>6, <1>7, <1>8, <1>9, <1>10, <1>11, <1>12 DEF StageFollows

LEMMA StagesNext == Inv' => \A r \in Runs : StageFollows(r)'
<1>1. Inv' => (\A r \in Runs : StageFollows(r))'
  BY Stages, PTL
<1>. QED
  BY <1>1

----------------------------------------------------------------------------
(* How a step looks from outside. *)

\* A step that changes no history of a launch is none of the contract's.
LEMMA Stutters ==
  ASSUME UNCHANGED <<accepted, phone, handouts, stored, approvedBy, created, cancelled>>,
         \A r \in Runs : ToldOf(r)' = ToldOf(r)
  PROVE  UNCHANGED Consent!consentVars
<1>1. \A r \in Runs : StageOf(r)' = StageOf(r)
  BY SameStage
<1>. QED
  BY <1>1 DEF Consent!consentVars

\* A step that takes one run to its next stage, and tells nothing.
LEMMA Advances ==
  ASSUME NEW r \in Runs, NEW from, NEW to, StageOf(r) = from, StageOf(r)' = to,
         \A s \in Runs : s # r => StageOf(s)' = StageOf(s),
         UNCHANGED cancelled, \A s \in Runs : ToldOf(s)' = ToldOf(s)
  PROVE  /\ Consent!Advance(r, from, to)
         /\ UNCHANGED {s \in Runs : cancelled[s] # "no"}
         /\ UNCHANGED [s \in Runs |-> ToldOf(s)]
BY DEF Consent!Advance

----------------------------------------------------------------------------
(* The steps that advance a run. *)

LEMMA InitRefines == Init => Consent!ConsentInit
<1>. SUFFICES ASSUME Init PROVE Consent!ConsentInit
  OBVIOUS
<1>1. \A r \in Runs : StageOf(r) = "none"
  BY InitInv, Stages DEF Init, StageFollows
<1>2. \A r \in Runs : ToldOf(r) = {}
  <2>1. \A r \in Runs : runs[r].events = <<>>
    BY DEF Init, NoRun
  <2>2. DOMAIN << >> = {}
    OBVIOUS
  <2>3. \A r \in Runs : DOMAIN runs[r].events = {}
    BY <2>1, <2>2
  <2>. QED
    BY <2>3 DEF ToldOf
<1>. QED
  BY <1>1, <1>2 DEF Init, Consent!ConsentInit

\* A run id is drawn.
LEMMA DrawOffers ==
  ASSUME Inv, Inv', NEW r \in Runs, CreateYouTubeOpenRun(r) \/ QueueAndroidCommand(r)
  PROVE  Consent!Offer(r)
<1>. USE DEF wire
<1>1. /\ r \notin created /\ created' = created \cup {r}
      /\ UNCHANGED <<accepted, phone, handouts, stored, approvedBy, cancelled>>
  BY DEF CreateYouTubeOpenRun, QueueAndroidCommand
<1>2. \A s \in Runs : runs'[s].events = runs[s].events
  <2>1. CASE CreateYouTubeOpenRun(r)
    BY <2>1 DEF CreateYouTubeOpenRun, Inv, TypeOK, Run
  <2>2. CASE QueueAndroidCommand(r)
    BY <2>2 DEF QueueAndroidCommand, Inv, TypeOK, Run
  <2>. QED
    BY <2>1, <2>2
<1>3. \A s \in Runs : ToldOf(s)' = ToldOf(s)
  BY <1>2 DEF ToldOf
<1>4. approvedBy[r] = <<>>
  BY <1>1 DEF Inv, KnownWasDrawn
<1>5. StageOf(r) = "none" /\ StageOf(r)' = "offered"
  BY <1>1, <1>4, Stages, StagesNext DEF StageFollows
<1>6. \A s \in Runs : s # r => StageOf(s)' = StageOf(s)
  BY <1>1, SameStage
<1>. QED
  BY <1>1, <1>3, <1>5, <1>6, Advances DEF Consent!Offer

\* A ticket is consumed, by one route or the other.
LEMMA ConsumptionRefines ==
  ASSUME Inv, Inv', NEW r \in Runs, HasCommand(r), Approvable(r),
         NEW route \in {"youtube", "tools"},
         approvedBy' = [approvedBy EXCEPT ![r] = Append(@, route)],
         UNCHANGED <<runs, accepted, phone, handouts, stored, created, cancelled>>
  PROVE  IF route = "youtube" THEN Consent!Approve(r) ELSE Consent!Spend(r)
<1>1. r \in created /\ approvedBy[r] = <<>>
  BY DEF Inv, KnownWasDrawn, HasCommand, TicketOnce, Approvable
<1>2. stored[r] = 0
  <2>1. <<"youtube">> # <<>>
    OBVIOUS
  <2>2. /\ stored[r] \in Nat /\ stored[r] <= 1
        /\ stored[r] = 1 => approvedBy[r] = <<"youtube">>
    BY DEF Inv, TypeOK, CommandOnce
  <2>. QED
    BY <1>1, <2>1, <2>2
<1>3. \A s \in Runs : approvedBy'[s] = IF s = r THEN <<route>> ELSE approvedBy[s]
  <2>1. Append(<<>>, route) = <<route>>
    OBVIOUS
  <2>. QED
    BY <1>1, <2>1 DEF Inv, TypeOK
<1>4. StageOf(r) = "offered"
  BY <1>1, Stages DEF StageFollows
<1>5. StageOf(r)' = IF route = "youtube" THEN "approved" ELSE "spent"
  BY <1>2, <1>3, StagesNext DEF StageFollows
<1>6. \A s \in Runs : s # r => StageOf(s)' = StageOf(s)
  BY <1>3, SameStage
<1>7. \A s \in Runs : ToldOf(s)' = ToldOf(s)
  BY DEF ToldOf
<1>. QED
  BY <1>4, <1>5, <1>6, <1>7, Advances DEF Consent!Approve, Consent!Spend

\* The command is stored.
LEMMA StoreQueues ==
  ASSUME Inv, Inv', NEW a \in Approvers, StoreCommand(a)
  PROVE  \E r \in Runs : Consent!Queue(r)
<1>. USE DEF approvalFrame, wire
<1>1. PICK r \in Runs : /\ r = approver[a].run /\ approver[a].step \in Consented
                        /\ approver[a].step # "stored"
  BY ApproverFields DEF Inv, StoreCommand, Consented
<1>2. approvedBy[r] = <<"youtube">> /\ stored[r] = 0
  BY <1>1 DEF Inv, OneCarrier
<1>3. handouts[r] = 0
  BY <1>1, <1>2 DEF Inv, TypeOK, CommandOnce
<1>4. /\ UNCHANGED <<runs, accepted, phone, handouts, approvedBy, created, cancelled>>
      /\ \A s \in Runs : stored'[s] = IF s = r THEN 1 ELSE stored[s]
  BY <1>1, <1>2 DEF StoreCommand, Inv, TypeOK
<1>5. StageOf(r) = "approved" /\ StageOf(r)' = "queued"
  BY <1>1, <1>2, <1>3, <1>4, Stages, StagesNext DEF StageFollows
<1>6. \A s \in Runs : s # r => StageOf(s)' = StageOf(s)
  BY <1>4, SameStage
<1>7. \A s \in Runs : ToldOf(s)' = ToldOf(s)
  BY <1>4 DEF ToldOf
<1>8. Consent!Queue(r)
  BY <1>4, <1>5, <1>6, <1>7, Advances DEF Consent!Queue
<1>. QED
  BY <1>8

\* The command a scan found is marked and handed out.
LEMMA MarkHandsOut ==
  ASSUME Inv, Inv', HandOutFound
  PROVE  \E r \in Runs : Consent!HandOut(r)
<1>. USE DEF pollFrame
<1>1. UNCHANGED <<runs, accepted, phone, stored, approvedBy, created, cancelled>>
  BY DEF HandOutFound
<1>2. \A s \in Runs : ToldOf(s)' = ToldOf(s)
  BY <1>1 DEF ToldOf
<1>3. PICK r \in Runs :
        /\ Queued(r) /\ ~pending[r].cancelled /\ handouts[r] = 0
        /\ \A s \in Runs : handouts'[s] = IF s = r THEN 1 ELSE handouts[s]
  BY HandOutEffect
<1>4. stored[r] = 1 /\ cancelled[r] = "no"
  BY <1>3 DEF Inv, CommandOnce, WithdrawnIsMarked
<1>5. phone[r] = "none"
  BY <1>3 DEF Inv, PhoneActsOnce
<1>6. StageOf(r) = "queued" /\ StageOf(r)' = "handed"
  BY <1>1, <1>3, <1>4, <1>5, Stages, StagesNext DEF StageFollows
<1>7. \A s \in Runs : s # r => StageOf(s)' = StageOf(s)
  BY <1>1, <1>3, SameStage
<1>8. Consent!HandOut(r)
  BY <1>1, <1>2, <1>4, <1>6, <1>7, Advances DEF Consent!HandOut
<1>. QED
  BY <1>8

\* The phone acts on the command it was handed.
LEMMA PhoneActs ==
  ASSUME Inv, Inv', NEW r \in Runs, NEW d \in Devices, NEW outcome \in Outcomes,
         PhoneReceives(r, d, outcome)
  PROVE  Consent!Act(r)
<1>. USE DEF backend, threads, history
<1>1. handouts[r] = 1 /\ phone[r] = "none"
  BY DEF PhoneReceives, Inv, PhoneActsOnce
<1>2. accepted[r] = <<>>
  BY <1>1 DEF Inv, PhoneActsOnce
<1>3. /\ UNCHANGED <<runs, accepted, handouts, stored, approvedBy, created, cancelled>>
      /\ phone' = [phone EXCEPT ![r] = outcome]
      /\ \A s \in Runs : phone'[s] = IF s = r THEN outcome ELSE phone[s]
  BY DEF PhoneReceives, Inv, TypeOK
<1>4. outcome # "none"
  BY DEF Outcomes
<1>5. StageOf(r) = "handed" /\ StageOf(r)' = "acted"
  BY <1>1, <1>2, <1>3, <1>4, Stages, StagesNext DEF StageFollows
<1>6. \A s \in Runs : s # r => StageOf(s)' = StageOf(s)
  BY <1>3, SameStage
<1>7. \A s \in Runs : ToldOf(s)' = ToldOf(s)
  BY <1>3 DEF ToldOf
<1>. QED
  BY <1>3, <1>5, <1>6, <1>7, Advances DEF Consent!Act

\* A receipt is verified, or refused.
LEMMA ReceiptReports ==
  ASSUME Inv, Inv', NEW k \in Receivers, NEW ok, VerifyReceipt(k, ok)
  PROVE  (\E r \in Runs : Consent!Report(r)) \/ UNCHANGED Consent!consentVars
<1>. USE DEF receiptFrame, wire, history
<1>1. UNCHANGED <<runs, phone, handouts, stored, approvedBy, created, cancelled>>
  BY DEF VerifyReceipt
<1>2. \A s \in Runs : ToldOf(s)' = ToldOf(s)
  BY <1>1 DEF ToldOf
<1>3. CASE \A r \in Runs : accepted'[r] = accepted[r]
  <2>1. \A r \in Runs : StageOf(r)' = StageOf(r)
    BY <1>1, <1>3, SameStage
  <2>. QED
    BY <1>1, <1>2, <2>1 DEF Consent!consentVars
<1>4. ASSUME NEW r \in Runs, accepted'[r] # accepted[r]
      PROVE  Consent!Report(r)
  <2>1. Queued(r) /\ ~pending[r].cancelled /\ accepted[r] = <<>>
    BY <1>4, ReceiptEffect
  <2>2. /\ r = receiver[k].run /\ receiver[k].outcome \in Outcomes
        /\ \A s \in Runs : s # r => accepted'[s] = accepted[s]
    <3>1. receiver[k].run \in Runs /\ receiver[k].outcome \in Outcomes
      BY ReceiverFields DEF VerifyReceipt, Inv
    <3>2. accepted' = [accepted EXCEPT ![receiver[k].run] =
                         Append(accepted[receiver[k].run], receiver[k].outcome)]
      BY <1>4 DEF VerifyReceipt, Receive
    <3>3. r = receiver[k].run
      BY <1>4, <3>2 DEF Inv, TypeOK
    <3>. QED
      BY <3>1, <3>2, <3>3 DEF Inv, TypeOK
  <2>3. phone[r] # "none" /\ cancelled[r] = "no"
    BY <2>1, <2>2 DEF Inv, VerifyReceipt, ReceiptsAreThePhones, WithdrawnIsMarked, Outcomes
  <2>4. StageOf(r) = "acted" /\ StageOf(r)' = "reported"
    BY <1>4, <2>1, <2>3, Stages, StagesNext DEF StageFollows
  <2>5. \A s \in Runs : s # r => StageOf(s)' = StageOf(s)
    BY <1>1, <2>2, SameStage
  <2>. QED
    BY <1>1, <1>2, <2>3, <2>4, <2>5, Advances DEF Consent!Report
<1>. QED
  BY <1>3, <1>4

\* The verified outcome becomes an event of the run, unless the run has ended
\* or is forgotten.
LEMMA EventTells ==
  ASSUME Inv, Inv', NEW k \in Receivers, EmitReceipt(k)
  PROVE  (\E r \in Runs : Consent!Tell(r)) \/ UNCHANGED Consent!consentVars
<1>. USE DEF receiptFrame, wire, history
<1>1. PICK r \in Runs : /\ phone[r] \in Facts \cap Outcomes /\ accepted[r] # <<>>
                        /\ Emit(r, phone[r])
  <2>. DEFINE run == receiver[k].run
  <2>1. /\ run \in Runs /\ receiver[k].outcome \in Facts \cap Outcomes
        /\ receiver[k].outcome = phone[run] /\ accepted[run] # <<>>
        /\ Emit(run, receiver[k].outcome)
    BY ReceiverFields DEF Inv, EmitReceipt, ReceiptsAreThePhones, Facts, Outcomes
  <2>. QED
    BY <2>1
<1>2. UNCHANGED <<phone, accepted, handouts, stored, approvedBy, created, cancelled>>
  BY DEF EmitReceipt
<1>3. \A s \in Runs : StageOf(s)' = StageOf(s)
  BY <1>2, SameStage
<1>4. /\ \A s \in Runs : s # r => ToldOf(s)' = ToldOf(s)
      /\ ToldOf(r)' \in {ToldOf(r), ToldOf(r) \cup {phone[r]}}
  <2>1. /\ \A s \in Runs : s # r => runs'[s] = runs[s]
        /\ ToldOf(r)' \in {ToldOf(r), ToldOf(r) \cup ({phone[r]} \cap Outcomes)}
    BY <1>1, AppendedRuns DEF Inv
  <2>. QED
    BY <1>1, <2>1 DEF ToldOf
<1>5. ToldOf(r) \subseteq {phone[r]}
  BY DEF Inv, ToldWasAccepted
<1>6. CASE ToldOf(r)' = ToldOf(r)
  <2>1. \A s \in Runs : ToldOf(s)' = ToldOf(s)
    BY <1>4, <1>6
  <2>. QED
    BY <1>2, <1>3, <2>1 DEF Consent!consentVars
<1>7. CASE ToldOf(r)' # ToldOf(r)
  <2>1. ToldOf(r) = {} /\ ToldOf(r)' = {phone[r]}
    BY <1>4, <1>5, <1>7
  <2>2. StageOf(r) = "reported"
    BY <1>1, Stages DEF StageFollows
  <2>3. Consent!Tell(r)
    BY <1>2, <1>3, <1>4, <2>1, <2>2 DEF Consent!Tell
  <2>. QED
    BY <2>3
<1>. QED
  BY <1>6, <1>7

\* A cancellation is answered, for the first time or again.
LEMMA CancelWithdraws ==
  ASSUME Inv, Inv', NEW r \in Runs, NEW d \in Devices, Cancel(r, d)
  PROVE  Consent!Withdraw(r)
<1>. USE DEF wire, threads
<1>1. stored[r] = 1 /\ accepted[r] = <<>> /\ handouts[r] \in {0, 1}
  <2>1. Queued(r)
    BY NoDeviceAssumption DEF Cancel, CancelCommand, Queued
  <2>. QED
    BY <2>1 DEF Inv, CommandOnce
<1>2. StageOf(r) \in {"queued", "handed", "acted"}
  BY <1>1, Stages DEF StageFollows
<1>3. UNCHANGED <<runs, accepted, phone, handouts, stored, approvedBy, created>>
  BY DEF Cancel
<1>4. \A s \in Runs : StageOf(s)' = StageOf(s)
  BY <1>3, SameStage
<1>5. \A s \in Runs : ToldOf(s)' = ToldOf(s)
  BY <1>3 DEF ToldOf
<1>6. \A s \in Runs : cancelled'[s] # "no" <=> cancelled[s] # "no" \/ s = r
  BY DEF Cancel, Inv, TypeOK
<1>7. {s \in Runs : cancelled'[s] # "no"} = {s \in Runs : cancelled[s] # "no"} \cup {r}
  BY <1>6
<1>. QED
  BY <1>2, <1>3, <1>4, <1>5, <1>7 DEF Consent!Withdraw

\* A restart forgets what browsers were told.
LEMMA RestartForgets ==
  ASSUME Inv, Inv', Restart
  PROVE  Consent!Forget
<1>. USE DEF wire, history
<1>1. \A r \in Runs : ToldOf(r)' = {}
  BY RestartInv DEF Inv
<1>2. UNCHANGED <<accepted, phone, handouts, stored, approvedBy, created, cancelled>>
  BY DEF Restart
<1>3. \A s \in Runs : StageOf(s)' = StageOf(s)
  BY <1>2, SameStage
<1>. QED
  BY <1>1, <1>2, <1>3 DEF Consent!Forget

\* The steps of threads, polls and devices that no history records.
LEMMA HiddenSteps ==
  ASSUME Inv,
         \/ \E a \in Approvers : \/ \E r \in Runs : CheckApproval(a, r)
                                 \/ \E named, up : BindCommand(a, named, up)
                                 \/ MarkDispatched(a)
                                 \/ ConsumeApproval(a) /\ ~Approvable(approver[a].run)
         \/ \E r \in Runs : \/ SubmitToolApproval(r) \/ ResumeEmit(r)
                            \/ ResumeConsume(r) /\ ~Approvable(r)
         \/ \E d \in Devices : \/ AcceptPoll(d) \/ EnrollDevice(d) \/ RevokeDevice(d)
                               \/ \E at, refused : ExamineQueue(d, at, refused)
                               \/ \E r \in Runs : LoseResponse(r, d)
                               \/ \E r \in Runs, k \in Receivers : ReceiptArrives(k, r, d)
         \/ Tick
         \/ UNCHANGED vars
  PROVE  UNCHANGED Consent!consentVars
<1>. USE DEF approvalFrame, resumeFrame, pollFrame, receiptFrame, backend, threads, wire,
             registry, history
<1>. DEFINE Seen == <<accepted, phone, handouts, stored, approvedBy, created, cancelled>>
<1>1. ASSUME NEW a \in Approvers,
             \/ \E r \in Runs : CheckApproval(a, r)
             \/ \E named, up : BindCommand(a, named, up)
             \/ ConsumeApproval(a) /\ ~Approvable(approver[a].run)
      PROVE  UNCHANGED <<Seen, runs>>
  BY <1>1 DEF CheckApproval, BindCommand, ConsumeApproval
<1>2. ASSUME NEW a \in Approvers, MarkDispatched(a)
      PROVE  UNCHANGED Seen /\ \A r \in Runs : ToldOf(r)' = ToldOf(r)
  <2>1. approver[a].run \in Runs
    BY <1>2, ApproverFields DEF Inv, MarkDispatched
  <2>2. \A r \in Runs : runs'[r].events = runs[r].events
    BY <1>2, <2>1 DEF MarkDispatched, Inv, TypeOK, Run
  <2>. QED
    BY <1>2, <2>2 DEF MarkDispatched, ToldOf
<1>3. ASSUME NEW r \in Runs, SubmitToolApproval(r)
      PROVE  UNCHANGED Seen /\ \A s \in Runs : ToldOf(s)' = ToldOf(s)
  <2>1. \A s \in Runs : runs'[s].events = runs[s].events
    BY <1>3 DEF SubmitToolApproval, Inv, TypeOK, Run
  <2>. QED
    BY <1>3, <2>1 DEF SubmitToolApproval, ToldOf
<1>4. ASSUME NEW r \in Runs, ResumeEmit(r)
      PROVE  UNCHANGED Seen /\ \A s \in Runs : ToldOf(s)' = ToldOf(s)
  <2>1. TypeOK'
    BY <1>4, NextType DEF Inv, Next
  <2>. QED
    BY <1>4, <2>1, ResumeEmitInv DEF ResumeEmit
<1>5. ASSUME NEW r \in Runs, ResumeConsume(r), ~Approvable(r)
      PROVE  UNCHANGED <<Seen, runs>>
  BY <1>5 DEF ResumeConsume
<1>6. ASSUME NEW d \in Devices,
             \/ AcceptPoll(d) \/ EnrollDevice(d) \/ RevokeDevice(d)
             \/ \E at, refused : ExamineQueue(d, at, refused)
             \/ \E r \in Runs : LoseResponse(r, d)
             \/ \E r \in Runs, k \in Receivers : ReceiptArrives(k, r, d)
      PROVE  UNCHANGED <<Seen, runs>>
  BY <1>6 DEF AcceptPoll, ExamineQueue, EnrollDevice, RevokeDevice, LoseResponse,
              ReceiptArrives
<1>7. CASE Tick \/ UNCHANGED vars
  BY <1>7, Stutters DEF Tick, vars, ToldOf
<1>8. UNCHANGED <<Seen, runs>> => UNCHANGED Consent!consentVars
  BY Stutters DEF ToldOf
<1>. QED
  BY <1>1, <1>2, <1>3, <1>4, <1>5, <1>6, <1>7, <1>8, Stutters

LEMMA NextRefines ==
  ASSUME Inv, Inv', [Next]_vars
  PROVE  [(\E r \in Runs : Consent!ServerStep(r)) \/ Consent!Forget]_Consent!consentVars
<1>. DEFINE Implemented ==
       \/ \E r \in Runs : Consent!ServerStep(r)
       \/ Consent!Forget
       \/ UNCHANGED Consent!consentVars
<1>1. ASSUME NEW r \in Runs, CreateYouTubeOpenRun(r) \/ QueueAndroidCommand(r)
      PROVE  Implemented
  BY <1>1, DrawOffers DEF Consent!ServerStep
<1>2. ASSUME NEW a \in Approvers, ConsumeApproval(a) PROVE Implemented
  <2>. DEFINE run == approver[a].run
  <2>1. PICK r \in Runs : r = run /\ HasCommand(r)
    BY <1>2, ApproverFields DEF ConsumeApproval, Inv, WorkHasCommand
  <2>2. CASE Approvable(r)
    <3>1. /\ approvedBy' = [approvedBy EXCEPT ![r] = Append(@, "youtube")]
          /\ UNCHANGED <<runs, accepted, phone, handouts, stored, created, cancelled>>
      BY <1>2, <2>1, <2>2 DEF ConsumeApproval, approvalFrame, wire
    <3>2. Consent!Approve(r)
      BY <2>1, <2>2, <3>1, ConsumptionRefines
    <3>. QED
      BY <3>2 DEF Consent!ServerStep
  <2>3. CASE ~Approvable(r)
    BY <1>2, <2>1, <2>3, HiddenSteps
  <2>. QED
    BY <2>2, <2>3
<1>3. ASSUME NEW r \in Runs, ResumeConsume(r) PROVE Implemented
  <2>1. HasCommand(r)
    BY <1>3 DEF ResumeConsume, Inv, WorkHasCommand
  <2>2. CASE Approvable(r)
    <3>1. /\ approvedBy' = [approvedBy EXCEPT ![r] = Append(@, "tools")]
          /\ UNCHANGED <<runs, accepted, phone, handouts, stored, created, cancelled>>
      BY <1>3, <2>2 DEF ResumeConsume, resumeFrame, wire
    <3>2. Consent!Spend(r)
      BY <2>1, <2>2, <3>1, ConsumptionRefines
    <3>. QED
      BY <3>2 DEF Consent!ServerStep
  <2>3. CASE ~Approvable(r)
    BY <1>3, <2>3, HiddenSteps
  <2>. QED
    BY <2>2, <2>3
<1>4. ASSUME NEW a \in Approvers, StoreCommand(a) PROVE Implemented
  BY <1>4, StoreQueues DEF Consent!ServerStep
<1>5. HandOutFound => Implemented
  BY MarkHandsOut DEF Consent!ServerStep
<1>6. ASSUME NEW r \in Runs, NEW d \in Devices, NEW outcome \in Outcomes,
             PhoneReceives(r, d, outcome)
      PROVE  Implemented
  BY <1>6, PhoneActs DEF Consent!ServerStep
<1>7. ASSUME NEW k \in Receivers, NEW ok, VerifyReceipt(k, ok) PROVE Implemented
  BY <1>7, ReceiptReports DEF Consent!ServerStep
<1>8. ASSUME NEW k \in Receivers, EmitReceipt(k) PROVE Implemented
  BY <1>8, EventTells DEF Consent!ServerStep
<1>9. ASSUME NEW r \in Runs, NEW d \in Devices, Cancel(r, d) PROVE Implemented
  BY <1>9, CancelWithdraws DEF Consent!ServerStep
<1>10. CASE Restart
  BY <1>10, RestartForgets
<1>11. Implemented
  BY <1>1, <1>2, <1>3, <1>4, <1>5, <1>6, <1>7, <1>8, <1>9, <1>10, HiddenSteps
     DEF Next, ApproverStep, ReceiverStep, Scan
<1>. QED
  BY <1>11

----------------------------------------------------------------------------
\* The backend implements the contract of a launch: offer, approval, command,
\* hand-out, launch, receipt and told outcome happen once at most and in this
\* order, and none of hand-out and receipt after a cancellation, whichever
\* threads race and whatever a restart loses.
THEOREM Refinement == Spec => ImplementsConsent
<1>1. Inv /\ Inv' /\ [Next]_vars =>
        [(\E r \in Runs : Consent!ServerStep(r)) \/ Consent!Forget]_Consent!consentVars
  BY NextRefines
<1>. QED
  BY <1>1, InitRefines, Invariant, PTL DEF Spec, ImplementsConsent, Consent!ConsentSpec

=============================================================================
