---------------------------- MODULE YouTubeLaunch ----------------------------
(***************************************************************************)
(* Consent to launch YouTube on the owner's phone, end to end: the offer,  *)
(* the approval routes, the command queue, the phone's signed polls and    *)
(* receipts, cancellation, and the status the browser is shown (src/app.py *)
(* over the approval service, the run registry and the automation broker). *)
(*                                                                         *)
(* One process runs eight request threads.  A thread's path is cut where   *)
(* it leaves a lock: each piece is one action, and what it read before is  *)
(* carried in its record.  The device broker appears as the devices of the *)
(* one owner (module OwnerDevices, which DeviceBroker implements).         *)
(***************************************************************************)
EXTENDS AutomationBroker, ApprovalService

CONSTANTS
  Approvers,   \* request threads in POST /youtube/runs/<id>/approval
  Receivers,   \* request threads in a receipt route
  MaxTime      \* bound on the clock; every command expires within it

ASSUME MaxTimeAssumption == MaxTime \in Nat

VARIABLES
  approver,    \* each approval thread's progress
  resumer,     \* each run's _resume_tool_run_after_approval thread
  polls,       \* <<device, clock read>> of polls verified and not yet scanned
  receiver,    \* each receipt thread's progress
  responses,   \* handed-out commands on their way to the phone
  phone,       \* what the phone did with each run's command
  created,     \* history: the run ids drawn
  handouts,    \* history: how often each command was handed out
  stored,      \* history: how often each command was stored
  stale,       \* history: commands stored for a device already replaced
  strays,      \* history: <<command, device>> handed out after it was replaced
  approvedBy,  \* history: the routes that consumed each run's ticket
  cancelled    \* history: what a run's cancellation was answered for

wire == <<responses, phone>>
threads == <<approver, resumer, polls, receiver>>
history == <<created, handouts, stored, stale, strays, approvedBy, cancelled>>
queue == <<pending, found>>
backend == <<tickets, runs, queue, accepted, threads, history>>
vars == <<now, tickets, runs, queue, accepted, registry, threads, wire, history>>

Idle == [step |-> "idle"]

Approver ==
  {Idle} \cup [step : {"checked", "approved", "stored"}, run : Runs]
    \cup [step : {"bound"}, run : Runs, device : Devices, expires : Nat]

Receiver ==
  {Idle}
    \cup [step : {"arrived"}, run : Runs, device : Devices, outcome : Outcomes, at : Nat]
    \cup [step : {"verified"}, run : Runs, outcome : Outcomes]

Init ==
  /\ now = 0
  /\ tickets = [r \in Runs |-> NoTicket]
  /\ runs = [r \in Runs |-> NoRun]
  /\ pending = [r \in Runs |-> NoCommand] /\ found = {}
  /\ accepted = [r \in Runs |-> <<>>]
  /\ active \in {{d} : d \in Devices}
  /\ revoked = {}
  /\ approver = [a \in Approvers |-> Idle]
  /\ resumer = [r \in Runs |-> "none"]
  /\ polls = {}
  /\ receiver = [k \in Receivers |-> Idle]
  /\ responses = {}
  /\ phone = [r \in Runs |-> "none"]
  /\ created = {}
  /\ handouts = [r \in Runs |-> 0]
  /\ stored = [r \in Runs |-> 0]
  /\ stale = {} /\ strays = {}
  /\ approvedBy = [r \in Runs |-> <<>>]
  /\ cancelled = [r \in Runs |-> "no"]

----------------------------------------------------------------------------
(* The offer.  Nobody else knows the run id until the chat answer returns, *)
(* so creation, the ticket and the registry update are one step.           *)

CreateYouTubeOpenRun(r) ==
  /\ r \notin created
  /\ now + TTL <= MaxTime
  /\ created' = created \cup {r}
  /\ Mint(r)
  /\ runs' = [runs EXCEPT ![r].status = "waiting", ![r].command = TRUE]
  /\ UNCHANGED <<now, queue, accepted, registry, threads, wire, handouts,
                 stored, stale, strays, approvedBy, cancelled>>

\* POST /android/devices/<id>/commands.  The policy asks for an approval, so
\* the route answers 403: what is left is a run without command, and a ticket.
QueueAndroidCommand(r) ==
  /\ r \notin created
  /\ now + TTL <= MaxTime
  /\ created' = created \cup {r}
  /\ Mint(r)
  /\ runs' = [runs EXCEPT ![r].status = "queued"]
  /\ UNCHANGED <<now, queue, accepted, registry, threads, wire, handouts,
                 stored, stale, strays, approvedBy, cancelled>>

----------------------------------------------------------------------------
(* POST /youtube/runs/<id>/approval: _queue_approved_youtube_open. *)

\* What no step of the route changes.
approvalFrame == <<now, accepted, registry, resumer, polls, receiver, wire,
                   created, handouts, strays, cancelled>>

Step(a, record) == approver' = [approver EXCEPT ![a] = record]

\* The run and its ticket are read.  (Two lock sections, one step: both facts
\* can only turn false, so if each held when read, both held at the first.)
CheckApproval(a, r) ==
  /\ approver[a] = Idle
  /\ HasCommand(r) /\ ~runs[r].submitted
  /\ Pending(r)
  /\ Step(a, [step |-> "checked", run |-> r])
  /\ UNCHANGED <<approvalFrame, tickets, runs, queue, stored, stale, approvedBy>>

\* resume_deferred_after_approval.
ConsumeApproval(a) ==
  /\ approver[a].step = "checked"
  /\ LET r == approver[a].run IN
       /\ Consume(r)
       /\ IF Approvable(r)
          THEN /\ Step(a, [step |-> "approved", run |-> r])
               /\ approvedBy' = [approvedBy EXCEPT ![r] = Append(@, "youtube")]
          ELSE Step(a, Idle) /\ UNCHANGED approvedBy
  /\ UNCHANGED <<approvalFrame, runs, queue, stored, stale>>

\* The device is the one the browser named or the single active one, and
\* request_command asserts that it is active.  A failure of either is an
\* AndroidDeviceBrokerError, which the route does not catch; so is a failure
\* of the registry (registryUp = FALSE).  The thread ends, the ticket stays used.
BindCommand(a, named, registryUp) ==
  /\ approver[a].step = "approved"
  /\ LET r == approver[a].run
         usable == {d \in active : named = d \/ (named = None /\ active = {d})}
         expires == tickets[r].expires IN
       IF registryUp /\ usable # {} /\ now < expires
       THEN \E d \in usable : Step(a, [step |-> "bound", run |-> r, device |-> d,
                                        expires |-> expires])
       ELSE Step(a, Idle)
  /\ UNCHANGED <<approvalFrame, tickets, runs, queue, stored, stale, approvedBy>>

\* request_command stores the command: polls can see it from here on.
StoreCommand(a) ==
  /\ approver[a].step = "bound"
  /\ LET r == approver[a].run IN
       /\ Store(r, approver[a].device, approver[a].expires)
       /\ Step(a, [step |-> "stored", run |-> r])
       /\ stored' = [stored EXCEPT ![r] = @ + 1]
       /\ stale' = IF approver[a].device \in active THEN stale ELSE stale \cup {r}
  /\ UNCHANGED <<approvalFrame, tickets, runs, found, approvedBy>>

\* The run is marked dispatched, whatever happened to it since.
MarkDispatched(a) ==
  /\ approver[a].step = "stored"
  /\ runs' = [runs EXCEPT ![approver[a].run].submitted = TRUE,
                          ![approver[a].run].status = "dispatched"]
  /\ Step(a, Idle)
  /\ UNCHANGED <<approvalFrame, tickets, queue, stored, stale, approvedBy>>

----------------------------------------------------------------------------
(* POST /tools/runs/<id>/approval accepts any run that has a tool command. *)

resumeFrame == <<now, queue, accepted, registry, approver, polls, receiver, wire,
                 created, handouts, stored, stale, strays, cancelled>>

\* The ticket is read before the section that tests and sets "submitted".  One
\* step: whoever uses the ticket in between has already made its own check of
\* "submitted", and nothing else reads that flag.
SubmitToolApproval(r) ==
  /\ HasCommand(r)
  /\ Pending(r)
  /\ ~runs[r].submitted
  /\ runs' = [runs EXCEPT ![r].submitted = TRUE]
  /\ resumer' = [resumer EXCEPT ![r] = "started"]
  /\ UNCHANGED <<resumeFrame, tickets, approvedBy>>

\* resume_after_approval, first the ticket ...
ResumeConsume(r) ==
  /\ resumer[r] = "started"
  /\ Consume(r)
  /\ IF Approvable(r)
     THEN /\ resumer' = [resumer EXCEPT ![r] = "approved"]
          /\ approvedBy' = [approvedBy EXCEPT ![r] = Append(@, "tools")]
     ELSE /\ resumer' = [resumer EXCEPT ![r] =
               IF tickets[r].expires <= now THEN "approval_expired" ELSE "approval_invalid"]
          /\ UNCHANGED approvedBy
  /\ UNCHANGED <<resumeFrame, runs>>

\* ... then its events, one section each.  android_companion has no adapter.
ResumeEmit(r) ==
  /\ \/ /\ resumer[r] = "approved"
        /\ Emit(r, "approval_received")
        /\ resumer' = [resumer EXCEPT ![r] = "runner_unavailable"]
     \/ /\ resumer[r] \in {"runner_unavailable", "approval_expired", "approval_invalid"}
        /\ Emit(r, resumer[r])
        /\ resumer' = [resumer EXCEPT ![r] = "done"]
  /\ UNCHANGED <<resumeFrame, tickets, approvedBy>>

----------------------------------------------------------------------------
(* POST /android/devices/<id>/commands/poll. *)

pollFrame == <<now, tickets, runs, accepted, registry, approver, resumer, receiver,
               created, stored, stale, approvedBy, cancelled>>

\* verify_device_poll succeeds for an active device; next_for_device then
\* reads the clock and waits for the lock.
AcceptPoll(d) ==
  /\ d \in active
  /\ polls' = polls \cup {<<d, now>>}
  /\ UNCHANGED <<pollFrame, queue, wire, handouts, strays>>

\* Wrong variant: assert_active_owner is skipped.
MayRefuseAny(d, refused) == TRUE

\* The entries whose assert_active_owner fails: all of them when the device
\* is not active, any of them when the registry does not answer.  (The entries
\* are asked about one by one, in one step: a device that is replaced half-way
\* is active in the first answers and not in the rest, as if the registry had
\* not answered, and none becomes active.)
MayRefuse(d, refused) == d \in active \/ refused = Runs

ExamineQueue(d, at, refused) ==
  /\ <<d, at>> \in polls
  /\ MayRefuse(d, refused)
  /\ Examine(d, at, refused)
  /\ polls' = polls \ {<<d, at>>}
  /\ UNCHANGED <<pollFrame, wire, handouts, strays>>

\* The device may have been replaced since it was asked about.
HandOutFound ==
  /\ MarkFound
  /\ responses' = responses \cup {<<r, pending[r].device>> : r \in found}
  /\ handouts' = [r \in Runs |-> IF r \in found THEN handouts[r] + 1 ELSE handouts[r]]
  /\ strays' = strays \cup
       {<<r, pending[r].device>> : r \in {s \in found : pending[s].device \notin active}}
  /\ UNCHANGED <<pollFrame, polls, phone>>

\* The answer reaches the phone, which launches the app or fails to, or it
\* is lost.
PhoneReceives(r, d, outcome) ==
  /\ <<r, d>> \in responses
  /\ responses' = responses \ {<<r, d>>}
  /\ phone' = [phone EXCEPT ![r] = outcome]
  /\ UNCHANGED <<now, backend, registry>>

LoseResponse(r, d) ==
  /\ <<r, d>> \in responses
  /\ responses' = responses \ {<<r, d>>}
  /\ UNCHANGED <<now, backend, registry, phone>>

----------------------------------------------------------------------------
(* Receipts.  The phone may send its receipt again at any time. *)

receiptFrame == <<now, tickets, registry, approver, resumer, polls, wire, history>>

\* The route derived the owner from an active device; the clock is read and
\* the receipt's own checks are made before the lock.  (The signed-in route
\* skips the first; VerifyReceipt refuses an inactive device for both.)
ReceiptArrives(k, r, d) ==
  /\ receiver[k] = Idle
  /\ d \in active
  /\ phone[r] \in Outcomes
  /\ receiver' = [receiver EXCEPT ![k] =
       [step |-> "arrived", run |-> r, device |-> d, outcome |-> phone[r], at |-> now]]
  /\ UNCHANGED <<receiptFrame, runs, queue, accepted>>

\* verify_device_receipt.  The device broker refuses the payload of a revoked
\* device, a replayed sequence or while the registry is down (payloadOK = FALSE);
\* the entry is then kept.
VerifyReceipt(k, payloadOK) ==
  /\ receiver[k].step = "arrived"
  /\ Unlocked
  /\ LET r == receiver[k].run
         d == receiver[k].device IN
       IF Receivable(r, d, receiver[k].at) /\ d \in active /\ payloadOK
       THEN /\ Receive(r, receiver[k].outcome)
            /\ receiver' = [receiver EXCEPT ![k] =
                 [step |-> "verified", run |-> r, outcome |-> receiver[k].outcome]]
       ELSE /\ receiver' = [receiver EXCEPT ![k] = Idle]
            /\ UNCHANGED <<pending, accepted>>
  /\ UNCHANGED <<receiptFrame, runs, found>>

\* accept_verified_deferred_receipt: the receipt becomes the run's event.
EmitReceipt(k) ==
  /\ receiver[k].step = "verified"
  /\ Emit(receiver[k].run, receiver[k].outcome)
  /\ receiver' = [receiver EXCEPT ![k] = Idle]
  /\ UNCHANGED <<receiptFrame, queue, accepted>>

----------------------------------------------------------------------------
(* POST /android/devices/<id>/commands/<id>/cancel, answered "cancelled". *)

Cancel(r, d) ==
  /\ CancelCommand(r, d)
  /\ cancelled' = [cancelled EXCEPT ![r] =
       IF @ # "no" THEN @ ELSE IF pending[r].delivered THEN "delivered" ELSE "undelivered"]
  /\ UNCHANGED <<now, tickets, runs, found, accepted, registry, threads, wire, created,
                 handouts, stored, stale, strays, approvedBy>>

----------------------------------------------------------------------------
(* The environment. *)

\* A fresh enrolment replaces the owner's device; a revocation removes it.
EnrollDevice(d) == Enroll(d) /\ UNCHANGED <<now, backend, wire>>

RevokeDevice(d) == Revoke(d) /\ UNCHANGED <<now, backend, wire>>

Tick ==
  /\ now < MaxTime
  /\ now' = now + 1
  /\ UNCHANGED <<backend, registry, wire>>

\* The process restarts: runs, tickets, commands and threads are gone; the
\* registry, the phone and answers already on the wire are not.
Restart ==
  /\ runs' = [r \in Runs |-> NoRun]
  /\ tickets' = [r \in Runs |-> NoTicket]
  /\ pending' = [r \in Runs |-> NoCommand] /\ found' = {}
  /\ approver' = [a \in Approvers |-> Idle]
  /\ resumer' = [r \in Runs |-> "none"]
  /\ polls' = {}
  /\ receiver' = [k \in Receivers |-> Idle]
  /\ UNCHANGED <<now, accepted, registry, wire, history>>

----------------------------------------------------------------------------
ApproverStep(a) ==
  \/ ConsumeApproval(a)
  \/ \E named \in Devices \cup {None}, up \in BOOLEAN : BindCommand(a, named, up)
  \/ StoreCommand(a)
  \/ MarkDispatched(a)

ReceiverStep(k) ==
  \/ \E ok \in BOOLEAN : VerifyReceipt(k, ok)
  \/ EmitReceipt(k)

Scan(d) == \E at \in 0..MaxTime, refused \in SUBSET Runs : ExamineQueue(d, at, refused)

Next ==
  \/ \E r \in Runs : \/ CreateYouTubeOpenRun(r) \/ QueueAndroidCommand(r)
                     \/ SubmitToolApproval(r) \/ ResumeConsume(r) \/ ResumeEmit(r)
  \/ \E a \in Approvers : ApproverStep(a) \/ \E r \in Runs : CheckApproval(a, r)
  \/ \E d \in Devices : AcceptPoll(d) \/ Scan(d) \/ EnrollDevice(d) \/ RevokeDevice(d)
  \/ HandOutFound
  \/ \E r \in Runs, d \in Devices :
       \/ \E outcome \in Outcomes : PhoneReceives(r, d, outcome)
       \/ LoseResponse(r, d)
       \/ Cancel(r, d)
       \/ \E k \in Receivers : ReceiptArrives(k, r, d)
  \/ \E k \in Receivers : ReceiverStep(k)
  \/ Tick
  \/ Restart

Spec == Init /\ [][Next]_vars

(* Time passes, an active companion keeps polling, and the server ends each *)
(* scan it began.                                                           *)
Fairness ==
  /\ WF_vars(Tick) /\ WF_vars(HandOutFound)
  /\ \A d \in Devices : WF_vars(AcceptPoll(d)) /\ WF_vars(Scan(d))

FairSpec == Spec /\ Fairness

----------------------------------------------------------------------------
(* Every variable stays in its range. *)
TypeOK ==
  /\ now \in Nat
  /\ tickets \in [Runs -> Ticket]
  /\ runs \in [Runs -> Run]
  /\ pending \in [Runs -> Command] /\ found \subseteq Runs
  /\ accepted \in [Runs -> Seq(Outcomes)]
  /\ active \subseteq Devices /\ revoked \subseteq Devices
  /\ approver \in [Approvers -> Approver]
  /\ resumer \in [Runs -> {"none", "started", "approved", "runner_unavailable",
                           "approval_expired", "approval_invalid", "done"}]
  /\ polls \subseteq Devices \X Nat
  /\ receiver \in [Receivers -> Receiver]
  /\ responses \subseteq Runs \X Devices
  /\ phone \in [Runs -> Outcomes \cup {"none"}]
  /\ created \subseteq Runs
  /\ handouts \in [Runs -> Nat]
  /\ stored \in [Runs -> Nat]
  /\ stale \subseteq Runs /\ strays \subseteq Runs \X Devices
  /\ approvedBy \in [Runs -> Seq({"youtube", "tools"})]
  /\ cancelled \in [Runs -> {"no", "undelivered", "delivered"}]

(* One consent, one command: "Consume one consent ticket and queue exactly  *)
(* one ... launch".  However approvals race on both routes, a command is    *)
(* stored at most once, and only if the YouTube route is the one and only   *)
(* consumer of the run's ticket.                                            *)
OneCommandPerConsent ==
  \A r \in Runs :
    /\ Len(approvedBy[r]) <= 1
    /\ stored[r] <= 1
    /\ stored[r] = 1 => approvedBy[r] = <<"youtube">>

(* The phone is handed a run's command at most once, so a lost answer, a    *)
(* second poll or a restart never launches the app twice.                   *)
HandedOutOnce == \A r \in Runs : handouts[r] <= 1

(* A receipt is accepted at most once per command, whatever the phone sends *)
(* again, and only for a command that was handed out.                       *)
OneReceiptPerCommand ==
  \A r \in Runs : Len(accepted[r]) <= handouts[r]

(* The browser is told of a verified outcome, success or failure, only when *)
(* that outcome is the one the phone reported for this very run.            *)
OutcomeIsThePhones ==
  \A r \in Runs :
    LET told == {runs[r].events[i] : i \in DOMAIN runs[r].events} \cap Outcomes
    IN  told \subseteq {phone[r]}

(* A cancellation answered "cancelled" holds: from then on the command is   *)
(* not handed out and no receipt is accepted for it, whichever polls and    *)
(* receipts were already under way.                                         *)
CancellationHolds ==
  [][\A r \in Runs : cancelled[r] # "no" =>
       handouts'[r] = handouts[r] /\ accepted'[r] = accepted[r]]_vars

(* A run whose approval was taken by the tools route is never dispatched.   *)
ToolApprovalNeverDispatches ==
  \A r \in Runs : "tools" \in {approvedBy[r][i] : i \in DOMAIN approvedBy[r]}
                    => ~Queued(r) /\ runs[r].status # "dispatched"

(* A device command requested directly, without an offer, is never          *)
(* dispatched: its ticket stays open for two minutes and no approval route  *)
(* takes it.                                                                *)
DirectCommandNeverDispatches ==
  \A r \in Runs : runs[r].status # "absent" /\ ~runs[r].command
                    => approvedBy[r] = <<>> /\ ~Queued(r)

(* A command whose device was replaced between the check of request_command *)
(* and the section that stores it is never handed out: the poll's own check *)
(* comes after, whenever the poll was accepted.                             *)
StaleBindingNotHandedOut == \A r \in stale : handouts[r] = 0

(* Replacing or revoking a device takes hold of the queue: of all commands  *)
(* queued for it one at most reaches it afterwards, the one a scan had      *)
(* examined and not yet marked.                                             *)
OneStrayPerDevice ==
  \A r, s \in Runs, d \in Devices : <<r, d>> \in strays /\ <<s, d>> \in strays => r = s

(* Commands do not pile up: as long as the companion stays active and keeps *)
(* polling, each stored command leaves the queue, receipt or no receipt.    *)
QueueDrains ==
  \A r \in Runs, d \in Devices :
    pending[r].device = d ~> pending[r].device # d \/ d \notin active

----------------------------------------------------------------------------
(* The contract of module ConsentLaunch, read off the histories.  A step    *)
(* taken twice is a stage the contract does not have.                       *)

Repeated(r) ==
  Len(approvedBy[r]) > 1 \/ stored[r] > 1 \/ handouts[r] > 1 \/ Len(accepted[r]) > 1

StageOf(r) ==
  IF Repeated(r) THEN "repeated"
  ELSE IF accepted[r] # <<>> THEN "reported"
  ELSE IF phone[r] # "none" THEN "acted"
  ELSE IF handouts[r] = 1 THEN "handed"
  ELSE IF stored[r] = 1 THEN "queued"
  ELSE IF approvedBy[r] = <<"youtube">> THEN "approved"
  ELSE IF approvedBy[r] = <<"tools">> THEN "spent"
  ELSE IF r \in created THEN "offered"
  ELSE "none"

ToldOf(r) == {runs[r].events[i] : i \in DOMAIN runs[r].events} \cap Outcomes

Consent == INSTANCE ConsentLaunch WITH
  stage <- [r \in Runs |-> StageOf(r)],
  withdrawn <- {r \in Runs : cancelled[r] # "no"},
  launched <- phone,
  told <- [r \in Runs |-> ToldOf(r)]

(* The threads, the queue and the phone together keep the contract of one   *)
(* consent: every step maps to a step of ConsentLaunch or to none, so       *)
(* approval, command, hand-out, launch, receipt and told outcome each       *)
(* happen once at most, in this order, and none of hand-out and receipt     *)
(* after a cancellation, whatever a restart loses in between.               *)
ImplementsConsent == Consent!ConsentSpec

----------------------------------------------------------------------------
(* What the repository says of this code and the code does not do. *)

(* The label of the status "dispatched" is "Waiting for verified phone      *)
(* receipt" (youtube_open_status): the run has no verified outcome yet.      *)
DispatchedAwaitsReceipt ==
  \A r \in Runs : runs[r].status = "dispatched" =>
    Outcomes \cap {runs[r].events[i] : i \in DOMAIN runs[r].events} = {}

(* "Permit only the command owner to cancel an undelivered device action"   *)
(* (cancel_android_command): a delivered one is not answered "cancelled".   *)
CancelOnlyUndelivered == \A r \in Runs : cancelled[r] # "delivered"

=============================================================================
