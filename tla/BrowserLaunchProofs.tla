------------------------- MODULE BrowserLaunchProofs -------------------------
(***************************************************************************)
(* Theorems about what the page tells its user, for any number of launches *)
(* in one page, any set of outcomes and any number of status requests.     *)
(*                                                                         *)
(* A flow meets the rest of the system only through its request, so the    *)
(* inductive invariant is one statement about each flow: what its page and *)
(* its request have come to says how far its launch can have come.         *)
(***************************************************************************)
EXTENDS BrowserLaunch, TLAPS

----------------------------------------------------------------------------
(* The inductive invariant. *)

\* The flow has not posted its approval (it may never do so).
Unposted == {"none", "asking", "approving", "declined"}

\* The stages before the launch's command is queued.
NotQueued == {"offered", "spent", "approved"}

\* The stages of a launch that nobody has approved for the YouTube route.
Unapproved == {"offered", "spent"}

\* Until the approval is posted no request is under way, and all that can have
\* happened to the ticket of the offer is that the tools route spent it.
OfferOnly(r) ==
  /\ page[r] \in Unposted => request[r] = "none" /\ stage[r] \in Unapproved \cup {"none"}
  /\ page[r] # "none" => stage[r] # "none"

\* A request of the approval says where the launch stands.
RequestStage(r) ==
  /\ request[r] \in {"sent", "checked"} => stage[r] \in Unapproved
  /\ request[r] = "approved" => stage[r] = "approved"
  /\ request[r] = "refused" => stage[r] \in NotQueued

\* The phone reported the launch, or reported that it failed.
ReportedOpen(r) == stage[r] = "reported" /\ launched[r] = Verified
ReportedFailure(r) == stage[r] = "reported" /\ launched[r] \in Outcomes \ {Verified}

\* An outcome in the registry or in an answer is the phone's; a failure may
\* also be that of the tools route.
OutcomesReported(r) ==
  /\ stage[r] \in {"acted", "reported"} => launched[r] \in Outcomes
  /\ "completed" \in {status[r], request[r]} => ReportedOpen(r)
  /\ "failed" \in {status[r], request[r]} => ReportedFailure(r) \/ resumer[r] # "none"

\* Only a restart makes an offered run unknown.
UnknownWasLost(r) ==
  /\ status[r] = "absent" /\ stage[r] # "none" => r \in lost
  /\ request[r] = "absent" => r \in lost

\* What a concluded flow shows, and why it stays true.
ShownHolds(r) ==
  /\ page[r] = "opened" => ReportedOpen(r)
  /\ page[r] = "failed" => ReportedFailure(r) \/ resumer[r] # "none"
  /\ page[r] = "denied" /\ r \notin lost => request[r] = "none" /\ stage[r] \in NotQueued

FlowInv(r) ==
  /\ OfferOnly(r) /\ RequestStage(r) /\ OutcomesReported(r)
  /\ UnknownWasLost(r) /\ ShownHolds(r)

Inv == TypeOK /\ \A r \in Runs : FlowInv(r)

----------------------------------------------------------------------------
(* Types. *)

LEMMA InitType == Init => TypeOK
BY AttemptsAssumption, NamesAssumption, NoSuchOutcome
   DEF Init, ConsentInit, TypeOK, Stages, Progresses, Statuses, Concluded

\* The dialog and the flow that asks, when another flow takes it over.
LEMMA RequestConfirmationType ==
  ASSUME TypeOK, NEW newcomer \in Runs \cup {"other"}, RequestConfirmation(newcomer)
  PROVE  /\ page' \in [Runs -> Concluded \cup {"none", "asking", "approving", "posting",
                                               "polling"}]
         /\ dialog' \in Runs \cup {"closed", "other"}
         /\ \A r \in Runs : page'[r] = "asking" <=> dialog' = r
BY NamesAssumption DEF TypeOK, RequestConfirmation, Concluded

LEMMA NextType == Inv /\ [Next]_vars => TypeOK'
<1>. SUFFICES ASSUME TypeOK, \A r \in Runs : FlowInv(r), [Next]_vars PROVE TypeOK'
  BY DEF Inv
<1>. USE DEF pageVars, consentVars, serverVars
<1>1. ASSUME NEW r \in Runs, ReceiveOffer(r) PROVE TypeOK'
  BY <1>1, RequestConfirmationType DEF ReceiveOffer, TypeOK
<1>2. CASE AskSomethingElse
  BY <1>2, RequestConfirmationType DEF AskSomethingElse, TypeOK
<1>3. ASSUME NEW approved \in BOOLEAN, ResolveConfirmation(approved) PROVE TypeOK'
  BY <1>3, NamesAssumption DEF ResolveConfirmation, TypeOK, Concluded
<1>4. ASSUME NEW r \in Runs, PageStep(r) \/ RequestFails(r) PROVE TypeOK'
  <2>1. CASE PostApproval(r)
    BY <2>1 DEF PostApproval, TypeOK, Progresses
  <2>2. CASE TakeAnswer(r)
    BY <2>2 DEF TakeAnswer, TypeOK, Concluded, Progresses
  <2>3. CASE AskStatus(r)
    BY <2>3, AttemptsAssumption DEF AskStatus, TypeOK, Concluded, Progresses
  <2>4. CASE TakeStatus(r)
    BY <2>4 DEF TakeStatus, Shown, TypeOK, Concluded, Progresses
  <2>5. CASE RequestFails(r)
    BY <2>5 DEF RequestFails, TypeOK, Concluded
  <2>. QED
    BY <1>4, <2>1, <2>2, <2>3, <2>4, <2>5 DEF PageStep
<1>5. ASSUME NEW r \in Runs, ServeStep(r) \/ Vanish(r) PROVE TypeOK'
  <2>1. ASSUME NEW to \in Progresses, NEW from, Progress(r, from, to)
        PROVE  request' \in [Runs -> Progresses] /\ UNCHANGED <<pageVars, lost>>
    BY <2>1 DEF Progress, TypeOK
  <2>0. CASE ServeCheck(r)
    BY <2>1, <2>0 DEF ServeCheck, TypeOK, Progresses
  <2>2. CASE ServeApprove(r)
    BY <2>1, <2>2 DEF ServeApprove, Approve, Advance, TypeOK, Stages, Progresses
  <2>3. CASE ServeQueue(r)
    BY <2>1, <2>3 DEF ServeQueue, Queue, Advance, TypeOK, Stages, Progresses
  <2>4. CASE ServeMark(r)
    BY <2>1, <2>4 DEF ServeMark, TypeOK, Statuses, Progresses
  <2>5. CASE ServeRefuse(r) \/ Vanish(r)
    BY <2>1, <2>5 DEF ServeRefuse, Vanish, TypeOK, Progresses
  <2>6. CASE ServeStatus(r)
    <3>1. status[r] \in Progresses
      BY DEF TypeOK, Progresses
    <3>. QED
      BY <2>1, <2>6, <3>1 DEF ServeStatus, TypeOK
  <2>. QED
    BY <1>5, <2>0, <2>2, <2>3, <2>4, <2>5, <2>6 DEF ServeStep
<1>6. ASSUME NEW r \in Runs, OfferRun(r) \/ ExpireTicket(r) PROVE TypeOK'
  BY <1>6 DEF OfferRun, ExpireTicket, Offer, Advance, TypeOK, Stages, Statuses
<1>7. ASSUME NEW r \in Runs, TellRun(r) PROVE TypeOK'
  <2>1. launched[r] \in Outcomes
    BY <1>7 DEF TellRun, Tell, FlowInv, OutcomesReported
  <2>. QED
    BY <1>7, <2>1 DEF TellRun, Tell, Emit, TypeOK, Statuses
<1>8. ASSUME NEW r \in Runs, Elsewhere(r) PROVE TypeOK'
  BY <1>8 DEF Elsewhere, HandOut, Act, Report, Withdraw, Advance, TypeOK, Stages
<1>9. ASSUME NEW r \in Runs, ToolsStep(r) PROVE TypeOK'
  BY <1>9 DEF ToolsStep, SubmitToolApproval, ResumeConsume, ResumeEmit, Emit, Spend, Advance,
              TypeOK, Stages, Statuses
<1>10. CASE Restart
  BY <1>10 DEF Restart, Forget, TypeOK, Statuses, Progresses
<1>11. CASE UNCHANGED vars
  BY <1>11 DEF vars, TypeOK
<1>. QED
  BY <1>1, <1>2, <1>3, <1>4, <1>5, <1>6, <1>7, <1>8, <1>9, <1>10, <1>11 DEF Next

----------------------------------------------------------------------------
(* The invariant is inductive. *)

LEMMA InitInv == Init => Inv
<1>. SUFFICES ASSUME Init PROVE Inv
  OBVIOUS
<1>1. ASSUME NEW r \in Runs PROVE FlowInv(r)
  BY <1>1 DEF Init, ConsentInit, FlowInv, OfferOnly, RequestStage, OutcomesReported,
              UnknownWasLost, ShownHolds, Unposted
<1>. QED
  BY <1>1, InitType DEF Inv

\* A flow that a step does not touch.
LEMMA Untouched ==
  ASSUME NEW r \in Runs, FlowInv(r),
         page'[r] = page[r], request'[r] = request[r], stage'[r] = stage[r],
         launched'[r] = launched[r], status'[r] = status[r], r \in lost => r \in lost',
         resumer[r] # "none" => resumer'[r] # "none"
  PROVE  FlowInv(r)'
BY DEF FlowInv, OfferOnly, RequestStage, OutcomesReported, ReportedOpen, ReportedFailure,
       UnknownWasLost, ShownHolds

\* The dialog changes hands or is answered: flows ask, are declined, or go on
\* to post their approval.
LEMMA DialogInv ==
  ASSUME Inv,
         \/ \E r \in Runs : ReceiveOffer(r)
         \/ AskSomethingElse
         \/ \E approved \in BOOLEAN : ResolveConfirmation(approved)
  PROVE  \A r \in Runs : FlowInv(r)'
<1>. SUFFICES ASSUME NEW r \in Runs PROVE FlowInv(r)'
  OBVIOUS
<1>1. UNCHANGED <<request, stage, launched, status, resumer, lost>> /\ FlowInv(r)
  BY DEF ReceiveOffer, AskSomethingElse, ResolveConfirmation, consentVars, serverVars, Inv
<1>2. \/ page'[r] = page[r]
      \/ /\ page'[r] \in {"asking", "approving", "declined"}
         /\ page[r] \in {"none", "asking"} /\ stage[r] # "none"
  <2>1. page[r] = "asking" <=> dialog = r
    BY DEF Inv, TypeOK
  <2>2. page[r] = "asking" => stage[r] # "none"
    BY <1>1 DEF FlowInv, OfferOnly
  <2>3. ASSUME NEW s \in Runs, ReceiveOffer(s) PROVE <1>2!1 \/ <1>2!2
    BY <2>1, <2>2, <2>3 DEF ReceiveOffer, RequestConfirmation
  <2>4. CASE AskSomethingElse
    BY <2>1, <2>2, <2>4, NamesAssumption DEF AskSomethingElse, RequestConfirmation
  <2>5. ASSUME NEW approved \in BOOLEAN, ResolveConfirmation(approved)
        PROVE  <1>2!1 \/ <1>2!2
    BY <2>1, <2>2, <2>5 DEF ResolveConfirmation
  <2>. QED
    BY <2>3, <2>4, <2>5
<1>. QED
  BY <1>1, <1>2 DEF FlowInv, OfferOnly, RequestStage, OutcomesReported, ReportedOpen,
                    ReportedFailure, UnknownWasLost, ShownHolds, Unposted, Unapproved

\* The page posts, asks, or takes an answer.
LEMMA PageStepInv ==
  ASSUME Inv, NEW r \in Runs, PageStep(r) \/ RequestFails(r)
  PROVE  \A s \in Runs : FlowInv(s)'
<1>. USE DEF consentVars, pageVars, serverVars
<1>1. UNCHANGED <<stage, launched, status, resumer>>
  BY DEF PageStep, PostApproval, TakeAnswer, AskStatus, TakeStatus, RequestFails
<1>2. \A s \in Runs : FlowInv(s)
  BY DEF Inv
<1>3. \A s \in Runs : s # r => page'[s] = page[s] /\ request'[s] = request[s]
  BY DEF PageStep, PostApproval, TakeAnswer, AskStatus, TakeStatus, RequestFails, Inv, TypeOK
<1>4. \A s \in Runs : s \in lost => s \in lost'
  BY DEF PageStep, PostApproval, TakeAnswer, AskStatus, TakeStatus, RequestFails
<1>5. FlowInv(r)'
  <2>. USE DEF FlowInv, OfferOnly, RequestStage, OutcomesReported, ReportedOpen,
               ReportedFailure, UnknownWasLost, ShownHolds, Unposted
  <2>1. CASE PostApproval(r)
    <3>1. page'[r] = "posting" /\ request'[r] = "sent" /\ page[r] = "approving" /\ lost' = lost
      BY <2>1 DEF PostApproval, Inv, TypeOK
    <3>. QED
      BY <1>1, <1>2, <3>1
  <2>2. CASE TakeAnswer(r)
    <3>1. /\ request'[r] = "none" /\ lost' = lost /\ page[r] = "posting"
          /\ \/ page'[r] = "polling"
             \/ page'[r] = "denied" /\ request[r] = "refused"
      BY <2>2 DEF TakeAnswer, Inv, TypeOK
    <3>. QED
      BY <1>1, <1>2, <3>1
  <2>3. CASE AskStatus(r)
    <3>1. /\ lost' = lost /\ page[r] = "polling" /\ request[r] = "none"
          /\ \/ page'[r] = "polling" /\ request'[r] = "asked"
             \/ page'[r] = "timedOut" /\ request'[r] = "none"
      BY <2>3 DEF AskStatus, Inv, TypeOK
    <3>. QED
      BY <1>1, <1>2, <3>1
  <2>4. CASE TakeStatus(r)
    <3>1. /\ request'[r] = "none" /\ lost' = lost /\ page[r] = "polling"
          /\ \/ page'[r] = "opened" /\ request[r] = "completed"
             \/ page'[r] = "failed" /\ request[r] = "failed"
             \/ page'[r] = "denied" /\ request[r] = "absent"
             \/ page'[r] = "polling"
      BY <2>4 DEF TakeStatus, Shown, Inv, TypeOK
    <3>. QED
      BY <1>1, <1>2, <3>1
  <2>5. CASE RequestFails(r)
    <3>1. /\ page[r] \in {"posting", "polling"} /\ page'[r] = "denied" /\ r \in lost'
          /\ request' = request
      BY <2>5 DEF RequestFails, Inv, TypeOK
    <3>. QED
      BY <1>1, <1>2, <3>1
  <2>. QED
    BY <2>1, <2>2, <2>3, <2>4, <2>5 DEF PageStep
<1>. QED
  BY <1>1, <1>2, <1>3, <1>4, <1>5, Untouched

\* The server serves the flow's request, or the request is lost.
LEMMA ServeInv ==
  ASSUME Inv, NEW r \in Runs, ServeStep(r) \/ Vanish(r)
  PROVE  \A s \in Runs : FlowInv(s)'
<1>. USE DEF consentVars, pageVars, serverVars
<1>1. \A s \in Runs : FlowInv(s)
  BY DEF Inv
<1>2. UNCHANGED <<page, launched, lost, resumer>> /\ request[r] # "none"
  <2>1. ASSUME NEW from, NEW to, Progress(r, from, to), from # "none"
        PROVE  UNCHANGED <<page, lost>> /\ request[r] # "none"
    BY <2>1 DEF Progress
  <2>2. UNCHANGED <<launched, resumer>>
    BY DEF ServeStep, ServeCheck, ServeApprove, ServeQueue, ServeMark, ServeRefuse,
           ServeStatus, Vanish, Approve, Queue
  <2>. QED
    BY <2>1, <2>2 DEF ServeStep, ServeCheck, ServeApprove, ServeQueue, ServeMark, ServeRefuse,
                      ServeStatus, Vanish
<1>3. \A s \in Runs : s # r => /\ request'[s] = request[s] /\ stage'[s] = stage[s]
                               /\ status'[s] = status[s]
  <2>1. ASSUME NEW from, NEW to, Progress(r, from, to)
        PROVE  \A s \in Runs : s # r => request'[s] = request[s]
    BY <2>1 DEF Progress, Inv, TypeOK
  <2>2. \A s \in Runs : s # r => stage'[s] = stage[s] /\ status'[s] = status[s]
    BY DEF ServeStep, ServeCheck, ServeApprove, ServeQueue, ServeMark, ServeRefuse,
           ServeStatus, Vanish, Approve, Queue, Advance, Inv, TypeOK
  <2>. QED
    BY <2>1, <2>2 DEF ServeStep, ServeCheck, ServeApprove, ServeQueue, ServeMark, ServeRefuse,
                      ServeStatus, Vanish
<1>4. FlowInv(r)'
  <2>. USE DEF FlowInv, OfferOnly, RequestStage, OutcomesReported, ReportedOpen,
               ReportedFailure, UnknownWasLost, ShownHolds
  <2>1. page[r] \notin Unposted /\ stage[r] # "none"
    BY <1>1, <1>2 DEF Unposted
  <2>2. page[r] = "denied" => r \in lost
    BY <1>1, <1>2
  <2>3. CASE ServeCheck(r)
    <3>1. /\ request[r] = "sent" /\ request'[r] = "checked"
          /\ stage' = stage /\ status' = status
      BY <2>3 DEF ServeCheck, Progress, Inv, TypeOK
    <3>. QED
      BY <1>1, <1>2, <2>1, <2>2, <3>1
  <2>4. CASE ServeApprove(r)
    <3>1. /\ request'[r] = "approved" /\ stage[r] = "offered" /\ stage'[r] = "approved"
          /\ status' = status
      BY <2>4 DEF ServeApprove, Progress, Approve, Advance, Inv, TypeOK
    <3>. QED
      BY <1>1, <1>2, <2>1, <2>2, <3>1
  <2>5. CASE ServeQueue(r)
    <3>1. /\ request'[r] = "queued" /\ stage[r] = "approved" /\ stage'[r] = "queued"
          /\ status' = status
      BY <2>5 DEF ServeQueue, Progress, Queue, Advance, Inv, TypeOK
    <3>. QED
      BY <1>1, <1>2, <2>1, <2>2, <3>1
  <2>6. CASE ServeMark(r)
    <3>1. request'[r] = "accepted" /\ stage' = stage /\ status'[r] = "dispatched"
      BY <2>6 DEF ServeMark, Progress, Inv, TypeOK
    <3>. QED
      BY <1>1, <1>2, <2>1, <2>2, <3>1
  <2>7. CASE ServeRefuse(r)
    <3>1. /\ request'[r] = "refused" /\ request[r] \in {"sent", "checked", "approved"}
          /\ stage' = stage /\ status' = status
      BY <2>7 DEF ServeRefuse, Progress, Inv, TypeOK
    <3>. QED
      BY <1>1, <1>2, <2>1, <2>2, <3>1 DEF NotQueued, Unapproved
  <2>8. CASE ServeStatus(r)
    <3>1. request'[r] = status[r] /\ stage' = stage /\ status' = status
      BY <2>8 DEF ServeStatus, Progress, Inv, TypeOK
    <3>2. status[r] \notin {"sent", "checked", "approved", "refused"}
      BY DEF Inv, TypeOK, Statuses
    <3>. QED
      BY <1>1, <1>2, <2>1, <2>2, <3>1, <3>2
  <2>9. CASE Vanish(r)
    <3>1. request'[r] = "vanished" /\ stage' = stage /\ status' = status
      BY <2>9 DEF Vanish, Progress, Inv, TypeOK
    <3>. QED
      BY <1>1, <1>2, <2>1, <2>2, <3>1
  <2>. QED
    BY <2>3, <2>4, <2>5, <2>6, <2>7, <2>8, <2>9 DEF ServeStep
<1>. QED
  BY <1>1, <1>2, <1>3, <1>4, Untouched

\* The launch moves on elsewhere: it is offered, and from its approval on it
\* comes to its report.
LEMMA LaunchInv ==
  ASSUME Inv, NEW r \in Runs, OfferRun(r) \/ ExpireTicket(r) \/ TellRun(r) \/ Elsewhere(r)
  PROVE  \A s \in Runs : FlowInv(s)'
<1>. USE DEF pageVars, serverVars
<1>1. \A s \in Runs : FlowInv(s)
  BY DEF Inv
<1>2. UNCHANGED <<page, request, resumer, lost>>
  BY DEF OfferRun, ExpireTicket, TellRun, Elsewhere
<1>. USE DEF FlowInv, OfferOnly, RequestStage, OutcomesReported, ReportedOpen,
             ReportedFailure, UnknownWasLost, ShownHolds
<1>3. CASE OfferRun(r)
  <2>1. /\ stage[r] = "none" /\ stage'[r] = "offered" /\ status'[r] = "waiting"
        /\ launched' = launched
        /\ \A s \in Runs : s # r => stage'[s] = stage[s] /\ status'[s] = status[s]
    BY <1>3 DEF OfferRun, Offer, Advance, Inv, TypeOK
  <2>2. FlowInv(r)'
    BY <1>1, <1>2, <2>1 DEF Unposted, Unapproved, NotQueued
  <2>. QED
    BY <1>1, <1>2, <2>1, <2>2, Untouched
<1>4. CASE ExpireTicket(r)
  BY <1>1, <1>2, <1>4, Untouched DEF ExpireTicket, consentVars
<1>5. CASE TellRun(r)
  <2>1. /\ stage[r] = "reported" /\ launched[r] \in Outcomes
        /\ status'[r] = IF launched[r] = Verified THEN "completed" ELSE "failed"
        /\ UNCHANGED <<stage, launched>>
        /\ \A s \in Runs : s # r => status'[s] = status[s]
    BY <1>1, <1>5 DEF TellRun, Tell, Emit, Inv, TypeOK
  <2>2. FlowInv(r)'
    BY <1>1, <1>2, <2>1
  <2>. QED
    BY <1>1, <1>2, <2>1, <2>2, Untouched
<1>6. CASE Elsewhere(r)
  <2>1. /\ status' = status
        /\ \A s \in Runs : s # r => stage'[s] = stage[s] /\ launched'[s] = launched[s]
    BY <1>6 DEF Elsewhere, HandOut, Act, Report, Withdraw, Advance, Inv, TypeOK
  <2>2. \/ stage'[r] = stage[r] /\ launched'[r] = launched[r]
        \/ stage[r] = "queued" /\ stage'[r] = "handed" /\ launched'[r] = launched[r]
        \/ stage[r] = "handed" /\ stage'[r] = "acted" /\ launched'[r] \in Outcomes
        \/ stage[r] = "acted" /\ stage'[r] = "reported" /\ launched'[r] = launched[r]
    BY <1>6 DEF Elsewhere, HandOut, Act, Report, Withdraw, Advance, Inv, TypeOK
  <2>3. FlowInv(r)'
    BY <1>1, <1>2, <2>1, <2>2 DEF Unapproved, NotQueued
  <2>. QED
    BY <1>1, <1>2, <2>1, <2>3, Untouched
<1>. QED
  BY <1>3, <1>4, <1>5, <1>6

\* The tools route spends the ticket, or reports that it failed.
LEMMA ToolsInv ==
  ASSUME Inv, NEW r \in Runs, ToolsStep(r)
  PROVE  \A s \in Runs : FlowInv(s)'
<1>. USE DEF pageVars, consentVars
<1>1. \A s \in Runs : FlowInv(s)
  BY DEF Inv
<1>2. UNCHANGED <<page, request, launched, lost>> /\ resumer'[r] # "none"
  BY DEF ToolsStep, SubmitToolApproval, ResumeConsume, ResumeEmit, Spend, Inv, TypeOK
<1>3. \A s \in Runs : s # r => /\ stage'[s] = stage[s] /\ status'[s] = status[s]
                               /\ resumer'[s] = resumer[s]
  BY DEF ToolsStep, SubmitToolApproval, ResumeConsume, ResumeEmit, Emit, Spend, Advance, Inv,
         TypeOK
<1>4. \/ stage'[r] = stage[r] /\ status'[r] = status[r]
      \/ stage[r] = "offered" /\ stage'[r] = "spent" /\ status'[r] = status[r]
      \/ /\ stage'[r] = stage[r] /\ status'[r] \in {"active", "failed"}
         /\ status[r] # "absent"
  BY DEF ToolsStep, SubmitToolApproval, ResumeConsume, ResumeEmit, Emit, TakesEvents, Spend,
         Advance, Inv, TypeOK
<1>5. FlowInv(r)'
  BY <1>1, <1>2, <1>4
     DEF FlowInv, OfferOnly, RequestStage, OutcomesReported, ReportedOpen, ReportedFailure,
         UnknownWasLost, ShownHolds, Unapproved, NotQueued
<1>. QED
  BY <1>1, <1>2, <1>3, <1>5, Untouched

\* After a restart the registry knows no run, and every run it knew is lost.
LEMMA RestartInv ==
  ASSUME Inv, Restart
  PROVE  \A r \in Runs : FlowInv(r)'
<1>. SUFFICES ASSUME NEW r \in Runs PROVE FlowInv(r)'
  OBVIOUS
<1>1. FlowInv(r)
  BY DEF Inv
<1>2. /\ UNCHANGED <<page, stage, launched>>
      /\ resumer[r] # "none" => resumer'[r] # "none"
      /\ status'[r] = "absent" /\ (r \in lost' <=> r \in lost \/ status[r] # "absent")
      /\ request'[r] = IF request[r] = "none" THEN "none" ELSE "vanished"
  BY DEF Restart, Forget, pageVars
<1>. QED
  BY <1>1, <1>2 DEF FlowInv, OfferOnly, RequestStage, OutcomesReported, ReportedOpen,
                    ReportedFailure, UnknownWasLost, ShownHolds

LEMMA NextInv == Inv /\ [Next]_vars => Inv'
<1>. SUFFICES ASSUME Inv, [Next]_vars PROVE \A r \in Runs : FlowInv(r)'
  BY NextType DEF Inv
<1>1. CASE UNCHANGED vars
  BY <1>1, Untouched DEF vars, pageVars, consentVars, serverVars, Inv
<1>2. ASSUME NEW r \in Runs, ReceiveOffer(r) PROVE \A s \in Runs : FlowInv(s)'
  BY <1>2, DialogInv
<1>. QED
  BY <1>1, <1>2, DialogInv, PageStepInv, ServeInv, LaunchInv, ToolsInv, RestartInv DEF Next

----------------------------------------------------------------------------
\* The invariant holds in every reachable state.
THEOREM Invariant == Spec => []Inv
BY InitInv, NextInv, PTL DEF Spec

\* Every variable of the page stays in its range, and the shared dialog
\* belongs to the one flow that is asking.
THEOREM TypeCorrect == Spec => []TypeOK
<1>1. Inv => TypeOK
  BY DEF Inv
<1>. QED
  BY <1>1, Invariant, PTL

\* Success is shown only if the phone of this very run reported it, whatever
\* the three threads write over each other's status; a failure only if it
\* reported one, or if the tools route was used for this run.
THEOREM OutcomeShown == Spec => []OutcomeShownHappened
<1>1. Inv => OutcomeShownHappened
  BY DEF Inv, FlowInv, ShownHolds, ReportedOpen, ReportedFailure, OutcomeShownHappened
<1>. QED
  BY <1>1, Invariant, PTL

\* A declined or displaced launch is never approved for the YouTube route, let
\* alone queued; at most the tools route spends its ticket.
THEOREM Declined == Spec => []DeclinedNeverLaunches
<1>1. Inv => DeclinedNeverLaunches
  BY DEF Inv, FlowInv, OfferOnly, Unposted, Unapproved, DeclinedNeverLaunches
<1>. QED
  BY <1>1, Invariant, PTL

\* "Denied before a phone command could be sent" is true of every flow that no
\* failed request and no restart touched.
THEOREM Denied == Spec => []DeniedUnlessLost
<1>1. Inv => DeniedUnlessLost
  BY DEF Inv, FlowInv, ShownHolds, NotQueued, Commanded, DeniedUnlessLost
<1>. QED
  BY <1>1, Invariant, PTL

=============================================================================
