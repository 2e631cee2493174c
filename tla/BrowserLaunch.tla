---------------------------- MODULE BrowserLaunch ----------------------------
(***************************************************************************)
(* What the page tells its user about a YouTube launch, against what the   *)
(* server and the phone did (src/frontend/index.html).  The backend is the *)
(* contract of module ConsentLaunch, which YouTubeLaunch implements, with  *)
(* the threads that write a run's status: the one that serves the page's   *)
(* request, the one that takes the receipt, and the one of the tools       *)
(* route, which another client of the owner may use for the same ticket.   *)
(*                                                                         *)
(* One page is open.  Each launch offered in a chat answer starts a flow   *)
(* of its own; all flows, and the dialogs for logging out and for deleting *)
(* a conversation, share one dialog.  The page is the only client of the   *)
(* YouTube approval route (the rest of the backend is used by others too); *)
(* a request, once sent, goes on in the server whether or not the page     *)
(* still hears of it.                                                      *)
(***************************************************************************)
EXTENDS ConsentLaunch, Naturals

CONSTANT Attempts   \* status requests of one flow, 18 in the code

ASSUME AttemptsAssumption == Attempts \in Nat

Statuses == {"absent", "waiting", "active", "dispatched", "completed", "failed"}

Terminal == {"completed", "failed"}

\* How far a request came, or the status it was answered; "none" is no request.
Progresses == {"none", "sent", "checked", "approved", "queued", "accepted", "refused",
               "asked", "vanished"} \cup Statuses

ASSUME NamesAssumption == Runs \cap {"closed", "other"} = {}

VARIABLES
  page,     \* each run's handleYouTubeLaunchConfirmation
  dialog,   \* whose promise state.confirmResolve is
  request,  \* each flow's request: its progress in the server, or its answer
  polled,   \* status requests each flow made
  status,   \* the status of each run in the registry
  expired,  \* runs whose ticket expired unused
  resumer,  \* each run's thread of the tools route; "none" if it was not used
  lost      \* history: runs a failed request or a restart has touched

pageVars == <<page, dialog, polled>>
serverVars == <<status, expired, resumer>>
vars == <<consentVars, pageVars, request, serverVars, lost>>

Verified == "android_action_verified"

Concluded == {"opened", "failed", "timedOut", "declined", "denied"}

Init ==
  /\ ConsentInit
  /\ page = [r \in Runs |-> "none"]
  /\ dialog = "closed"
  /\ request = [r \in Runs |-> "none"]
  /\ polled = [r \in Runs |-> 0]
  /\ status = [r \in Runs |-> "absent"]
  /\ expired = {}
  /\ resumer = [r \in Runs |-> "none"]
  /\ lost = {}

----------------------------------------------------------------------------
(* The page. *)

\* Wrong variant: a dialog already open is left unresolved.
DisplacedUnresolved(newcomer) ==
  /\ page' = [r \in Runs |-> IF r = newcomer THEN "asking" ELSE page[r]]
  /\ dialog' = newcomer

\* requestConfirmation: a dialog already open is resolved as declined first.
RequestConfirmation(newcomer) ==
  /\ page' = [r \in Runs |-> IF r = newcomer THEN "asking"
                             ELSE IF r = dialog THEN "declined" ELSE page[r]]
  /\ dialog' = newcomer

\* handleYouTubeLaunchConfirmation, from the chat answer that offers r.
ReceiveOffer(r) ==
  /\ stage[r] # "none" /\ page[r] = "none"
  /\ RequestConfirmation(r)
  /\ UNCHANGED <<consentVars, request, polled, serverVars, lost>>

\* handleLogout or deleteConversation asks for a confirmation of its own.
AskSomethingElse ==
  /\ RequestConfirmation("other")
  /\ UNCHANGED <<consentVars, request, polled, serverVars, lost>>

\* resolveConfirmation: Approve, or Cancel, Escape and a click outside.
ResolveConfirmation(approved) ==
  /\ dialog # "closed"
  /\ page' = [r \in Runs |-> IF r = dialog THEN IF approved THEN "approving" ELSE "declined"
                             ELSE page[r]]
  /\ dialog' = "closed"
  /\ UNCHANGED <<consentVars, request, polled, serverVars, lost>>

\* Wrong variant: the promise of the dialog is not awaited.
PostUnawaited(r) ==
  /\ page[r] = "asking" /\ request[r] = "none"
  /\ request' = [request EXCEPT ![r] = "sent"]
  /\ UNCHANGED <<consentVars, pageVars, serverVars, lost>>

\* The approval is posted.
PostApproval(r) ==
  /\ page[r] = "approving"
  /\ page' = [page EXCEPT ![r] = "posting"]
  /\ request' = [request EXCEPT ![r] = "sent"]
  /\ UNCHANGED <<consentVars, dialog, polled, serverVars, lost>>

\* Its answer: anything but "awaiting_device_receipt" is thrown and caught.
TakeAnswer(r) ==
  /\ page[r] = "posting" /\ request[r] \in {"accepted", "refused"}
  /\ page' = [page EXCEPT ![r] = IF request[r] = "accepted" THEN "polling" ELSE "denied"]
  /\ request' = [request EXCEPT ![r] = "none"]
  /\ UNCHANGED <<consentVars, dialog, polled, serverVars, lost>>

\* Wrong variant: the requests are not counted.
AskForEver(r) ==
  /\ page[r] = "polling" /\ request[r] = "none"
  /\ request' = [request EXCEPT ![r] = "asked"]
  /\ UNCHANGED <<consentVars, pageVars, serverVars, lost>>

\* pollYouTubeLaunchStatus: the next status request, or the end of the loop.
AskStatus(r) ==
  /\ page[r] = "polling" /\ request[r] = "none"
  /\ IF polled[r] < Attempts
     THEN /\ polled' = [polled EXCEPT ![r] = @ + 1]
          /\ request' = [request EXCEPT ![r] = "asked"]
          /\ UNCHANGED page
     ELSE /\ page' = [page EXCEPT ![r] = "timedOut"]
          /\ UNCHANGED <<polled, request>>
  /\ UNCHANGED <<consentVars, dialog, serverVars, lost>>

\* Wrong variants: any answer counts as success; no answer but an outcome is
\* expected.
ShownKnown(answer) == IF answer = "absent" THEN "denied" ELSE "opened"
ShownFinal(answer) ==
  IF answer = "completed" THEN "opened" ELSE IF answer = "failed" THEN "failed" ELSE "denied"

\* What an answered status request makes of the flow.  An unknown run is
\* answered 404, which historyFetch throws and the outer handler catches.
Shown(answer) ==
  CASE answer = "completed" -> "opened"
    [] answer = "failed"    -> "failed"
    [] answer = "absent"    -> "denied"
    [] OTHER                -> "polling"

TakeStatus(r) ==
  /\ page[r] = "polling"
  /\ request[r] \in Statuses
  /\ page' = [page EXCEPT ![r] = Shown(request[r])]
  /\ request' = [request EXCEPT ![r] = "none"]
  /\ UNCHANGED <<consentVars, dialog, polled, serverVars, lost>>

\* The approval or a status request fails: signed out, no network, a 5xx.
RequestFails(r) ==
  /\ page[r] \in {"posting", "polling"} /\ request[r] # "none"
  /\ page' = [page EXCEPT ![r] = "denied"]
  /\ lost' = lost \cup {r}
  /\ UNCHANGED <<consentVars, dialog, request, polled, serverVars>>

PageStep(r) ==
  \/ PostApproval(r) \/ TakeAnswer(r) \/ AskStatus(r) \/ TakeStatus(r)
  \/ request[r] = "vanished" /\ RequestFails(r)

----------------------------------------------------------------------------
(* The server's side of the page's requests. *)

Progress(r, from, to) ==
  /\ request[r] = from
  /\ request' = [request EXCEPT ![r] = to]
  /\ UNCHANGED <<pageVars, lost>>

\* The run's ticket can be consumed, and the flag tool_approval_submitted is
\* not set: while the ticket is open only the tools route sets it.
Open(r) == stage[r] = "offered" /\ r \notin expired
Unsubmitted(r) == resumer[r] = "none"

\* _queue_approved_youtube_open: the checks, the ticket, the command, the
\* status and the answer.
ServeCheck(r) ==
  /\ Progress(r, "sent", "checked")
  /\ status[r] # "absent" /\ Unsubmitted(r) /\ Open(r)
  /\ UNCHANGED <<consentVars, serverVars>>

ServeApprove(r) ==
  Progress(r, "checked", "approved") /\ Open(r) /\ Approve(r) /\ UNCHANGED serverVars

ServeQueue(r) == Progress(r, "approved", "queued") /\ Queue(r) /\ UNCHANGED serverVars

ServeMark(r) ==
  /\ Progress(r, "queued", "accepted")
  /\ status' = [status EXCEPT ![r] = "dispatched"]
  /\ UNCHANGED <<consentVars, expired, resumer>>

\* A check fails, the ticket was used or expired in the meantime, or, once it
\* is consumed, there is no active device or an error that nobody handles.
ServeRefuse(r) ==
  /\ \/ /\ Progress(r, "sent", "refused")
        /\ status[r] = "absent" \/ ~Unsubmitted(r) \/ ~Open(r)
     \/ Progress(r, "checked", "refused") /\ ~Open(r)
     \/ Progress(r, "approved", "refused")
  /\ UNCHANGED <<consentVars, serverVars>>

\* youtube_open_status
ServeStatus(r) == Progress(r, "asked", status[r]) /\ UNCHANGED <<consentVars, serverVars>>

ServeStep(r) ==
  \/ ServeCheck(r) \/ ServeApprove(r) \/ ServeQueue(r) \/ ServeMark(r)
  \/ ServeRefuse(r) \/ ServeStatus(r)

\* A request that reaches no server.
Vanish(r) ==
  /\ Progress(r, "sent", "vanished") \/ Progress(r, "asked", "vanished")
  /\ UNCHANGED <<consentVars, serverVars>>

----------------------------------------------------------------------------
(* The rest of the backend, and the phone. *)

OfferRun(r) ==
  /\ Offer(r)
  /\ status' = [status EXCEPT ![r] = "waiting"]
  /\ UNCHANGED <<pageVars, request, expired, resumer, lost>>

ExpireTicket(r) ==
  /\ Open(r)
  /\ expired' = expired \cup {r}
  /\ UNCHANGED <<consentVars, pageVars, request, status, resumer, lost>>

\* _append_verified_tool_event: a run takes events until it has ended.
TakesEvents(r) == status[r] \notin Terminal \cup {"absent"}

Emit(r, to) == status' = IF TakesEvents(r) THEN [status EXCEPT ![r] = to] ELSE status

\* The verified receipt becomes the run's status; a run that has ended or that
\* a restart forgot drops it, which is the absence of a step.
TellRun(r) ==
  /\ TakesEvents(r)
  /\ Tell(r)
  /\ Emit(r, IF launched[r] = Verified THEN "completed" ELSE "failed")
  /\ UNCHANGED <<pageVars, request, expired, resumer, lost>>

Elsewhere(r) ==
  /\ HandOut(r) \/ Act(r) \/ Report(r) \/ Withdraw(r)
  /\ UNCHANGED <<pageVars, request, serverVars, lost>>

\* POST /tools/runs/<id>/approval, and the thread it starts: the ticket ...
SubmitToolApproval(r) ==
  /\ status[r] # "absent" /\ Unsubmitted(r) /\ Open(r)
  /\ resumer' = [resumer EXCEPT ![r] = "started"]
  /\ UNCHANGED <<consentVars, pageVars, request, status, expired, lost>>

ResumeConsume(r) ==
  /\ resumer[r] = "started"
  /\ IF Open(r) THEN Spend(r) ELSE UNCHANGED consentVars
  /\ resumer' = [resumer EXCEPT ![r] = IF Open(r) THEN "approved" ELSE "failing"]
  /\ UNCHANGED <<pageVars, request, status, expired, lost>>

\* ... and its events.  It fails in the end: the ticket was used or expired, or
\* android_companion has no adapter.
ResumeEmit(r) ==
  /\ \/ /\ resumer[r] = "approved"
        /\ Emit(r, "active")
        /\ resumer' = [resumer EXCEPT ![r] = "failing"]
     \/ /\ resumer[r] = "failing"
        /\ Emit(r, "failed")
        /\ resumer' = [resumer EXCEPT ![r] = "done"]
  /\ UNCHANGED <<consentVars, pageVars, request, expired, lost>>

ToolsStep(r) == SubmitToolApproval(r) \/ ResumeConsume(r) \/ ResumeEmit(r)

\* Runs, tickets and the threads are gone; requests under way get no answer.
Restart ==
  /\ Forget
  /\ status' = [r \in Runs |-> "absent"]
  /\ request' = [r \in Runs |-> IF request[r] = "none" THEN "none" ELSE "vanished"]
  /\ resumer' = [r \in Runs |-> IF resumer[r] = "none" THEN "none" ELSE "done"]
  /\ lost' = lost \cup {r \in Runs : status[r] # "absent"}
  /\ UNCHANGED <<pageVars, expired>>

Next ==
  \/ \E r \in Runs :
       \/ ReceiveOffer(r) \/ PageStep(r) \/ RequestFails(r)
       \/ ServeStep(r) \/ Vanish(r)
       \/ OfferRun(r) \/ ExpireTicket(r) \/ TellRun(r) \/ Elsewhere(r) \/ ToolsStep(r)
  \/ AskSomethingElse
  \/ \E approved \in BOOLEAN : ResolveConfirmation(approved)
  \/ Restart

Spec == Init /\ [][Next]_vars

(* A flow runs on when it can, the server serves what reached it, and a     *)
(* request that got no answer fails in the end.                             *)
Fairness == \A r \in Runs : WF_vars(PageStep(r)) /\ WF_vars(ServeStep(r))

FairSpec == Spec /\ Fairness

----------------------------------------------------------------------------
(* Every variable stays in its range, and the dialog belongs to the one     *)
(* flow that is asking.                                                     *)
TypeOK ==
  /\ stage \in [Runs -> Stages]
  /\ withdrawn \subseteq Runs /\ lost \subseteq Runs
  /\ launched \in [Runs -> Outcomes \cup {"none"}]
  /\ told \in [Runs -> SUBSET Outcomes]
  /\ page \in [Runs -> Concluded \cup {"none", "asking", "approving", "posting", "polling"}]
  /\ dialog \in Runs \cup {"closed", "other"}
  /\ \A r \in Runs : page[r] = "asking" <=> dialog = r
  /\ request \in [Runs -> Progresses]
  /\ polled \in [Runs -> 0..Attempts]
  /\ status \in [Runs -> Statuses]
  /\ expired \subseteq Runs
  /\ resumer \in [Runs -> {"none", "started", "approved", "failing", "done"}]

(* "YouTube opened on your phone" is shown only if this run's phone really  *)
(* reported the launch, whatever the three threads write over each other's  *)
(* status; a failure only if the phone reported one, or if the tools route  *)
(* was used for this run.                                                   *)
OutcomeShownHappened ==
  \A r \in Runs :
    /\ page[r] = "opened" => stage[r] = "reported" /\ launched[r] = Verified
    /\ page[r] = "failed" => \/ stage[r] = "reported" /\ launched[r] \in Outcomes \ {Verified}
                             \/ resumer[r] # "none"

(* A launch the user declined, or that another dialog displaced, is never   *)
(* queued: the message "No phone command was sent" stays true for ever.  At *)
(* most its ticket is spent by the tools route, which sends nothing.        *)
DeclinedNeverLaunches ==
  \A r \in Runs : page[r] = "declined" => stage[r] \in {"offered", "spent"}

(* "denied before a phone command could be sent" is true of every flow that *)
(* no failed request and no restart touched.                                *)
DeniedUnlessLost ==
  \A r \in Runs : page[r] = "denied" /\ r \notin lost => stage[r] \notin Commanded

(* Once the user answered, the flow ends: with an outcome, a refusal or the *)
(* timeout, whatever is lost on the way.                                    *)
FlowConcludes ==
  \A r \in Runs : page[r] = "approving" ~> page[r] \in Concluded

----------------------------------------------------------------------------
(* What the page says and the code does not keep. *)

(* "YouTube launch was denied before a phone command could be sent."        *)
DeniedBeforeCommand ==
  \A r \in Runs : page[r] = "denied" => stage[r] \notin Commanded

=============================================================================
