---------------------------- MODULE ConsentLaunch ----------------------------
(***************************************************************************)
(* What the backend promises about consent: "Consume one consent ticket    *)
(* and queue exactly one certificate-bound YouTube launch"                 *)
(* (_queue_approved_youtube_open), up to the verified outcome the browser  *)
(* is told.  One launch per run, each step at most once and in order, with *)
(* no thread, queue, lock or clock: module YouTubeLaunch implements this   *)
(* contract and module BrowserLaunch builds on it.                         *)
(***************************************************************************)
CONSTANTS
  Runs,      \* run ids
  Outcomes   \* what a phone can report of a launch

ASSUME NoSuchOutcome == "none" \notin Outcomes

VARIABLES
  stage,      \* how far each run has come
  withdrawn,  \* runs whose cancellation was answered "cancelled"
  launched,   \* what the phone did with each run's command
  told        \* the outcomes the run's status was derived from

consentVars == <<stage, withdrawn, launched, told>>

Stages == {"none", "offered", "spent", "approved", "queued", "handed", "acted", "reported"}

\* The stages in which a command exists, or existed.
Commanded == {"queued", "handed", "acted", "reported"}

ConsentInit ==
  /\ stage = [r \in Runs |-> "none"]
  /\ withdrawn = {}
  /\ launched = [r \in Runs |-> "none"]
  /\ told = [r \in Runs |-> {}]

Advance(r, from, to) ==
  /\ stage[r] = from
  /\ stage' = [stage EXCEPT ![r] = to]

Offer(r) == Advance(r, "none", "offered") /\ UNCHANGED <<withdrawn, launched, told>>

\* The one ticket is consumed, for the launch or by the generic tools route.
Approve(r) == Advance(r, "offered", "approved") /\ UNCHANGED <<withdrawn, launched, told>>

Spend(r) == Advance(r, "offered", "spent") /\ UNCHANGED <<withdrawn, launched, told>>

Queue(r) == Advance(r, "approved", "queued") /\ UNCHANGED <<withdrawn, launched, told>>

HandOut(r) ==
  /\ r \notin withdrawn
  /\ Advance(r, "queued", "handed")
  /\ UNCHANGED <<withdrawn, launched, told>>

\* The phone has the command: no cancellation can call it back.
Act(r) ==
  /\ Advance(r, "handed", "acted")
  /\ \E outcome \in Outcomes : launched' = [launched EXCEPT ![r] = outcome]
  /\ UNCHANGED <<withdrawn, told>>

Report(r) ==
  /\ r \notin withdrawn
  /\ Advance(r, "acted", "reported")
  /\ UNCHANGED <<withdrawn, launched, told>>

Tell(r) ==
  /\ stage[r] = "reported" /\ told[r] = {}
  /\ told' = [told EXCEPT ![r] = {launched[r]}]
  /\ UNCHANGED <<stage, withdrawn, launched>>

Withdraw(r) ==
  /\ stage[r] \in {"queued", "handed", "acted"}
  /\ withdrawn' = withdrawn \cup {r}
  /\ UNCHANGED <<stage, launched, told>>

\* A restart of the backend forgets what browsers were told, and no more.
Forget ==
  /\ told' = [r \in Runs |-> {}]
  /\ UNCHANGED <<stage, withdrawn, launched>>

ServerStep(r) ==
  \/ Offer(r) \/ Spend(r) \/ Approve(r) \/ Queue(r) \/ HandOut(r)
  \/ Act(r) \/ Report(r) \/ Tell(r) \/ Withdraw(r)

ConsentSpec ==
  ConsentInit /\ [][(\E r \in Runs : ServerStep(r)) \/ Forget]_consentVars

=============================================================================
