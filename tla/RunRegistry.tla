----------------------------- MODULE RunRegistry -----------------------------
(***************************************************************************)
(* The in-process run registry of src/app.py and the gateway that appends  *)
(* executor facts to a run as Activity events (src/tool_events.py).        *)
(***************************************************************************)
EXTENDS Sequences

CONSTANT Runs   \* run ids (fresh UUIDs)

VARIABLE runs   \* RUN_REGISTRY

Facts == {"approval_received", "runner_unavailable", "approval_invalid",
          "approval_expired", "android_action_verified", "android_action_failed"}

\* A wrong variant that stores the fact's code as the run's status.
FactStateRaw(fact) == fact

\* The state column of _SAFE_EVENT_MAP.
FactState(fact) ==
  CASE fact = "approval_received"       -> "active"
    [] fact = "android_action_verified" -> "completed"
    [] OTHER                            -> "failed"

Statuses == {"absent", "queued", "waiting", "active", "dispatched", "completed", "failed"}

Terminal == {"completed", "failed"}

\* "command": the run holds a tool command, which only the YouTube offer sets.
Run == [status : Statuses, command : BOOLEAN, submitted : BOOLEAN, events : Seq(Facts)]

NoRun == [status |-> "absent", command |-> FALSE, submitted |-> FALSE, events |-> <<>>]

\* Wrong variant: any run of the owner will do.
KnownRun(r) == runs[r].status # "absent"

\* What the approval routes ask of a run before they look at its ticket.
HasCommand(r) == runs[r].status # "absent" /\ runs[r].command

\* VerifiedEventGateway.emit through _append_verified_tool_event: a run that
\* is unknown or has ended takes no more events.
Appended(r, fact) ==
  IF runs[r].status \in Terminal \cup {"absent"}
  THEN runs
  ELSE [runs EXCEPT ![r].status = FactState(fact), ![r].events = Append(@, fact)]

Emit(r, fact) == runs' = Appended(r, fact)

=============================================================================
