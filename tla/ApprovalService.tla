--------------------------- MODULE ApprovalService ---------------------------
(***************************************************************************)
(* One-time approval tickets (src/tool_approval.py).  A ticket is bound to *)
(* one run of one owner by its id and its action digest, and a run mints   *)
(* one, so a ticket is written as a function of its run.                   *)
(***************************************************************************)
EXTENDS RunRegistry, Naturals

CONSTANT TTL   \* ticket_ttl_seconds and a command's ttl_seconds, both 120

ASSUME TTLAssumption == TTL \in Nat \ {0}

VARIABLES now,      \* the clock, in arbitrary units
          tickets   \* _tickets

Ticket == [state : {"none", "open", "used"}, expires : Nat]

NoTicket == [state |-> "none", expires |-> 0]

\* mint
Mint(r) == tickets' = [tickets EXCEPT ![r] = [state |-> "open", expires |-> now + TTL]]

\* status_for_owner_run: the run's ticket can still be consumed.
Pending(r) == tickets[r].state = "open" /\ tickets[r].expires > now

\* A wrong variant that does not look at used_at.
ApprovableAgain(r) == tickets[r].state # "none" /\ tickets[r].expires > now

\* consume: the checks, made under the service's lock ...
Approvable(r) == tickets[r].expires > now /\ tickets[r].state = "open"

\* ... and the whole call: a ticket that passes them is marked used.
Consume(r) ==
  tickets' = IF Approvable(r) THEN [tickets EXCEPT ![r].state = "used"] ELSE tickets

=============================================================================
