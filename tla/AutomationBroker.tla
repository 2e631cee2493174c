-------------------------- MODULE AutomationBroker --------------------------
(***************************************************************************)
(* The queue of device commands (src/android_automation_broker.py).  Every *)
(* operation is one section of the broker's lock; the callers, and what    *)
(* they read before they enter, are in the modules that extend this one.   *)
(* The scan of a poll asks the device broker about each entry while it     *)
(* holds this lock and not the device broker's: what it was told may be    *)
(* out of date when it marks the entry, so a scan is two steps.  A command *)
(* belongs to one run and is named by it.                                  *)
(***************************************************************************)
EXTENDS RunRegistry, OwnerDevices, Naturals

CONSTANT None   \* "no device"

ASSUME NoDeviceAssumption == None \notin Devices

VARIABLES pending,    \* _pending
          found,      \* the command a scan is about to mark, if one is: it
                      \* holds the lock
          accepted    \* the outcomes of the receipts verified for each run

Outcomes == {"android_action_verified", "android_action_failed"}

\* A PendingAndroidCommand; device None means no entry.
Command == [device : Devices \cup {None}, expires : Nat,
            delivered : BOOLEAN, cancelled : BOOLEAN]

NoCommand == [device |-> None, expires |-> 0, delivered |-> FALSE, cancelled |-> FALSE]

Queued(r) == pending[r].device # None

\* Wrong variant: the lock is not kept between the check and the mark.
UnlockedAlways == TRUE

\* The broker's lock is free.
Unlocked == found = {}

\* request_command: the section that stores the bound command.
Store(r, d, expires) ==
  /\ Unlocked
  /\ pending' = [pending EXCEPT ![r] =
       [device |-> d, expires |-> expires, delivered |-> FALSE, cancelled |-> FALSE]]

\* Wrong variants: an expired command is kept; a command is handed out without
\* being marked.
DeadByCancellation(r, at) == pending[r].cancelled
Unmarked == pending

Dead(r, at) == pending[r].cancelled \/ pending[r].expires <= at

Marked ==
  [r \in Runs |-> IF r \in found THEN [pending[r] EXCEPT !.delivered = TRUE] ELSE pending[r]]

(***************************************************************************)
(* next_for_device, for a caller that read the clock at "at".  The entries *)
(* of the device are examined in insertion order, which is abstracted to   *)
(* any order; "refused" are those whose assert_active_owner fails.  Dead   *)
(* and refused entries are dropped, delivered ones are skipped, and the    *)
(* scan stops at the first entry left ...                                  *)
(***************************************************************************)
Examine(d, at, refused) ==
  /\ Unlocked
  /\ \E examined \in SUBSET {r \in Runs : pending[r].device = d} :
       LET dropped == {r \in examined : Dead(r, at) \/ r \in refused} IN
         /\ found' = {r \in examined \ dropped : ~pending[r].delivered}
         /\ \A r, s \in found' : r = s
         /\ found' = {} => examined = {r \in Runs : pending[r].device = d}
         /\ pending' = [r \in Runs |-> IF r \in dropped THEN NoCommand ELSE pending[r]]

\* ... which it marks and returns.
MarkFound ==
  /\ found # {}
  /\ pending' = Marked
  /\ found' = {}

\* cancel: the entry stays, marked; whether it was delivered is not looked at.
CancelCommand(r, d) ==
  /\ Unlocked
  /\ pending[r].device = d
  /\ pending' = [pending EXCEPT ![r].cancelled = TRUE]

\* Wrong variant: a cancelled command still takes its receipt.
ReceivableCancelled(r, d, at) == pending[r].device = d /\ pending[r].expires > at

\* verify_device_receipt: what the section requires of the entry.
Receivable(r, d, at) ==
  /\ pending[r].device = d
  /\ ~pending[r].cancelled
  /\ pending[r].expires > at

\* Wrong variant: the entry survives its receipt.
ReceiveKept(r, outcome) ==
  /\ pending' = pending
  /\ accepted' = [accepted EXCEPT ![r] = Append(@, outcome)]

\* Its effect once the device broker accepted the signed payload.
Receive(r, outcome) ==
  /\ pending' = [pending EXCEPT ![r] = NoCommand]
  /\ accepted' = [accepted EXCEPT ![r] = Append(@, outcome)]

=============================================================================
