------------------------- MODULE YouTubeLaunchProofs -------------------------
(***************************************************************************)
(* Theorems about a launch for any number of runs, devices and request     *)
(* threads, any lifetime of tickets and any bound on the clock.            *)
(*                                                                         *)
(* The inductive invariant follows one run along the contract of module    *)
(* ConsentLaunch: who consumed its ticket decides which threads may hold   *)
(* its command, the command's place in the queue decides how often it was  *)
(* handed out, that decides what may be on the wire, and the phone's       *)
(* answer decides what receipts can say.                                   *)
(***************************************************************************)
EXTENDS YouTubeLaunch, TLAPS

----------------------------------------------------------------------------
(* The inductive invariant. *)

\* The steps of an approval thread that consumed the ticket of its run.
Consented == {"approved", "bound", "stored"}

\* A run is known, and a ticket consumed, only for an id that was drawn.
KnownWasDrawn ==
  \A r \in Runs : runs[r].status # "absent" \/ approvedBy[r] # <<>> => r \in created

\* A thread works on a run that has a command, and so does the queue.
WorkHasCommand ==
  /\ \A a \in Approvers : approver[a] # Idle => HasCommand(approver[a].run)
  /\ \A r \in Runs : resumer[r] # "none" \/ Queued(r) => HasCommand(r)

\* A ticket is open only until its one consumer, and a run without command has
\* no consumer.
TicketOnce ==
  \A r \in Runs :
    /\ Len(approvedBy[r]) <= 1
    /\ tickets[r].state = "open" => approvedBy[r] = <<>>
    /\ runs[r].status # "absent" /\ ~runs[r].command => approvedBy[r] = <<>>

\* One thread at most carries a consent, and what it carries is not stored
\* before its store.
OneCarrier ==
  /\ \A a \in Approvers : approver[a].step \in Consented =>
       /\ approvedBy[approver[a].run] = <<"youtube">>
       /\ stored[approver[a].run] = IF approver[a].step = "stored" THEN 1 ELSE 0
  /\ \A a, b \in Approvers :
       /\ approver[a].step \in Consented /\ approver[b].step \in Consented
       /\ approver[a].run = approver[b].run
       => a = b

\* A command is stored once, for the YouTube route; while it is queued its
\* mark says whether it was handed out, and no receipt was accepted for it.
CommandOnce ==
  \A r \in Runs :
    /\ stored[r] <= 1
    /\ stored[r] = 1 => approvedBy[r] = <<"youtube">>
    /\ handouts[r] <= stored[r]
    /\ Queued(r) => /\ stored[r] = 1
                    /\ accepted[r] = <<>>
                    /\ handouts[r] = IF pending[r].delivered THEN 1 ELSE 0

\* The command a scan found is queued, fresh and the only one.
FoundIsFresh ==
  /\ \A r, s \in found : r = s
  /\ \A r \in found : Queued(r) /\ ~pending[r].delivered /\ ~pending[r].cancelled

\* The phone acts on what it was handed, once; receipts say what it did.
PhoneActsOnce ==
  /\ \A r \in Runs :
       /\ phone[r] # "none" => handouts[r] = 1
       /\ accepted[r] # <<>> => phone[r] # "none"
       /\ Len(accepted[r]) <= 1
  /\ \A r \in Runs, d, e \in Devices :
       <<r, d>> \in responses => /\ handouts[r] = 1
                                 /\ phone[r] = "none"
                                 /\ <<r, e>> \in responses => d = e

ReceiptsAreThePhones ==
  \A k \in Receivers :
    /\ receiver[k].step \in {"arrived", "verified"} =>
         phone[receiver[k].run] = receiver[k].outcome
    /\ receiver[k].step = "verified" => accepted[receiver[k].run] # <<>>

\* What the browser is told was accepted from the phone.
ToldWasAccepted ==
  \A r \in Runs : /\ ToldOf(r) \subseteq {phone[r]}
                  /\ ToldOf(r) # {} => accepted[r] # <<>>

\* A cancelled command that is still queued is marked.
WithdrawnIsMarked ==
  \A r \in Runs : cancelled[r] # "no" =>
    stored[r] = 1 /\ (Queued(r) => pending[r].cancelled)

DispatchedWasStored ==
  \A r \in Runs : runs[r].status = "dispatched" => stored[r] = 1

Inv ==
  /\ TypeOK
  /\ KnownWasDrawn /\ WorkHasCommand /\ TicketOnce /\ OneCarrier
  /\ CommandOnce /\ FoundIsFresh /\ PhoneActsOnce /\ ReceiptsAreThePhones
  /\ ToldWasAccepted /\ WithdrawnIsMarked /\ DispatchedWasStored

----------------------------------------------------------------------------
(* Lemmas about the records of the threads and the events of a run. *)

LEMMA ApproverFields ==
  ASSUME TypeOK, NEW a \in Approvers
  PROVE  /\ approver[a] # Idle <=> approver[a].step # "idle"
         /\ approver[a].step # "idle" => approver[a].run \in Runs
         /\ approver[a].step = "bound" =>
              approver[a].device \in Devices /\ approver[a].expires \in Nat
<1>. approver[a] \in Approver
  BY DEF TypeOK
<1>. QED
  BY DEF Approver, Idle

LEMMA ReceiverFields ==
  ASSUME TypeOK, NEW k \in Receivers
  PROVE  /\ receiver[k].step \in {"idle", "arrived", "verified"}
         /\ receiver[k].step # "idle" =>
              receiver[k].run \in Runs /\ receiver[k].outcome \in Outcomes
         /\ receiver[k].step = "arrived" =>
              receiver[k].device \in Devices /\ receiver[k].at \in Nat
<1>. receiver[k] \in Receiver
  BY DEF TypeOK
<1>. QED
  BY DEF Receiver, Idle

\* The range of a sequence after an append.
LEMMA AppendRange ==
  ASSUME NEW S, NEW q \in Seq(S), NEW e \in S
  PROVE  {Append(q, e)[i] : i \in DOMAIN Append(q, e)} = {q[i] : i \in DOMAIN q} \cup {e}
<1>. DEFINE p == Append(q, e)
<1>1. /\ Len(q) \in Nat /\ DOMAIN q = 1..Len(q)
      /\ DOMAIN p = 1..(Len(q) + 1)
      /\ \A i \in 1..Len(q) : p[i] = q[i]
      /\ p[Len(q) + 1] = e
  OBVIOUS
<1>. HIDE DEF p
<1>2. 1..(Len(q) + 1) = (1..Len(q)) \cup {Len(q) + 1}
  BY <1>1
<1>3. {p[i] : i \in DOMAIN p} = {q[i] : i \in DOMAIN q} \cup {e}
  BY <1>1, <1>2
<1>. QED
  BY <1>3 DEF p

\* What an event appended to a run, or refused, leaves of the registry.
LEMMA AppendedRuns ==
  ASSUME TypeOK, NEW r \in Runs, NEW fact \in Facts, Emit(r, fact)
  PROVE  /\ runs' \in [Runs -> Run]
         /\ \A s \in Runs : /\ runs'[s].command = runs[s].command
                            /\ runs'[s].status = "absent" <=> runs[s].status = "absent"
                            /\ runs'[s].status = "dispatched" => runs[s].status = "dispatched"
                            /\ s # r => runs'[s] = runs[s]
         /\ ToldOf(r)' \in {ToldOf(r), ToldOf(r) \cup ({fact} \cap Outcomes)}
<1>1. CASE runs[r].status \in Terminal \cup {"absent"}
  BY <1>1 DEF Emit, Appended, TypeOK, ToldOf
<1>2. CASE runs[r].status \notin Terminal \cup {"absent"}
  <2>. DEFINE new == [[runs[r] EXCEPT !.status = FactState(fact)]
                        EXCEPT !.events = Append(runs[r].events, fact)]
  <2>1. runs[r] \in Run /\ runs[r].events \in Seq(Facts)
    BY DEF TypeOK, Run
  <2>2. FactState(fact) \in {"active", "completed", "failed"}
    BY DEF FactState
  <2>3. runs' = [runs EXCEPT ![r] = new]
    BY <1>2, <2>1 DEF Emit, Appended, TypeOK, Run
  <2>4. /\ new \in Run /\ new.command = runs[r].command /\ new.status = FactState(fact)
        /\ new.events = Append(runs[r].events, fact)
    <3>. DEFINE marked == [runs[r] EXCEPT !.status = FactState(fact)]
    <3>1. /\ marked \in Run /\ marked.command = runs[r].command
          /\ marked.status = FactState(fact)
      BY <2>1, <2>2 DEF Run, Statuses
    <3>2. Append(runs[r].events, fact) \in Seq(Facts)
      BY <2>1
    <3>. HIDE DEF marked
    <3>3. new = [marked EXCEPT !.events = Append(runs[r].events, fact)]
      BY DEF marked
    <3>. QED
      BY <3>1, <3>2, <3>3 DEF Run
  <2>. HIDE DEF new
  <2>5. runs' \in [Runs -> Run]
    BY <2>3, <2>4 DEF TypeOK
  <2>6. \A s \in Runs : runs'[s] = IF s = r THEN new ELSE runs[s]
    BY <2>3 DEF TypeOK
  <2>7. ToldOf(r)' = ToldOf(r) \cup ({fact} \cap Outcomes)
    <3>1. runs'[r].events = Append(runs[r].events, fact)
      BY <2>4, <2>6
    <3>. DEFINE before == {runs[r].events[i] : i \in DOMAIN runs[r].events}
                after == {runs'[r].events[i] : i \in DOMAIN runs'[r].events}
    <3>2. after = before \cup {fact}
      BY ONLY <2>1, <3>1, AppendRange, fact \in Facts
    <3>3. ToldOf(r) = before \cap Outcomes /\ ToldOf(r)' = after \cap Outcomes
      BY DEF ToldOf
    <3>. QED
      BY <3>2, <3>3
  <2>. QED
    BY <1>2, <2>2, <2>4, <2>5, <2>6, <2>7
<1>. QED
  BY <1>1, <1>2

----------------------------------------------------------------------------
(* Types. *)

LEMMA InitType == Init => TypeOK
<1>. SUFFICES ASSUME Init PROVE TypeOK
  OBVIOUS
<1>1. runs \in [Runs -> Run] /\ tickets \in [Runs -> Ticket] /\ pending \in [Runs -> Command]
  BY DEF Init, NoRun, Run, Statuses, NoTicket, Ticket, NoCommand, Command
<1>2. approver \in [Approvers -> Approver] /\ receiver \in [Receivers -> Receiver]
  BY DEF Init, Approver, Receiver
<1>. QED
  BY <1>1, <1>2 DEF Init, TypeOK

LEMMA NextType == TypeOK /\ FoundIsFresh /\ [Next]_vars => TypeOK'
<1>. SUFFICES ASSUME TypeOK, FoundIsFresh, [Next]_vars PROVE TypeOK'
  OBVIOUS
<1>0. \A r \in found : Queued(r)
  BY DEF FoundIsFresh
<1>. USE DEF registry, wire, threads, history, queue
<1>1. ASSUME NEW r \in Runs, Mint(r), NEW new \in Run, runs' = [runs EXCEPT ![r] = new],
             created' = created \cup {r},
             UNCHANGED <<now, queue, accepted, registry, threads, wire, handouts,
                         stored, stale, strays, approvedBy, cancelled>>
      PROVE  TypeOK'
  <2>1. tickets' \in [Runs -> Ticket]
    BY <1>1, TTLAssumption DEF TypeOK, Mint, Ticket
  <2>. QED
    BY <1>1, <2>1 DEF TypeOK
<1>2. ASSUME NEW r \in Runs, CreateYouTubeOpenRun(r) PROVE TypeOK'
  <2>. DEFINE new == [[runs[r] EXCEPT !.status = "waiting"] EXCEPT !.command = TRUE]
  <2>1. new \in Run
    BY DEF TypeOK, Run, Statuses
  <2>2. runs' = [runs EXCEPT ![r] = new]
    BY <1>2 DEF CreateYouTubeOpenRun, TypeOK
  <2>. QED
    BY <1>1, <1>2, <2>1, <2>2 DEF CreateYouTubeOpenRun
<1>3. ASSUME NEW r \in Runs, QueueAndroidCommand(r) PROVE TypeOK'
  <2>. DEFINE new == [runs[r] EXCEPT !.status = "queued"]
  <2>1. new \in Run
    BY DEF TypeOK, Run, Statuses
  <2>2. runs' = [runs EXCEPT ![r] = new]
    BY <1>3 DEF QueueAndroidCommand, TypeOK
  <2>. QED
    BY <1>1, <1>3, <2>1, <2>2 DEF QueueAndroidCommand
<1>4. ASSUME NEW r \in Runs, Consume(r) PROVE tickets' \in [Runs -> Ticket]
  BY <1>4 DEF TypeOK, Consume, Ticket
<1>5. ASSUME NEW a \in Approvers, NEW r \in Runs, CheckApproval(a, r) PROVE TypeOK'
  BY <1>5 DEF CheckApproval, Step, TypeOK, Approver, approvalFrame
<1>6. ASSUME NEW a \in Approvers, ConsumeApproval(a) PROVE TypeOK'
  <2>. DEFINE r == approver[a].run
  <2>1. r \in Runs
    BY <1>6, ApproverFields DEF ConsumeApproval
  <2>2. tickets' \in [Runs -> Ticket]
    BY <1>4, <1>6, <2>1 DEF ConsumeApproval
  <2>3. approvedBy' \in [Runs -> Seq({"youtube", "tools"})]
    <3>1. Append(approvedBy[r], "youtube") \in Seq({"youtube", "tools"})
      BY <2>1 DEF TypeOK
    <3>. QED
      BY <1>6, <2>1, <3>1 DEF ConsumeApproval, TypeOK
  <2>4. approver' \in [Approvers -> Approver]
    <3>1. Idle \in Approver /\ [step |-> "approved", run |-> r] \in Approver
      BY <2>1 DEF Approver
    <3>2. \/ approver' = [approver EXCEPT ![a] = Idle]
          \/ approver' = [approver EXCEPT ![a] = [step |-> "approved", run |-> r]]
      BY <1>6 DEF ConsumeApproval, Step
    <3>. QED
      BY <3>1, <3>2 DEF TypeOK
  <2>. QED
    BY <1>6, <2>2, <2>3, <2>4 DEF ConsumeApproval, TypeOK, approvalFrame
<1>7. ASSUME NEW a \in Approvers, NEW named, NEW up, BindCommand(a, named, up) PROVE TypeOK'
  <2>1. approver[a].run \in Runs /\ tickets[approver[a].run].expires \in Nat
    BY <1>7, ApproverFields DEF BindCommand, TypeOK, Ticket
  <2>2. approver' \in [Approvers -> Approver]
    <3>1. Idle \in Approver
      BY DEF Approver
    <3>2. \A d \in active :
            [step |-> "bound", run |-> approver[a].run, device |-> d,
             expires |-> tickets[approver[a].run].expires] \in Approver
      BY <2>1 DEF Approver, TypeOK
    <3>3. \/ approver' = [approver EXCEPT ![a] = Idle]
          \/ \E d \in active :
               approver' = [approver EXCEPT ![a] =
                 [step |-> "bound", run |-> approver[a].run, device |-> d,
                  expires |-> tickets[approver[a].run].expires]]
      BY <1>7 DEF BindCommand, Step
    <3>. QED
      BY <3>1, <3>2, <3>3 DEF TypeOK
  <2>. QED
    BY <1>7, <2>2 DEF BindCommand, TypeOK, approvalFrame
<1>8. ASSUME NEW a \in Approvers, StoreCommand(a) PROVE TypeOK'
  <2>1. /\ approver[a].run \in Runs /\ approver[a].device \in Devices
        /\ approver[a].expires \in Nat
    BY <1>8, ApproverFields DEF StoreCommand
  <2>2. pending' \in [Runs -> Command]
    BY <1>8, <2>1 DEF StoreCommand, Store, TypeOK, Command
  <2>3. approver' \in [Approvers -> Approver]
    BY <1>8, <2>1 DEF StoreCommand, Step, TypeOK, Approver
  <2>4. stored' \in [Runs -> Nat]
    BY <1>8, <2>1 DEF StoreCommand, TypeOK
  <2>5. stale' \subseteq Runs
    BY <1>8, <2>1 DEF StoreCommand, TypeOK
  <2>6. UNCHANGED <<approvalFrame, tickets, runs, found, approvedBy>>
    BY <1>8 DEF StoreCommand
  <2>. QED
    BY <2>2, <2>3, <2>4, <2>5, <2>6 DEF TypeOK, approvalFrame
<1>9. ASSUME NEW a \in Approvers, MarkDispatched(a) PROVE TypeOK'
  <2>. DEFINE r == approver[a].run
              new == [[runs[r] EXCEPT !.submitted = TRUE] EXCEPT !.status = "dispatched"]
  <2>1. r \in Runs
    BY <1>9, ApproverFields DEF MarkDispatched
  <2>2. new \in Run
    BY <2>1 DEF TypeOK, Run, Statuses
  <2>3. runs' = [runs EXCEPT ![r] = new]
    BY <1>9, <2>1 DEF MarkDispatched, TypeOK
  <2>4. approver' \in [Approvers -> Approver]
    BY <1>9 DEF MarkDispatched, Step, TypeOK, Approver
  <2>. HIDE DEF new
  <2>5. runs' \in [Runs -> Run]
    BY <2>1, <2>2, <2>3 DEF TypeOK
  <2>. QED
    BY <1>9, <2>4, <2>5 DEF MarkDispatched, TypeOK, approvalFrame
<1>10. ASSUME NEW r \in Runs, SubmitToolApproval(r) PROVE TypeOK'
  BY <1>10 DEF SubmitToolApproval, TypeOK, resumeFrame, Run
<1>11. ASSUME NEW r \in Runs, ResumeConsume(r) PROVE TypeOK'
  <2>1. tickets' \in [Runs -> Ticket]
    BY <1>4, <1>11 DEF ResumeConsume
  <2>2. approvedBy' \in [Runs -> Seq({"youtube", "tools"})]
    <3>1. Append(approvedBy[r], "tools") \in Seq({"youtube", "tools"})
      BY DEF TypeOK
    <3>. QED
      BY <1>11, <3>1 DEF ResumeConsume, TypeOK
  <2>. QED
    BY <1>11, <2>1, <2>2 DEF ResumeConsume, TypeOK, resumeFrame
<1>12. ASSUME NEW r \in Runs, ResumeEmit(r) PROVE TypeOK'
  <2>1. runs' \in [Runs -> Run]
    BY <1>12, AppendedRuns DEF ResumeEmit, Facts
  <2>. QED
    BY <1>12, <2>1 DEF ResumeEmit, TypeOK, resumeFrame
<1>13. ASSUME NEW d \in Devices, AcceptPoll(d) PROVE TypeOK'
  BY <1>13 DEF AcceptPoll, TypeOK, pollFrame
<1>14. ASSUME NEW d \in Devices, NEW at, NEW refused, ExamineQueue(d, at, refused)
       PROVE  TypeOK'
  <2>1. PICK examined \in SUBSET {r \in Runs : pending[r].device = d} :
          LET dropped == {r \in examined : Dead(r, at) \/ r \in refused} IN
            /\ found' = {r \in examined \ dropped : ~pending[r].delivered}
            /\ pending' = [r \in Runs |-> IF r \in dropped THEN NoCommand ELSE pending[r]]
    BY <1>14 DEF ExamineQueue, Examine
  <2>2. found' \subseteq Runs
    BY <2>1
  <2>3. pending' \in [Runs -> Command]
    <3>1. NoCommand \in Command /\ \A r \in Runs : pending[r] \in Command
      BY DEF NoCommand, Command, TypeOK
    <3>. QED
      BY <2>1, <3>1
  <2>. QED
    BY <1>14, <2>2, <2>3 DEF ExamineQueue, TypeOK, pollFrame
<1>15. ASSUME NEW r \in Runs, NEW d \in Devices, NEW outcome \in Outcomes,
              PhoneReceives(r, d, outcome)
       PROVE  TypeOK'
  BY <1>15 DEF PhoneReceives, TypeOK, backend
<1>16. ASSUME NEW r \in Runs, NEW d \in Devices, LoseResponse(r, d) PROVE TypeOK'
  BY <1>16 DEF LoseResponse, TypeOK, backend
<1>17. ASSUME NEW k \in Receivers, NEW r \in Runs, NEW d \in Devices, ReceiptArrives(k, r, d)
       PROVE  TypeOK'
  BY <1>17 DEF ReceiptArrives, TypeOK, Receiver, receiptFrame
<1>18. ASSUME NEW k \in Receivers, NEW ok, VerifyReceipt(k, ok) PROVE TypeOK'
  <2>1. receiver[k].run \in Runs /\ receiver[k].outcome \in Outcomes
    BY <1>18, ReceiverFields DEF VerifyReceipt
  <2>2. receiver' \in [Receivers -> Receiver]
    <3>. DEFINE verified == [step |-> "verified", run |-> receiver[k].run,
                             outcome |-> receiver[k].outcome]
    <3>1. Idle \in Receiver /\ verified \in Receiver
      BY <2>1 DEF Receiver
    <3>2. \/ receiver' = [receiver EXCEPT ![k] = Idle]
          \/ receiver' = [receiver EXCEPT ![k] = verified]
      BY <1>18 DEF VerifyReceipt
    <3>. QED
      BY <3>1, <3>2 DEF TypeOK
  <2>3. pending' \in [Runs -> Command] /\ accepted' \in [Runs -> Seq(Outcomes)]
    <3>1. NoCommand \in Command
      BY DEF NoCommand, Command
    <3>2. Append(accepted[receiver[k].run], receiver[k].outcome) \in Seq(Outcomes)
      BY <2>1 DEF TypeOK
    <3>3. \/ Receive(receiver[k].run, receiver[k].outcome)
          \/ UNCHANGED <<pending, accepted>>
      BY <1>18 DEF VerifyReceipt
    <3>4. CASE Receive(receiver[k].run, receiver[k].outcome)
      <4>1. pending' \in [Runs -> Command]
        BY <3>1, <3>4 DEF Receive, TypeOK
      <4>2. accepted' \in [Runs -> Seq(Outcomes)]
        BY <3>2, <3>4 DEF Receive, TypeOK
      <4>. QED
        BY <4>1, <4>2
    <3>. QED
      BY <3>3, <3>4 DEF TypeOK
  <2>. QED
    BY <1>18, <2>2, <2>3 DEF VerifyReceipt, TypeOK, receiptFrame
<1>19. ASSUME NEW k \in Receivers, EmitReceipt(k) PROVE TypeOK'
  <2>1. receiver[k].run \in Runs /\ receiver[k].outcome \in Facts
    BY <1>19, ReceiverFields DEF EmitReceipt, Outcomes, Facts
  <2>2. runs' \in [Runs -> Run]
    BY <1>19, <2>1, AppendedRuns DEF EmitReceipt
  <2>3. receiver' \in [Receivers -> Receiver]
    BY <1>19 DEF EmitReceipt, TypeOK, Receiver
  <2>. QED
    BY <1>19, <2>2, <2>3 DEF EmitReceipt, TypeOK, receiptFrame
<1>20. ASSUME NEW r \in Runs, NEW d \in Devices, Cancel(r, d) PROVE TypeOK'
  <2>1. pending' \in [Runs -> Command]
    <3>1. [pending[r] EXCEPT !.cancelled = TRUE] \in Command
      BY DEF TypeOK, Command
    <3>. QED
      BY <1>20, <3>1 DEF Cancel, CancelCommand, TypeOK
  <2>2. cancelled' \in [Runs -> {"no", "undelivered", "delivered"}]
    BY <1>20 DEF Cancel, TypeOK
  <2>. QED
    BY <1>20, <2>1, <2>2 DEF Cancel, TypeOK
<1>21. ASSUME NEW d \in Devices, EnrollDevice(d) \/ RevokeDevice(d) PROVE TypeOK'
  BY <1>21 DEF EnrollDevice, RevokeDevice, Enroll, Revoke, TypeOK, backend
<1>22. CASE Tick
  BY <1>22 DEF Tick, TypeOK, backend
<1>23. CASE Restart
  <2>1. NoRun \in Run /\ NoTicket \in Ticket /\ NoCommand \in Command
    BY DEF NoRun, Run, Statuses, NoTicket, Ticket, NoCommand, Command
  <2>2. Idle \in Approver /\ Idle \in Receiver
    BY DEF Approver, Receiver
  <2>. QED
    BY <1>23, <2>1, <2>2 DEF Restart, TypeOK
<1>24. CASE UNCHANGED vars
  BY <1>24 DEF vars, TypeOK
<1>25. CASE HandOutFound
  <2>1. pending' \in [Runs -> Command]
    <3>1. \A r \in Runs : pending[r] \in Command /\ [pending[r] EXCEPT !.delivered = TRUE] \in Command
      BY DEF TypeOK, Command
    <3>. QED
      BY <1>25, <3>1 DEF HandOutFound, MarkFound, Marked
  <2>2. \A r \in found : r \in Runs /\ pending[r].device \in Devices
    <3>1. \A r \in found : Queued(r)
      BY <1>0
    <3>. QED
      BY <3>1 DEF TypeOK, Command, Queued
  <2>3. responses' \subseteq Runs \X Devices /\ strays' \subseteq Runs \X Devices
    BY <1>25, <2>2 DEF HandOutFound, TypeOK
  <2>4. handouts' \in [Runs -> Nat] /\ found' = {}
    BY <1>25 DEF HandOutFound, MarkFound, TypeOK
  <2>. QED
    BY <1>25, <2>1, <2>3, <2>4 DEF HandOutFound, TypeOK, pollFrame
<1>. QED
  BY <1>2, <1>3, <1>5, <1>6, <1>7, <1>8, <1>9, <1>10, <1>11, <1>12, <1>13, <1>14, <1>15,
     <1>16, <1>17, <1>18, <1>19, <1>20, <1>21, <1>22, <1>23, <1>24, <1>25
     DEF Next, ApproverStep, ReceiverStep, Scan

----------------------------------------------------------------------------
(* The invariant is inductive. *)

LEMMA InitInv == Init => Inv
<1>. SUFFICES ASSUME Init PROVE Inv
  OBVIOUS
<1>1. TypeOK
  BY InitType
<1>2. KnownWasDrawn /\ WorkHasCommand /\ TicketOnce /\ OneCarrier
  BY DEF Init, KnownWasDrawn, WorkHasCommand, TicketOnce, OneCarrier, HasCommand, Queued,
         NoRun, NoTicket, NoCommand, Idle, Consented
<1>3. CommandOnce /\ FoundIsFresh /\ PhoneActsOnce /\ ReceiptsAreThePhones
  BY DEF Init, CommandOnce, FoundIsFresh, PhoneActsOnce, ReceiptsAreThePhones, Queued, NoCommand, Idle
<1>4. ToldWasAccepted /\ WithdrawnIsMarked /\ DispatchedWasStored
  <2>1. \A r \in Runs : ToldOf(r) = {}
    <3>1. \A r \in Runs : runs[r].events = <<>>
      BY DEF Init, NoRun
    <3>2. DOMAIN << >> = {}
      OBVIOUS
    <3>3. \A r \in Runs : DOMAIN runs[r].events = {}
      BY <3>1, <3>2
    <3>. QED
      BY <3>3 DEF ToldOf
  <2>. QED
    BY <2>1 DEF Init, ToldWasAccepted, WithdrawnIsMarked, DispatchedWasStored, NoRun
<1>. QED
  BY <1>1, <1>2, <1>3, <1>4 DEF Inv

\* What each part of the invariant depends on.
LEMMA Unaffected ==
  /\ KnownWasDrawn /\ UNCHANGED <<runs, approvedBy, created>> => KnownWasDrawn'
  /\ WorkHasCommand /\ UNCHANGED <<runs, approver, resumer, pending>> => WorkHasCommand'
  /\ TicketOnce /\ UNCHANGED <<runs, tickets, approvedBy>> => TicketOnce'
  /\ OneCarrier /\ UNCHANGED <<approver, approvedBy, stored>> => OneCarrier'
  /\ CommandOnce /\ UNCHANGED <<pending, accepted, stored, approvedBy, handouts>>
       => CommandOnce'
  /\ FoundIsFresh /\ UNCHANGED <<pending, found>> => FoundIsFresh'
  /\ PhoneActsOnce /\ UNCHANGED <<phone, handouts, accepted, responses>> => PhoneActsOnce'
  /\ ReceiptsAreThePhones /\ UNCHANGED <<receiver, phone, accepted>>
       => ReceiptsAreThePhones'
  /\ ToldWasAccepted /\ UNCHANGED <<runs, phone, accepted>> => ToldWasAccepted'
  /\ WithdrawnIsMarked /\ UNCHANGED <<cancelled, stored, pending>> => WithdrawnIsMarked'
  /\ DispatchedWasStored /\ UNCHANGED <<runs, stored>> => DispatchedWasStored'
BY DEF KnownWasDrawn, WorkHasCommand, TicketOnce, OneCarrier, CommandOnce, FoundIsFresh,
       PhoneActsOnce, ReceiptsAreThePhones, ToldWasAccepted, WithdrawnIsMarked, DispatchedWasStored,
       HasCommand, Queued, ToldOf

\* The parts that only look at runs, when a step leaves events and commands.
LEMMA SameEvents ==
  ASSUME ToldWasAccepted, UNCHANGED <<phone, accepted>>,
         \A s \in Runs : runs'[s].events = runs[s].events
  PROVE  ToldWasAccepted'
BY DEF ToldWasAccepted, ToldOf

\* A run id just drawn.
LEMMA DrawnInv ==
  ASSUME Inv, TypeOK', NEW r \in Runs, r \notin created, created' = created \cup {r}, Mint(r),
         NEW status \in {"waiting", "queued"}, NEW command \in BOOLEAN,
         \A s \in Runs : /\ runs'[s].events = runs[s].events
                         /\ s # r => runs'[s] = runs[s],
         runs'[r].status = status, runs'[r].command = command,
         UNCHANGED <<now, queue, accepted, registry, threads, wire, handouts, stored,
                     stale, strays, approvedBy, cancelled>>
  PROVE  Inv'
<1>. USE DEF Inv, threads, wire, queue
<1>1. runs[r].status = "absent" /\ approvedBy[r] = <<>>
  BY DEF KnownWasDrawn
<1>2. KnownWasDrawn'
  BY <1>1 DEF KnownWasDrawn
<1>3. WorkHasCommand'
  BY <1>1, ApproverFields DEF WorkHasCommand, HasCommand, Queued
<1>4. TicketOnce'
  <2>1. \A s \in Runs : s # r => tickets'[s] = tickets[s]
    BY DEF Mint, TypeOK
  <2>. QED
    BY <1>1, <2>1 DEF TicketOnce, TypeOK
<1>5. ToldWasAccepted'
  BY SameEvents
<1>6. DispatchedWasStored'
  BY DEF DispatchedWasStored
<1>. QED
  BY <1>2, <1>3, <1>4, <1>5, <1>6, Unaffected

LEMMA CreateYouTubeOpenRunInv ==
  ASSUME Inv, TypeOK', NEW r \in Runs, CreateYouTubeOpenRun(r)
  PROVE  Inv'
<1>1. \A s \in Runs : /\ runs'[s].events = runs[s].events
                      /\ s # r => runs'[s] = runs[s]
  BY DEF CreateYouTubeOpenRun, Inv, TypeOK, Run
<1>2. runs'[r].status = "waiting" /\ runs'[r].command = TRUE
  BY DEF CreateYouTubeOpenRun, Inv, TypeOK, Run
<1>. QED
  BY <1>1, <1>2, DrawnInv DEF CreateYouTubeOpenRun

LEMMA QueueAndroidCommandInv ==
  ASSUME Inv, TypeOK', NEW r \in Runs, QueueAndroidCommand(r)
  PROVE  Inv'
<1>1. \A s \in Runs : /\ runs'[s].events = runs[s].events
                      /\ s # r => runs'[s] = runs[s]
  BY DEF QueueAndroidCommand, Inv, TypeOK, Run
<1>2. runs'[r].status = "queued" /\ runs'[r].command = runs[r].command
  BY DEF QueueAndroidCommand, Inv, TypeOK, Run
<1>3. runs[r].command \in BOOLEAN
  BY DEF Inv, TypeOK, Run
<1>. QED
  BY <1>1, <1>2, <1>3, DrawnInv DEF QueueAndroidCommand

----------------------------------------------------------------------------
(* The approval route. *)

LEMMA CheckApprovalInv ==
  ASSUME Inv, NEW a \in Approvers, NEW r \in Runs, CheckApproval(a, r)
  PROVE  WorkHasCommand' /\ OneCarrier'
<1>. DEFINE record == [step |-> "checked", run |-> r]
<1>1. \A b \in Approvers : approver'[b] = IF b = a THEN record ELSE approver[b]
  BY DEF CheckApproval, Step, Inv, TypeOK
<1>2. record.step \notin Consented /\ record.run = r
  BY DEF Consented
<1>. HIDE DEF record
<1>3. WorkHasCommand'
  BY <1>1, <1>2 DEF CheckApproval, WorkHasCommand, HasCommand, Queued, Inv, approvalFrame, queue
<1>4. OneCarrier'
  BY <1>1, <1>2 DEF CheckApproval, OneCarrier, Inv
<1>. QED
  BY <1>3, <1>4

\* The ticket is open until this step, so no other thread carries the consent.
LEMMA ConsumeApprovalInv ==
  ASSUME Inv, TypeOK', NEW a \in Approvers, ConsumeApproval(a)
  PROVE  Inv'
<1>. USE DEF Inv, approvalFrame, wire, queue
<1>. DEFINE r == approver[a].run
            record == [step |-> "approved", run |-> r]
<1>1. r \in Runs /\ approver[a] # Idle
  BY ApproverFields DEF ConsumeApproval
<1>2. CASE Approvable(r)
  <2>. USE <1>2
  <2>1. \A b \in Approvers : approver'[b] = IF b = a THEN record ELSE approver[b]
    BY DEF ConsumeApproval, Step, TypeOK
  <2>2. approvedBy[r] = <<>> /\ Append(approvedBy[r], "youtube") = <<"youtube">>
    <3>1. approvedBy[r] = <<>>
      BY <1>1 DEF Approvable, TicketOnce
    <3>2. Append(<<>>, "youtube") = <<"youtube">>
      OBVIOUS
    <3>. QED
      BY <3>1, <3>2
  <2>3. \A s \in Runs : approvedBy'[s] = IF s = r THEN <<"youtube">> ELSE approvedBy[s]
    BY <1>1, <2>2 DEF ConsumeApproval, TypeOK
  <2>4. \A s \in Runs : tickets'[s].state = IF s = r THEN "used" ELSE tickets[s].state
    BY <1>1 DEF ConsumeApproval, Consume, TypeOK, Ticket
  <2>5. \A b \in Approvers : approver[b].step \in Consented => approver[b].run # r
    BY <2>2 DEF OneCarrier
  <2>6. stored[r] = 0
    <3>1. <<"youtube">> # <<>>
      OBVIOUS
    <3>2. /\ stored[r] \in Nat /\ stored[r] <= 1
          /\ stored[r] = 1 => approvedBy[r] = <<"youtube">>
      BY <1>1 DEF CommandOnce, TypeOK
    <3>. QED
      BY <2>2, <3>1, <3>2
  <2>7. KnownWasDrawn' /\ WorkHasCommand'
    <3>1. HasCommand(r)
      BY <1>1 DEF WorkHasCommand
    <3>2. KnownWasDrawn'
      BY <2>3, <3>1 DEF KnownWasDrawn, ConsumeApproval, HasCommand
    <3>. QED
      BY <2>1, <3>1, <3>2 DEF WorkHasCommand, HasCommand, Queued, ConsumeApproval
  <2>8. TicketOnce'
    <3>1. HasCommand(r)
      BY <1>1 DEF WorkHasCommand
    <3>2. UNCHANGED runs
      BY DEF ConsumeApproval
    <3>3. ASSUME NEW s \in Runs PROVE Len(approvedBy'[s]) <= 1
      <4>1. CASE s = r
        <5>1. approvedBy'[s] = <<"youtube">>
          BY <2>3, <4>1
        <5>. QED
          BY <5>1
      <4>2. CASE s # r
        <5>1. approvedBy'[s] = approvedBy[s]
          BY <2>3, <4>2
        <5>. QED
          BY <5>1 DEF TicketOnce
      <4>. QED
        BY <4>1, <4>2
    <3>. QED
      BY <2>3, <2>4, <3>1, <3>2, <3>3 DEF TicketOnce, HasCommand
  <2>9. OneCarrier'
    <3>1. record.run = r /\ record.step = "approved" /\ stored' = stored
      BY DEF ConsumeApproval
    <3>. HIDE DEF record
    <3>2. ASSUME NEW b \in Approvers, approver'[b].step \in Consented
          PROVE  /\ approvedBy'[approver'[b].run] = <<"youtube">>
                 /\ stored'[approver'[b].run] = IF approver'[b].step = "stored" THEN 1 ELSE 0
      <4>1. CASE b = a
        BY <1>1, <2>1, <2>3, <2>6, <3>1, <4>1
      <4>2. CASE b # a
        <5>1. approver'[b] = approver[b] /\ approver[b].run \in Runs
          BY <2>1, <3>2, <4>2, ApproverFields DEF Consented
        <5>. QED
          BY <2>3, <2>5, <3>1, <3>2, <5>1 DEF OneCarrier
      <4>. QED
        BY <4>1, <4>2
    <3>3. ASSUME NEW b \in Approvers, NEW c \in Approvers,
                 approver'[b].step \in Consented, approver'[c].step \in Consented,
                 approver'[b].run = approver'[c].run
          PROVE  b = c
      BY <2>1, <2>5, <3>1, <3>3 DEF OneCarrier
    <3>. QED
      BY <3>2, <3>3 DEF OneCarrier
  <2>10. CommandOnce'
    BY <2>2, <2>3 DEF CommandOnce, Queued, ConsumeApproval, TypeOK
  <2>. QED
    BY <2>7, <2>8, <2>9, <2>10, Unaffected DEF ConsumeApproval
<1>3. CASE ~Approvable(r)
  <2>1. \A b \in Approvers : approver'[b] = IF b = a THEN Idle ELSE approver[b]
    BY <1>3 DEF ConsumeApproval, Step, TypeOK
  <2>2. UNCHANGED <<tickets, approvedBy>>
    BY <1>3 DEF ConsumeApproval, Consume
  <2>3. WorkHasCommand'
    BY <2>1 DEF WorkHasCommand, HasCommand, Queued, ConsumeApproval
  <2>4. OneCarrier'
    <3>1. Idle.step \notin Consented
      BY DEF Idle, Consented
    <3>. QED
      BY <2>1, <2>2, <3>1 DEF OneCarrier, ConsumeApproval
  <2>. QED
    BY <2>2, <2>3, <2>4, Unaffected DEF ConsumeApproval
<1>. QED
  BY <1>2, <1>3

\* The carrier of a consent takes its next step, or ends.
LEMMA CarrierMoves ==
  ASSUME Inv, NEW a \in Approvers, approver[a].step \in Consented,
         NEW record, approver' = [approver EXCEPT ![a] = record], UNCHANGED approvedBy,
         \/ record = Idle /\ UNCHANGED stored
         \/ /\ record.run = approver[a].run /\ record.step \in Consented
            /\ \A s \in Runs : stored'[s] =
                 IF s # record.run THEN stored[s]
                 ELSE IF record.step = "stored" THEN 1 ELSE 0
  PROVE  OneCarrier'
<1>. USE DEF Inv
<1>1. \A b \in Approvers : approver'[b] = IF b = a THEN record ELSE approver[b]
  BY DEF TypeOK
<1>2. \A b \in Approvers : approver[b].step \in Consented => approver[b].run \in Runs
  BY ApproverFields DEF Consented
<1>3. Idle.step \notin Consented
  BY DEF Idle, Consented
<1>4. CASE record = Idle /\ UNCHANGED stored
  <2>1. \A b \in Approvers : approver'[b].step \in Consented => approver'[b] = approver[b]
    BY <1>1, <1>3, <1>4
  <2>2. approvedBy' = approvedBy /\ stored' = stored
    BY <1>4
  <2>. QED
    BY <2>1, <2>2 DEF OneCarrier
<1>5. CASE /\ record.run = approver[a].run /\ record.step \in Consented
           /\ \A s \in Runs : stored'[s] =
                IF s # record.run THEN stored[s]
                ELSE IF record.step = "stored" THEN 1 ELSE 0
  <2>1. ASSUME NEW b \in Approvers, approver'[b].step \in Consented
        PROVE  /\ approvedBy'[approver'[b].run] = <<"youtube">>
               /\ stored'[approver'[b].run] = IF approver'[b].step = "stored" THEN 1 ELSE 0
    <3>1. CASE b = a
      BY <1>1, <1>2, <1>5, <3>1 DEF OneCarrier
    <3>2. CASE b # a
      <4>1. approver'[b] = approver[b] /\ approver[b].run # record.run
        BY <1>1, <1>5, <2>1, <3>2 DEF OneCarrier
      <4>. QED
        BY <1>2, <1>5, <2>1, <4>1 DEF OneCarrier
    <3>. QED
      BY <3>1, <3>2
  <2>2. ASSUME NEW b \in Approvers, NEW c \in Approvers,
               approver'[b].step \in Consented, approver'[c].step \in Consented,
               approver'[b].run = approver'[c].run
        PROVE  b = c
    BY <1>1, <1>5, <2>2 DEF OneCarrier
  <2>. QED
    BY <2>1, <2>2 DEF OneCarrier
<1>. QED
  BY <1>4, <1>5

LEMMA BindCommandInv ==
  ASSUME Inv, TypeOK', NEW a \in Approvers, NEW named, NEW up, BindCommand(a, named, up)
  PROVE  Inv'
<1>. USE DEF Inv, approvalFrame, wire, queue
<1>1. approver[a].step \in Consented /\ approver[a] # Idle
  BY ApproverFields DEF BindCommand, Consented
<1>2. PICK record :
        /\ approver' = [approver EXCEPT ![a] = record]
        /\ \/ record = Idle
           \/ record.run = approver[a].run /\ record.step = "bound"
  <2>1. \/ approver' = [approver EXCEPT ![a] = Idle]
        \/ \E d \in active :
             approver' = [approver EXCEPT ![a] =
               [step |-> "bound", run |-> approver[a].run, device |-> d,
                expires |-> tickets[approver[a].run].expires]]
    BY DEF BindCommand, Step
  <2>. QED
    BY <2>1
<1>3. OneCarrier'
  <2>1. \/ record = Idle /\ UNCHANGED stored
        \/ /\ record.run = approver[a].run /\ record.step \in Consented
           /\ \A s \in Runs : stored'[s] =
                IF s # record.run THEN stored[s]
                ELSE IF record.step = "stored" THEN 1 ELSE 0
    <3>1. UNCHANGED stored /\ stored[approver[a].run] = 0
      BY <1>1 DEF BindCommand, OneCarrier
    <3>. QED
      BY <1>2, <3>1 DEF Consented
  <2>. QED
    BY <1>1, <1>2, <2>1, CarrierMoves DEF BindCommand
<1>4. WorkHasCommand'
  <2>1. \A b \in Approvers : approver'[b] = IF b = a THEN record ELSE approver[b]
    BY <1>2 DEF TypeOK
  <2>. QED
    BY <1>1, <1>2, <2>1 DEF WorkHasCommand, HasCommand, Queued, BindCommand
<1>. QED
  BY <1>3, <1>4, Unaffected DEF BindCommand

\* Nothing was stored for this consent, so nothing was handed out either.
LEMMA StoreCommandInv ==
  ASSUME Inv, TypeOK', NEW a \in Approvers, StoreCommand(a)
  PROVE  Inv'
<1>. USE DEF Inv, approvalFrame, wire, queue
<1>. DEFINE r == approver[a].run
            record == [step |-> "stored", run |-> r]
<1>1. /\ r \in Runs /\ approver[a] # Idle /\ approver[a].device \in Devices
      /\ approver[a].step \in Consented /\ approver[a].step # "stored"
  BY ApproverFields DEF StoreCommand, Consented
<1>2. stored[r] = 0 /\ approvedBy[r] = <<"youtube">>
  BY <1>1 DEF OneCarrier
<1>3. handouts[r] = 0 /\ accepted[r] = <<>> /\ cancelled[r] = "no"
  <2>1. handouts[r] = 0
    BY <1>1, <1>2 DEF CommandOnce, TypeOK
  <2>2. accepted[r] = <<>>
    BY <1>1, <2>1 DEF PhoneActsOnce
  <2>3. cancelled[r] = "no"
    BY <1>1, <1>2 DEF WithdrawnIsMarked
  <2>. QED
    BY <2>1, <2>2, <2>3
<1>4. \A s \in Runs : stored'[s] = IF s = r THEN 1 ELSE stored[s]
  BY <1>1, <1>2 DEF StoreCommand, TypeOK
<1>5. \A s \in Runs : s # r => pending'[s] = pending[s]
  BY <1>1 DEF StoreCommand, Store, TypeOK
<1>6. pending'[r].delivered = FALSE /\ pending'[r].cancelled = FALSE
  BY <1>1 DEF StoreCommand, Store, TypeOK
<1>7. WorkHasCommand'
  <2>1. HasCommand(r)
    BY <1>1 DEF WorkHasCommand
  <2>2. \A b \in Approvers : approver'[b] = IF b = a THEN record ELSE approver[b]
    BY DEF StoreCommand, Step, TypeOK
  <2>3. UNCHANGED <<runs, resumer>>
    BY DEF StoreCommand
  <2>. QED
    BY <1>5, <2>1, <2>2, <2>3 DEF WorkHasCommand, HasCommand, Queued
<1>8. OneCarrier'
  <2>1. approver' = [approver EXCEPT ![a] = record] /\ UNCHANGED approvedBy
    BY DEF StoreCommand, Step
  <2>2. /\ record.run = approver[a].run /\ record.step \in Consented
        /\ \A s \in Runs : stored'[s] =
             IF s # record.run THEN stored[s] ELSE IF record.step = "stored" THEN 1 ELSE 0
    BY <1>4 DEF Consented
  <2>. HIDE DEF record
  <2>. QED
    BY <1>1, <2>1, <2>2, CarrierMoves
<1>9. CommandOnce'
  <2>1. UNCHANGED <<accepted, approvedBy, handouts>>
    BY DEF StoreCommand
  <2>. QED
    BY <1>1, <1>2, <1>3, <1>4, <1>5, <1>6, <2>1 DEF CommandOnce, Queued
<1>10. WithdrawnIsMarked'
  BY <1>3, <1>4, <1>5 DEF WithdrawnIsMarked, Queued, StoreCommand
<1>11. DispatchedWasStored'
  BY <1>4 DEF DispatchedWasStored, StoreCommand
<1>12. FoundIsFresh'
  BY DEF StoreCommand, Store, Unlocked, FoundIsFresh
<1>. QED
  BY <1>7, <1>8, <1>9, <1>10, <1>11, <1>12, Unaffected DEF StoreCommand

LEMMA MarkDispatchedInv ==
  ASSUME Inv, TypeOK', NEW a \in Approvers, MarkDispatched(a)
  PROVE  Inv'
<1>. USE DEF Inv, approvalFrame, wire, queue
<1>. DEFINE r == approver[a].run
<1>1. /\ r \in Runs /\ approver[a] # Idle /\ approver[a].step \in Consented
      /\ approver[a].step = "stored"
  BY ApproverFields DEF MarkDispatched, Consented
<1>2. HasCommand(r) /\ stored[r] = 1
  BY <1>1 DEF WorkHasCommand, OneCarrier
<1>3. \A s \in Runs : /\ runs'[s].events = runs[s].events
                      /\ runs'[s].command = runs[s].command
                      /\ s # r => runs'[s] = runs[s]
  BY <1>1 DEF MarkDispatched, TypeOK, Run
<1>4. runs'[r].status = "dispatched"
  BY <1>1 DEF MarkDispatched, TypeOK, Run
<1>5. approver' = [approver EXCEPT ![a] = Idle]
  BY DEF MarkDispatched, Step
<1>6. KnownWasDrawn'
  BY <1>2, <1>3 DEF KnownWasDrawn, HasCommand, MarkDispatched
<1>7. WorkHasCommand'
  <2>1. \A b \in Approvers : approver'[b] = IF b = a THEN Idle ELSE approver[b]
    BY <1>5 DEF TypeOK
  <2>2. \A s \in Runs : HasCommand(s) => HasCommand(s)'
    BY <1>2, <1>3, <1>4 DEF HasCommand
  <2>3. UNCHANGED <<pending, resumer>>
    BY DEF MarkDispatched
  <2>. QED
    BY <2>1, <2>2, <2>3, ApproverFields DEF WorkHasCommand, Queued
<1>8. TicketOnce'
  BY <1>2, <1>3 DEF TicketOnce, HasCommand, MarkDispatched
<1>9. OneCarrier'
  BY <1>1, <1>5, CarrierMoves DEF MarkDispatched
<1>10. ToldWasAccepted'
  BY <1>3, SameEvents DEF MarkDispatched
<1>11. DispatchedWasStored'
  BY <1>2, <1>3 DEF DispatchedWasStored, MarkDispatched
<1>. QED
  BY <1>6, <1>7, <1>8, <1>9, <1>10, <1>11, Unaffected DEF MarkDispatched

----------------------------------------------------------------------------
(* The tools route. *)

\* Steps that change runs, but neither make one known nor dispatch one.
LEMMA RunsMove ==
  ASSUME Inv, UNCHANGED <<created, tickets, approvedBy, stored>>,
         \A s \in Runs : /\ runs'[s].command = runs[s].command
                         /\ runs'[s].status = "absent" <=> runs[s].status = "absent"
                         /\ runs'[s].status = "dispatched" => runs[s].status = "dispatched"
  PROVE  /\ KnownWasDrawn' /\ TicketOnce' /\ DispatchedWasStored'
         /\ \A s \in Runs : HasCommand(s)' <=> HasCommand(s)
BY DEF Inv, KnownWasDrawn, TicketOnce, DispatchedWasStored, HasCommand

LEMMA SubmitToolApprovalInv ==
  ASSUME Inv, TypeOK', NEW r \in Runs, SubmitToolApproval(r)
  PROVE  Inv'
<1>. USE DEF Inv, resumeFrame, wire, queue
<1>1. \A s \in Runs : /\ runs'[s].command = runs[s].command
                      /\ runs'[s].status = runs[s].status
                      /\ runs'[s].events = runs[s].events
  BY DEF SubmitToolApproval, TypeOK, Run
<1>2. UNCHANGED <<created, tickets, approvedBy, stored, approver, pending, phone, accepted>>
  BY DEF SubmitToolApproval
<1>3. /\ KnownWasDrawn' /\ TicketOnce' /\ DispatchedWasStored'
      /\ \A s \in Runs : HasCommand(s)' <=> HasCommand(s)
  BY <1>1, <1>2, RunsMove
<1>4. WorkHasCommand'
  <2>1. HasCommand(r) /\ \A s \in Runs : s # r => resumer'[s] = resumer[s]
    BY DEF SubmitToolApproval, TypeOK
  <2>. QED
    BY <1>2, <1>3, <2>1, ApproverFields DEF WorkHasCommand, Queued
<1>5. ToldWasAccepted'
  BY <1>1, <1>2, SameEvents
<1>. QED
  BY <1>2, <1>3, <1>4, <1>5, Unaffected DEF SubmitToolApproval

LEMMA ResumeConsumeInv ==
  ASSUME Inv, TypeOK', NEW r \in Runs, ResumeConsume(r)
  PROVE  Inv'
<1>. USE DEF Inv, resumeFrame, wire, queue
<1>1. HasCommand(r)
  BY DEF ResumeConsume, WorkHasCommand
<1>2. WorkHasCommand'
  <2>1. UNCHANGED <<runs, approver, pending>> /\ \A s \in Runs : s # r => resumer'[s] = resumer[s]
    BY DEF ResumeConsume, TypeOK
  <2>. QED
    BY <1>1, <2>1 DEF WorkHasCommand, HasCommand, Queued
<1>3. CASE Approvable(r)
  <2>. USE <1>3
  <2>1. approvedBy[r] = <<>> /\ Append(approvedBy[r], "tools") = <<"tools">>
    <3>1. approvedBy[r] = <<>>
      BY DEF Approvable, TicketOnce
    <3>2. Append(<<>>, "tools") = <<"tools">>
      OBVIOUS
    <3>. QED
      BY <3>1, <3>2
  <2>2. \A s \in Runs : approvedBy'[s] = IF s = r THEN <<"tools">> ELSE approvedBy[s]
    BY <2>1 DEF ResumeConsume, TypeOK
  <2>3. \A s \in Runs : tickets'[s].state = IF s = r THEN "used" ELSE tickets[s].state
    BY DEF ResumeConsume, Consume, TypeOK, Ticket
  <2>4. UNCHANGED <<runs, created, approver, stored, pending, accepted, handouts>>
    BY DEF ResumeConsume
  <2>5. <<"youtube">> # <<>>
    OBVIOUS
  <2>6. stored[r] = 0 /\ ~Queued(r)
    <3>1. /\ stored[r] \in Nat /\ stored[r] <= 1
          /\ stored[r] = 1 => approvedBy[r] = <<"youtube">>
          /\ Queued(r) => stored[r] = 1
      BY DEF CommandOnce, TypeOK
    <3>. QED
      BY <2>1, <2>5, <3>1
  <2>7. KnownWasDrawn'
    BY <1>1, <2>2, <2>4 DEF KnownWasDrawn, HasCommand
  <2>8. TicketOnce'
    <3>1. Len(<<"tools">>) <= 1
      OBVIOUS
    <3>2. ~(runs'[r].status # "absent" /\ ~runs'[r].command) /\ tickets'[r].state = "used"
      BY <1>1, <2>3, <2>4 DEF HasCommand
    <3>. QED
      BY <2>2, <2>3, <2>4, <3>1, <3>2 DEF TicketOnce
  <2>9. OneCarrier'
    <3>1. \A b \in Approvers : approver[b].step \in Consented =>
            approver[b].run \in Runs /\ approver[b].run # r
      BY <2>1, <2>5, ApproverFields DEF OneCarrier, Consented
    <3>. QED
      BY <2>2, <2>4, <3>1 DEF OneCarrier
  <2>10. CommandOnce'
    BY <2>2, <2>4, <2>6 DEF CommandOnce, Queued
  <2>. QED
    BY <1>2, <2>7, <2>8, <2>9, <2>10, Unaffected DEF ResumeConsume
<1>4. CASE ~Approvable(r)
  <2>1. UNCHANGED <<tickets, approvedBy>>
    BY <1>4 DEF ResumeConsume, Consume
  <2>. QED
    BY <1>2, <2>1, Unaffected DEF ResumeConsume
<1>. QED
  BY <1>3, <1>4

LEMMA ResumeEmitInv ==
  ASSUME Inv, TypeOK', NEW r \in Runs, ResumeEmit(r)
  PROVE  Inv' /\ \A s \in Runs : ToldOf(s)' = ToldOf(s)
<1>. USE DEF Inv, resumeFrame, wire, queue
<1>1. PICK fact \in Facts \ Outcomes : Emit(r, fact)
  BY DEF ResumeEmit, Facts, Outcomes
<1>2. UNCHANGED <<created, tickets, approvedBy, stored, approver, pending, phone, accepted>>
  BY DEF ResumeEmit
<1>3. \A s \in Runs : /\ runs'[s].command = runs[s].command
                      /\ runs'[s].status = "absent" <=> runs[s].status = "absent"
                      /\ runs'[s].status = "dispatched" => runs[s].status = "dispatched"
                      /\ s # r => runs'[s] = runs[s]
  BY <1>1, AppendedRuns
<1>4. /\ KnownWasDrawn' /\ TicketOnce' /\ DispatchedWasStored'
      /\ \A s \in Runs : HasCommand(s)' <=> HasCommand(s)
  BY <1>2, <1>3, RunsMove
<1>5. WorkHasCommand'
  <2>1. \A s \in Runs : s # r => resumer'[s] = resumer[s]
    BY DEF ResumeEmit, TypeOK
  <2>2. resumer[r] # "none"
    BY DEF ResumeEmit
  <2>. QED
    BY <1>2, <1>4, <2>1, <2>2, ApproverFields DEF WorkHasCommand, Queued
<1>6. \A s \in Runs : ToldOf(s)' = ToldOf(s)
  <2>1. ToldOf(r)' = ToldOf(r)
    BY <1>1, AppendedRuns
  <2>. QED
    BY <1>3, <2>1 DEF ToldOf
<1>7. ToldWasAccepted'
  BY <1>2, <1>6 DEF ToldWasAccepted
<1>. QED
  BY <1>2, <1>4, <1>5, <1>6, <1>7, Unaffected DEF ResumeEmit

----------------------------------------------------------------------------
(* Polls and the phone. *)

\* What the examination of the queue may do to it.
LEMMA ExamineEffect ==
  ASSUME NEW d \in Devices, NEW at, NEW refused, ExamineQueue(d, at, refused)
  PROVE  /\ found = {} /\ found' \subseteq Runs
         /\ \A r, s \in found' : r = s
         /\ \A r \in found' : /\ pending[r].device = d /\ r \notin refused
                             /\ ~pending[r].delivered /\ ~pending[r].cancelled
                             /\ pending'[r] = pending[r]
         /\ \A r \in Runs : pending'[r] \in {pending[r], NoCommand}
<1>1. PICK examined \in SUBSET {r \in Runs : pending[r].device = d} :
        LET dropped == {r \in examined : Dead(r, at) \/ r \in refused} IN
          /\ found' = {r \in examined \ dropped : ~pending[r].delivered}
          /\ \A r, s \in found' : r = s
          /\ pending' = [r \in Runs |-> IF r \in dropped THEN NoCommand ELSE pending[r]]
  BY DEF ExamineQueue, Examine
<1>. DEFINE dropped == {r \in examined : Dead(r, at) \/ r \in refused}
<1>2. /\ found' = {r \in examined \ dropped : ~pending[r].delivered}
      /\ \A r, s \in found' : r = s
      /\ \A r \in Runs : pending'[r] = IF r \in dropped THEN NoCommand ELSE pending[r]
  BY <1>1
<1>3. \A r \in examined \ dropped : /\ r \in Runs /\ pending[r].device = d
                                   /\ ~pending[r].cancelled /\ r \notin refused
  BY DEF Dead
<1>. HIDE DEF dropped
<1>4. found = {}
  BY DEF ExamineQueue, Examine, Unlocked
<1>. QED
  BY <1>2, <1>3, <1>4

LEMMA ExamineQueueInv ==
  ASSUME Inv, TypeOK', NEW d \in Devices, NEW at, NEW refused, ExamineQueue(d, at, refused)
  PROVE  Inv'
<1>. USE DEF Inv, pollFrame, wire
<1>1. \A r \in Runs : Queued(r)' => Queued(r) /\ pending'[r] = pending[r]
  BY ExamineEffect DEF Queued, NoCommand
<1>2. WorkHasCommand'
  BY <1>1 DEF WorkHasCommand, HasCommand, ExamineQueue
<1>3. CommandOnce'
  BY <1>1 DEF CommandOnce, ExamineQueue
<1>4. FoundIsFresh'
  <2>1. \A r \in found' : Queued(r)'
    BY ExamineEffect, NoDeviceAssumption DEF Queued
  <2>. QED
    BY <2>1, ExamineEffect DEF FoundIsFresh
<1>5. WithdrawnIsMarked'
  BY <1>1 DEF WithdrawnIsMarked, ExamineQueue
<1>. QED
  BY <1>2, <1>3, <1>4, <1>5, Unaffected DEF ExamineQueue

\* The scan's answer: the one command it found is marked, counted and sent.
LEMMA HandOutEffect ==
  ASSUME Inv, HandOutFound
  PROVE  \E r \in Runs :
           /\ found = {r} /\ found' = {}
           /\ Queued(r) /\ ~pending[r].cancelled /\ pending[r].device \in Devices
           /\ handouts[r] = 0
           /\ responses' = responses \cup {<<r, pending[r].device>>}
           /\ strays' = IF pending[r].device \in active THEN strays
                        ELSE strays \cup {<<r, pending[r].device>>}
           /\ \A s \in Runs :
                /\ handouts'[s] = IF s = r THEN 1 ELSE handouts[s]
                /\ pending'[s] = IF s = r THEN [pending[r] EXCEPT !.delivered = TRUE]
                                 ELSE pending[s]
<1>. USE DEF Inv
<1>1. PICK r \in found : found = {r}
  BY DEF HandOutFound, MarkFound, FoundIsFresh
<1>2. /\ r \in Runs /\ Queued(r) /\ ~pending[r].delivered /\ ~pending[r].cancelled
      /\ pending[r].device \in Devices
  BY <1>1 DEF FoundIsFresh, TypeOK, Command, Queued
<1>3. handouts[r] = 0
  BY <1>2 DEF CommandOnce
<1>4. /\ responses' = responses \cup {<<x, pending[x].device>> : x \in {r}}
      /\ strays' = strays \cup
           {<<x, pending[x].device>> : x \in {y \in {r} : pending[y].device \notin active}}
      /\ found' = {}
  BY <1>1 DEF HandOutFound, MarkFound
<1>5. \A s \in Runs :
        /\ handouts'[s] = IF s = r THEN 1 ELSE handouts[s]
        /\ pending'[s] = IF s = r THEN [pending[r] EXCEPT !.delivered = TRUE] ELSE pending[s]
  <2>1. \A s \in Runs : s \in found <=> s = r
    BY <1>1
  <2>2. \A s \in Runs : handouts'[s] = IF s \in found THEN handouts[s] + 1 ELSE handouts[s]
    BY DEF HandOutFound
  <2>3. \A s \in Runs : pending'[s] = IF s \in found
                                     THEN [pending[s] EXCEPT !.delivered = TRUE]
                                     ELSE pending[s]
    BY DEF HandOutFound, MarkFound, Marked
  <2>4. ASSUME NEW s \in Runs, s = r
        PROVE  /\ handouts'[s] = 1
               /\ pending'[s] = [pending[r] EXCEPT !.delivered = TRUE]
    <3>1. handouts'[r] = handouts[r] + 1
      BY <1>2, <2>1, <2>2
    <3>2. pending'[r] = [pending[r] EXCEPT !.delivered = TRUE]
      BY <1>2, <2>1, <2>3
    <3>. QED
      BY <1>3, <2>4, <3>1, <3>2
  <2>5. ASSUME NEW s \in Runs, s # r
        PROVE  handouts'[s] = handouts[s] /\ pending'[s] = pending[s]
    BY <2>1, <2>2, <2>3, <2>5
  <2>. QED
    BY <2>4, <2>5
<1>6. strays' = IF pending[r].device \in active THEN strays
                ELSE strays \cup {<<r, pending[r].device>>}
  BY <1>4
<1>7. responses' = responses \cup {<<r, pending[r].device>>}
  BY <1>4
<1>. QED
  BY <1>1, <1>2, <1>3, <1>4, <1>5, <1>6, <1>7

LEMMA HandOutFoundInv ==
  ASSUME Inv, TypeOK', HandOutFound
  PROVE  Inv'
<1>. USE DEF Inv, pollFrame
<1>1. PICK r \in Runs :
        /\ found = {r} /\ found' = {}
        /\ Queued(r) /\ ~pending[r].cancelled /\ pending[r].device \in Devices
        /\ handouts[r] = 0
        /\ responses' = responses \cup {<<r, pending[r].device>>}
        /\ \A s \in Runs :
             /\ handouts'[s] = IF s = r THEN 1 ELSE handouts[s]
             /\ pending'[s] = IF s = r THEN [pending[r] EXCEPT !.delivered = TRUE]
                              ELSE pending[s]
  BY HandOutEffect
<1>2. /\ pending'[r].delivered = TRUE /\ pending'[r].cancelled = pending[r].cancelled
      /\ pending'[r].device = pending[r].device
  BY <1>1 DEF TypeOK, Command
<1>3. \A s \in Runs : /\ Queued(s)' <=> Queued(s)
                      /\ pending'[s].cancelled = pending[s].cancelled
                      /\ s # r => pending'[s] = pending[s]
  BY <1>1, <1>2 DEF Queued
<1>4. WorkHasCommand'
  BY <1>3 DEF WorkHasCommand, HasCommand, HandOutFound
<1>5. CommandOnce'
  <2>1. UNCHANGED <<stored, approvedBy, accepted>>
    BY DEF HandOutFound
  <2>2. stored[r] = 1
    BY <1>1 DEF CommandOnce
  <2>. QED
    BY <1>1, <1>2, <1>3, <2>1, <2>2 DEF CommandOnce
<1>6. PhoneActsOnce'
  <2>1. UNCHANGED <<phone, accepted>>
    BY DEF HandOutFound
  <2>2. phone[r] = "none" /\ \A e \in Devices : <<r, e>> \notin responses
    BY <1>1 DEF PhoneActsOnce
  <2>. QED
    BY <1>1, <2>1, <2>2 DEF PhoneActsOnce
<1>7. FoundIsFresh'
  BY <1>1 DEF FoundIsFresh
<1>8. WithdrawnIsMarked'
  BY <1>3 DEF WithdrawnIsMarked, HandOutFound
<1>. QED
  BY <1>4, <1>5, <1>6, <1>7, <1>8, Unaffected DEF HandOutFound

LEMMA PhoneReceivesInv ==
  ASSUME Inv, TypeOK', NEW r \in Runs, NEW d \in Devices, NEW outcome \in Outcomes,
         PhoneReceives(r, d, outcome)
  PROVE  Inv'
<1>. USE DEF Inv, backend, threads, history, queue
<1>1. handouts[r] = 1 /\ phone[r] = "none" /\ \A e \in Devices : <<r, e>> \notin responses'
  BY DEF PhoneReceives, PhoneActsOnce
<1>2. \A s \in Runs : phone'[s] = IF s = r THEN outcome ELSE phone[s]
  BY DEF PhoneReceives, TypeOK
<1>3. outcome # "none"
  BY DEF Outcomes
<1>4. responses' \subseteq responses /\ UNCHANGED <<runs, accepted, handouts, receiver>>
  BY DEF PhoneReceives
<1>5. PhoneActsOnce'
  BY <1>1, <1>2, <1>3, <1>4 DEF PhoneActsOnce
<1>6. ReceiptsAreThePhones'
  <2>1. \A k \in Receivers : receiver[k].step \in {"arrived", "verified"} =>
          receiver[k].run \in Runs /\ receiver[k].run # r
    BY <1>1, ReceiverFields DEF ReceiptsAreThePhones, Outcomes
  <2>. QED
    BY <1>2, <1>4, <2>1 DEF ReceiptsAreThePhones
<1>7. ToldWasAccepted'
  <2>1. \A s \in Runs : ToldOf(s)' = ToldOf(s)
    BY <1>4 DEF ToldOf
  <2>2. accepted[r] = <<>>
    BY <1>1 DEF PhoneActsOnce
  <2>. QED
    BY <1>2, <1>4, <2>1, <2>2 DEF ToldWasAccepted
<1>. QED
  BY <1>5, <1>6, <1>7, Unaffected DEF PhoneReceives

----------------------------------------------------------------------------
(* Receipts and cancellation. *)

LEMMA ReceiptArrivesInv ==
  ASSUME Inv, NEW k \in Receivers, NEW r \in Runs, NEW d \in Devices, ReceiptArrives(k, r, d)
  PROVE  ReceiptsAreThePhones'
<1>1. \A j \in Receivers : receiver'[j] =
        IF j = k THEN [step |-> "arrived", run |-> r, device |-> d,
                       outcome |-> phone[r], at |-> now]
        ELSE receiver[j]
  BY DEF ReceiptArrives, Inv, TypeOK
<1>2. UNCHANGED <<phone, accepted>>
  BY DEF ReceiptArrives, receiptFrame, wire
<1>. QED
  BY <1>1, <1>2 DEF ReceiptsAreThePhones, Inv

\* A receipt is accepted for a queued command only, and takes it off the queue.
LEMMA VerifyReceiptInv ==
  ASSUME Inv, TypeOK', NEW k \in Receivers, NEW ok, VerifyReceipt(k, ok)
  PROVE  Inv'
<1>. USE DEF Inv, receiptFrame, wire, history, queue
<1>. DEFINE r == receiver[k].run
            verified == [step |-> "verified", run |-> r, outcome |-> receiver[k].outcome]
<1>1. /\ r \in Runs /\ receiver[k].outcome \in Outcomes /\ receiver[k].device \in Devices
      /\ phone[r] = receiver[k].outcome
  BY ReceiverFields DEF VerifyReceipt, ReceiptsAreThePhones
<1>2. UNCHANGED <<runs, approver, resumer, stored, approvedBy, handouts, phone, responses,
                  cancelled>>
  BY DEF VerifyReceipt
<1>3. CASE /\ Receivable(r, receiver[k].device, receiver[k].at)
           /\ Receive(r, receiver[k].outcome)
           /\ receiver' = [receiver EXCEPT ![k] = verified]
  <2>1. Queued(r)
    BY <1>1, <1>3, NoDeviceAssumption DEF Receivable, Queued
  <2>2. accepted[r] = <<>> /\ phone[r] # "none" /\ handouts[r] = 1
    BY <1>1, <2>1 DEF CommandOnce, PhoneActsOnce, Outcomes
  <2>3. /\ \A s \in Runs : s # r => accepted'[s] = accepted[s]
        /\ accepted'[r] # <<>> /\ Len(accepted'[r]) = 1
    <3>1. accepted' = [accepted EXCEPT ![r] = Append(<<>>, receiver[k].outcome)]
      BY <1>3, <2>2 DEF Receive
    <3>2. /\ Append(<<>>, receiver[k].outcome) # <<>>
          /\ Len(Append(<<>>, receiver[k].outcome)) = 1
      OBVIOUS
    <3>. QED
      BY <1>1, <3>1, <3>2 DEF TypeOK
  <2>4. \A s \in Runs : IF s = r THEN ~Queued(s)' ELSE pending'[s] = pending[s]
    BY <1>1, <1>3 DEF Receive, Queued, NoCommand, TypeOK
  <2>5. WorkHasCommand'
    BY <1>2, <2>4 DEF WorkHasCommand, HasCommand, Queued
  <2>6. CommandOnce'
    BY <1>2, <2>3, <2>4 DEF CommandOnce, Queued
  <2>7. PhoneActsOnce'
    <3>1. \A s \in Runs : /\ s # r => accepted'[s] = accepted[s]
                          /\ accepted'[s] # <<>> => phone[s] # "none"
      BY <2>2, <2>3 DEF PhoneActsOnce
    <3>2. \A s \in Runs : Len(accepted'[s]) <= 1
      <4>1. \A s \in Runs : Len(accepted[s]) <= 1
        BY DEF PhoneActsOnce
      <4>2. Len(accepted'[r]) <= 1
        BY <2>3
      <4>. QED
        BY <2>3, <4>1, <4>2
    <3>. QED
      BY <1>2, <3>1, <3>2 DEF PhoneActsOnce
  <2>8. ReceiptsAreThePhones'
    <3>1. \A j \in Receivers : receiver'[j] = IF j = k THEN verified ELSE receiver[j]
      BY <1>3 DEF TypeOK
    <3>2. /\ verified.run = r /\ verified.outcome = phone[r]
          /\ verified.step = "verified"
      BY <1>1
    <3>. HIDE DEF verified
    <3>3. \A s \in Runs : accepted[s] # <<>> => accepted'[s] # <<>>
      BY <2>3
    <3>4. \A j \in Receivers : receiver[j].step = "verified" => receiver[j].run \in Runs
      BY ReceiverFields
    <3>. QED
      BY <1>1, <1>2, <2>3, <3>1, <3>2, <3>3, <3>4 DEF ReceiptsAreThePhones
  <2>9. ToldWasAccepted'
    BY <1>2, <2>3 DEF ToldWasAccepted, ToldOf
  <2>10. WithdrawnIsMarked'
    BY <1>2, <2>4 DEF WithdrawnIsMarked, Queued
  <2>11. FoundIsFresh'
    BY DEF VerifyReceipt, Unlocked, FoundIsFresh
  <2>. QED
    BY <1>2, <2>5, <2>6, <2>7, <2>8, <2>9, <2>10, <2>11, Unaffected DEF VerifyReceipt
<1>4. CASE receiver' = [receiver EXCEPT ![k] = Idle] /\ UNCHANGED <<pending, accepted>>
  <2>1. ReceiptsAreThePhones'
    <3>1. \A j \in Receivers : receiver'[j] = IF j = k THEN Idle ELSE receiver[j]
      BY <1>4 DEF TypeOK
    <3>2. Idle.step = "idle"
      BY DEF Idle
    <3>. QED
      BY <1>2, <1>4, <3>1, <3>2 DEF ReceiptsAreThePhones
  <2>. QED
    BY <1>2, <1>4, <2>1, Unaffected DEF VerifyReceipt
<1>. QED
  BY <1>3, <1>4 DEF VerifyReceipt

LEMMA EmitReceiptInv ==
  ASSUME Inv, TypeOK', NEW k \in Receivers, EmitReceipt(k)
  PROVE  Inv'
<1>. USE DEF Inv, receiptFrame, wire, history, queue
<1>1. PICK r \in Runs, outcome \in Facts :
        /\ outcome = phone[r] /\ accepted[r] # <<>>
        /\ Emit(r, outcome)
  <2>. DEFINE run == receiver[k].run
  <2>1. /\ run \in Runs /\ receiver[k].outcome \in Facts
        /\ receiver[k].outcome = phone[run] /\ accepted[run] # <<>>
        /\ Emit(run, receiver[k].outcome)
    BY ReceiverFields DEF EmitReceipt, ReceiptsAreThePhones, Facts, Outcomes
  <2>. QED
    BY <2>1
<1>2. UNCHANGED <<created, tickets, approvedBy, stored, approver, resumer, pending, phone,
                  accepted>>
  BY DEF EmitReceipt
<1>3. /\ \A s \in Runs : /\ runs'[s].command = runs[s].command
                         /\ runs'[s].status = "absent" <=> runs[s].status = "absent"
                         /\ runs'[s].status = "dispatched" => runs[s].status = "dispatched"
                         /\ s # r => runs'[s] = runs[s]
      /\ ToldOf(r)' \in {ToldOf(r), ToldOf(r) \cup ({outcome} \cap Outcomes)}
  BY <1>1, AppendedRuns
<1>4. /\ KnownWasDrawn' /\ TicketOnce' /\ DispatchedWasStored'
      /\ \A s \in Runs : HasCommand(s)' <=> HasCommand(s)
  BY <1>2, <1>3, RunsMove
<1>5. WorkHasCommand'
  BY <1>2, <1>4, ApproverFields DEF WorkHasCommand, Queued
<1>6. ReceiptsAreThePhones'
  <2>1. \A j \in Receivers : receiver'[j] = IF j = k THEN Idle ELSE receiver[j]
    BY DEF EmitReceipt, TypeOK
  <2>2. Idle.step = "idle"
    BY DEF Idle
  <2>. QED
    BY <1>2, <2>1, <2>2 DEF ReceiptsAreThePhones
<1>7. ToldWasAccepted'
  <2>1. \A s \in Runs : s # r => ToldOf(s)' = ToldOf(s)
    BY <1>3 DEF ToldOf
  <2>2. ToldOf(r)' \subseteq {phone[r]}
    BY <1>1, <1>3 DEF ToldWasAccepted
  <2>. QED
    BY <1>1, <1>2, <2>1, <2>2 DEF ToldWasAccepted
<1>. QED
  BY <1>2, <1>4, <1>5, <1>6, <1>7, Unaffected DEF EmitReceipt

LEMMA CancelInv ==
  ASSUME Inv, TypeOK', NEW r \in Runs, NEW d \in Devices, Cancel(r, d)
  PROVE  Inv'
<1>. USE DEF Inv, wire, threads, queue
<1>1. Queued(r)
  BY NoDeviceAssumption DEF Cancel, CancelCommand, Queued
<1>2. \A s \in Runs : /\ pending'[s].delivered = pending[s].delivered
                      /\ Queued(s)' <=> Queued(s)
                      /\ IF s = r THEN pending'[s].cancelled = TRUE
                         ELSE pending'[s] = pending[s] /\ cancelled'[s] = cancelled[s]
  BY DEF Cancel, CancelCommand, TypeOK, Command, Queued
<1>3. WorkHasCommand'
  BY <1>2 DEF WorkHasCommand, HasCommand, Cancel
<1>4. CommandOnce'
  BY <1>2 DEF CommandOnce, Cancel
<1>5. WithdrawnIsMarked'
  <2>1. stored' = stored /\ stored[r] = 1
    BY <1>1 DEF CommandOnce, Cancel
  <2>. QED
    BY <1>2, <2>1 DEF WithdrawnIsMarked
<1>6. FoundIsFresh'
  BY DEF Cancel, CancelCommand, Unlocked, FoundIsFresh
<1>. QED
  BY <1>3, <1>4, <1>5, <1>6, Unaffected DEF Cancel

----------------------------------------------------------------------------
(* The environment. *)

\* A restart forgets the queue, the tickets and the threads, so nothing is
\* left that a run's history could contradict.
LEMMA RestartInv ==
  ASSUME Inv, TypeOK', Restart
  PROVE  Inv' /\ \A r \in Runs : ToldOf(r)' = {}
<1>. USE DEF Inv, wire, history
<1>1. /\ \A r \in Runs : /\ runs'[r].status = "absent" /\ runs'[r].events = <<>>
                         /\ tickets'[r].state = "none" /\ resumer'[r] = "none"
                         /\ ~Queued(r)'
      /\ \A a \in Approvers : approver'[a] = Idle
      /\ \A k \in Receivers : receiver'[k] = Idle
  BY DEF Restart, NoRun, NoTicket, NoCommand, Queued
<1>2. UNCHANGED <<created, approvedBy, stored, handouts, accepted, phone, responses, cancelled>>
  BY DEF Restart
<1>3. Idle.step = "idle"
  BY DEF Idle
<1>4. KnownWasDrawn' /\ WorkHasCommand' /\ TicketOnce' /\ OneCarrier' /\ DispatchedWasStored'
  BY <1>1, <1>2, <1>3 DEF KnownWasDrawn, WorkHasCommand, TicketOnce, OneCarrier, Consented,
                          DispatchedWasStored
<1>5. CommandOnce' /\ FoundIsFresh' /\ ReceiptsAreThePhones' /\ WithdrawnIsMarked'
  BY <1>1, <1>2, <1>3 DEF Restart, CommandOnce, FoundIsFresh, ReceiptsAreThePhones,
                          WithdrawnIsMarked
<1>6. \A r \in Runs : ToldOf(r)' = {}
  <2>1. DOMAIN << >> = {}
    OBVIOUS
  <2>2. \A r \in Runs : DOMAIN runs'[r].events = {}
    BY <1>1, <2>1
  <2>. QED
    BY <2>2 DEF ToldOf
<1>7. ToldWasAccepted'
  BY <1>6 DEF ToldWasAccepted
<1>. QED
  BY <1>2, <1>4, <1>5, <1>6, <1>7, Unaffected

\* Steps of the clock, the registry, the polls and the wire's losses.
LEMMA EnvironmentInv ==
  ASSUME Inv, TypeOK',
         \/ Tick
         \/ \E d \in Devices : AcceptPoll(d) \/ EnrollDevice(d) \/ RevokeDevice(d)
         \/ \E r \in Runs, d \in Devices : LoseResponse(r, d)
         \/ UNCHANGED vars
  PROVE  Inv'
<1>. USE DEF Inv, backend, threads, wire, registry, history, queue
<1>1. /\ UNCHANGED <<runs, tickets, pending, found, accepted, approver, resumer, receiver, phone,
                     created, handouts, stored, approvedBy, cancelled>>
      /\ responses' \subseteq responses
  <2>1. CASE Tick
    BY <2>1 DEF Tick
  <2>2. ASSUME NEW d \in Devices, AcceptPoll(d) \/ EnrollDevice(d) \/ RevokeDevice(d)
        PROVE  <1>1!1 /\ <1>1!2
    BY <2>2 DEF AcceptPoll, EnrollDevice, RevokeDevice, Enroll, Revoke, pollFrame
  <2>3. ASSUME NEW r \in Runs, NEW d \in Devices, LoseResponse(r, d)
        PROVE  <1>1!1 /\ <1>1!2
    BY <2>3 DEF LoseResponse
  <2>4. CASE UNCHANGED vars
    BY <2>4 DEF vars
  <2>. QED
    BY <2>1, <2>2, <2>3, <2>4
<1>2. PhoneActsOnce'
  BY <1>1 DEF PhoneActsOnce
<1>. QED
  BY <1>1, <1>2, Unaffected

LEMMA NextInv == Inv /\ [Next]_vars => Inv'
<1>. SUFFICES ASSUME Inv, [Next]_vars PROVE Inv'
  OBVIOUS
<1>1. TypeOK'
  BY NextType DEF Inv
<1>2. ASSUME NEW r \in Runs,
             \/ CreateYouTubeOpenRun(r) \/ QueueAndroidCommand(r)
             \/ SubmitToolApproval(r) \/ ResumeConsume(r) \/ ResumeEmit(r)
      PROVE  Inv'
  BY <1>1, <1>2, CreateYouTubeOpenRunInv, QueueAndroidCommandInv, SubmitToolApprovalInv,
     ResumeConsumeInv, ResumeEmitInv
<1>3. ASSUME NEW a \in Approvers, ApproverStep(a) PROVE Inv'
  BY <1>1, <1>3, ConsumeApprovalInv, BindCommandInv, StoreCommandInv, MarkDispatchedInv
     DEF ApproverStep
<1>4. ASSUME NEW a \in Approvers, NEW r \in Runs, CheckApproval(a, r) PROVE Inv'
  BY <1>1, <1>4, CheckApprovalInv, Unaffected DEF CheckApproval, approvalFrame, wire, queue, Inv
<1>5. ASSUME NEW d \in Devices, Scan(d) PROVE Inv'
  BY <1>1, <1>5, ExamineQueueInv DEF Scan
<1>6. ASSUME NEW r \in Runs, NEW d \in Devices,
             (\E outcome \in Outcomes : PhoneReceives(r, d, outcome)) \/ Cancel(r, d)
      PROVE  Inv'
  BY <1>1, <1>6, PhoneReceivesInv, CancelInv
<1>7. ASSUME NEW r \in Runs, NEW d \in Devices, NEW k \in Receivers, ReceiptArrives(k, r, d)
      PROVE  Inv'
  BY <1>1, <1>7, ReceiptArrivesInv, Unaffected
     DEF ReceiptArrives, receiptFrame, wire, history, queue, Inv
<1>8. ASSUME NEW k \in Receivers, ReceiverStep(k) PROVE Inv'
  BY <1>1, <1>8, VerifyReceiptInv, EmitReceiptInv DEF ReceiverStep
<1>9. CASE Restart
  BY <1>1, <1>9, RestartInv
<1>10. CASE HandOutFound
  BY <1>1, <1>10, HandOutFoundInv
<1>. QED
  BY <1>1, <1>2, <1>3, <1>4, <1>5, <1>6, <1>7, <1>8, <1>9, <1>10, EnvironmentInv DEF Next

\* The invariant holds in every reachable state.
THEOREM Invariant == Spec => []Inv
BY InitInv, NextInv, PTL DEF Spec

\* Every variable of the launch stays in its range.
THEOREM TypeCorrect == Spec => []TypeOK
<1>1. Inv => TypeOK
  BY DEF Inv
<1>. QED
  BY <1>1, Invariant, PTL

----------------------------------------------------------------------------
(* What the runs check on a small instance, for every instance. *)

\* One consent, one command: however approvals race on both routes, a run's
\* ticket is consumed once at most, and a command is stored once at most, for
\* the YouTube route alone.
THEOREM CommandPerConsent == Spec => []OneCommandPerConsent
<1>1. Inv => OneCommandPerConsent
  BY DEF Inv, TicketOnce, CommandOnce, OneCommandPerConsent
<1>. QED
  BY <1>1, Invariant, PTL

\* The phone is handed a run's command once at most: lost answers, further
\* polls, concurrent scans and restarts included.
THEOREM HandOut == Spec => []HandedOutOnce
<1>1. ASSUME Inv, NEW r \in Runs PROVE handouts[r] <= 1
  <2>1. handouts[r] \in Nat /\ stored[r] \in Nat
    BY <1>1 DEF Inv, TypeOK
  <2>2. handouts[r] <= stored[r] /\ stored[r] <= 1
    BY <1>1 DEF Inv, CommandOnce
  <2>. QED
    BY <2>1, <2>2
<1>2. Inv => HandedOutOnce
  BY <1>1 DEF HandedOutOnce
<1>. QED
  BY <1>2, Invariant, PTL

\* A receipt is accepted once at most, for a command that was handed out.
THEOREM ReceiptPerCommand == Spec => []OneReceiptPerCommand
<1>1. ASSUME Inv PROVE OneReceiptPerCommand
  <2>. SUFFICES ASSUME NEW r \in Runs PROVE Len(accepted[r]) <= handouts[r]
    BY DEF OneReceiptPerCommand
  <2>1. accepted[r] \in Seq(Outcomes) /\ handouts[r] \in Nat
    BY <1>1 DEF Inv, TypeOK
  <2>2. /\ accepted[r] # <<>> => handouts[r] = 1
        /\ Len(accepted[r]) <= 1
    BY <1>1 DEF Inv, PhoneActsOnce
  <2>3. accepted[r] = <<>> => Len(accepted[r]) = 0
    OBVIOUS
  <2>. QED
    BY <2>1, <2>2, <2>3
<1>. QED
  BY <1>1, Invariant, PTL

\* The outcome the browser is told of is what the phone did with this run.
THEOREM OutcomeTold == Spec => []OutcomeIsThePhones
<1>1. Inv => OutcomeIsThePhones
  BY DEF Inv, ToldWasAccepted, ToldOf, OutcomeIsThePhones
<1>. QED
  BY <1>1, Invariant, PTL

\* A ticket taken by the tools route leaves nothing to dispatch.
THEOREM ToolApproval == Spec => []ToolApprovalNeverDispatches
<1>1. ASSUME Inv PROVE ToolApprovalNeverDispatches
  <2>. SUFFICES ASSUME NEW r \in Runs, NEW i \in DOMAIN approvedBy[r], approvedBy[r][i] = "tools"
                PROVE  stored[r] # 1
    BY <1>1 DEF ToolApprovalNeverDispatches, Inv, CommandOnce, DispatchedWasStored
  <2>1. /\ DOMAIN <<"youtube">> = {1} /\ <<"youtube">>[1] = "youtube"
    OBVIOUS
  <2>2. approvedBy[r] # <<"youtube">>
    BY <2>1
  <2>. QED
    BY <1>1, <2>2 DEF Inv, CommandOnce
<1>. QED
  BY <1>1, Invariant, PTL

\* A command requested directly, without an offer, is never dispatched.
THEOREM DirectCommand == Spec => []DirectCommandNeverDispatches
<1>1. Inv => DirectCommandNeverDispatches
  BY DEF Inv, TicketOnce, WorkHasCommand, HasCommand, DirectCommandNeverDispatches
<1>. QED
  BY <1>1, Invariant, PTL

----------------------------------------------------------------------------
(* What one step may do to the hand-outs and the receipts of a run. *)

\* Hand-outs are counted when a scan marks what it found, and accepted receipts
\* recorded by verified ones, only.
LEMMA OnlyScansAndReceipts ==
  ASSUME [Next]_vars
  PROVE  /\ UNCHANGED <<handouts, strays>> \/ HandOutFound
         /\ \/ UNCHANGED accepted
            \/ \E k \in Receivers, ok \in BOOLEAN : VerifyReceipt(k, ok)
<1>. USE DEF registry, threads, wire, history, backend
<1>1. ASSUME NEW r \in Runs,
             \/ CreateYouTubeOpenRun(r) \/ QueueAndroidCommand(r)
             \/ SubmitToolApproval(r) \/ ResumeConsume(r) \/ ResumeEmit(r)
      PROVE  UNCHANGED <<handouts, strays, accepted>>
  BY <1>1 DEF CreateYouTubeOpenRun, QueueAndroidCommand, SubmitToolApproval, ResumeConsume,
              ResumeEmit, resumeFrame
<1>2. ASSUME NEW a \in Approvers, ApproverStep(a) \/ \E r \in Runs : CheckApproval(a, r)
      PROVE  UNCHANGED <<handouts, strays, accepted>>
  BY <1>2 DEF ApproverStep, CheckApproval, ConsumeApproval, BindCommand, StoreCommand,
              MarkDispatched, approvalFrame
<1>3. ASSUME NEW d \in Devices, AcceptPoll(d) \/ EnrollDevice(d) \/ RevokeDevice(d)
      PROVE  UNCHANGED <<handouts, strays, accepted>>
  BY <1>3 DEF AcceptPoll, EnrollDevice, RevokeDevice, Enroll, Revoke, pollFrame
<1>4. ASSUME NEW r \in Runs, NEW d \in Devices,
             \/ \E outcome \in Outcomes : PhoneReceives(r, d, outcome)
             \/ LoseResponse(r, d) \/ Cancel(r, d)
             \/ \E k \in Receivers : ReceiptArrives(k, r, d)
      PROVE  UNCHANGED <<handouts, strays, accepted>>
  BY <1>4 DEF PhoneReceives, LoseResponse, Cancel, ReceiptArrives, receiptFrame
<1>5. ASSUME NEW k \in Receivers, EmitReceipt(k) PROVE UNCHANGED <<handouts, strays, accepted>>
  BY <1>5 DEF EmitReceipt, receiptFrame
<1>6. ASSUME NEW k \in Receivers, NEW ok \in BOOLEAN, VerifyReceipt(k, ok)
      PROVE  UNCHANGED <<handouts, strays>>
  BY <1>6 DEF VerifyReceipt, receiptFrame
<1>7. ASSUME NEW d \in Devices, NEW at, NEW refused, ExamineQueue(d, at, refused)
      PROVE  UNCHANGED <<handouts, strays, accepted>>
  BY <1>7 DEF ExamineQueue, pollFrame
<1>8. HandOutFound => UNCHANGED accepted
  BY DEF HandOutFound, pollFrame
<1>9. CASE Tick \/ Restart \/ UNCHANGED vars
  BY <1>9 DEF Tick, Restart, vars
<1>. QED
  BY <1>1, <1>2, <1>3, <1>4, <1>5, <1>6, <1>7, <1>8, <1>9 DEF Next, Scan, ReceiverStep

\* A receipt is accepted for a run whose command is queued and not cancelled.
LEMMA ReceiptEffect ==
  ASSUME Inv, NEW k \in Receivers, NEW ok, VerifyReceipt(k, ok), NEW r \in Runs,
         accepted'[r] # accepted[r]
  PROVE  Queued(r) /\ ~pending[r].cancelled /\ accepted[r] = <<>>
<1>1. /\ r = receiver[k].run /\ receiver[k].device \in Devices
      /\ Receivable(r, receiver[k].device, receiver[k].at)
  BY ReceiverFields DEF VerifyReceipt, Receive, Inv, TypeOK
<1>2. Queued(r) /\ ~pending[r].cancelled
  BY <1>1, NoDeviceAssumption DEF Receivable, Queued
<1>. QED
  BY <1>2 DEF Inv, CommandOnce

\* From a cancellation that was answered on, neither a poll nor a receipt that
\* was already under way reaches the run's command.
THEOREM Cancellation == Spec => CancellationHolds
<1>1. ASSUME Inv, [Next]_vars, NEW r \in Runs, cancelled[r] # "no"
      PROVE  handouts'[r] = handouts[r] /\ accepted'[r] = accepted[r]
  <2>1. Queued(r) => pending[r].cancelled
    BY <1>1 DEF Inv, WithdrawnIsMarked
  <2>2. handouts'[r] = handouts[r]
    BY <1>1, <2>1, OnlyScansAndReceipts, HandOutEffect
  <2>3. accepted'[r] = accepted[r]
    BY <1>1, <2>1, OnlyScansAndReceipts, ReceiptEffect
  <2>. QED
    BY <2>2, <2>3
<1>2. Inv /\ [Next]_vars =>
        \A r \in Runs : cancelled[r] # "no" =>
          handouts'[r] = handouts[r] /\ accepted'[r] = accepted[r]
  BY <1>1
<1>. QED
  BY <1>2, Invariant, PTL DEF Spec, CancellationHolds

----------------------------------------------------------------------------
(* Devices that are replaced.  A device that is no longer active does not   *)
(* come back, so a scan finds nothing for it; one command may have been     *)
(* found before.                                                            *)

\* Commands are bound to enrolled devices.
DevicesKnown ==
  /\ active \cap revoked = {}
  /\ \A a \in Approvers :
       approver[a].step = "bound" => approver[a].device \in active \cup revoked
  /\ \A r \in Runs : Queued(r) => pending[r].device \in active \cup revoked

\* A command stored too late stays in the queue of a device that is gone.
StaleStaysBack ==
  \A r \in stale : /\ stored[r] = 1 /\ handouts[r] = 0 /\ r \notin found
                   /\ Queued(r) => pending[r].device \in revoked

\* No scan holds a command for the device of a stray, and the stray is its only one.
StrayIsLast ==
  \A r \in Runs, d \in Devices : <<r, d>> \in strays =>
    /\ d \in revoked
    /\ \A s \in found : pending[s].device # d
    /\ \A s \in Runs : <<s, d>> \in strays => s = r

DeviceInv == DevicesKnown /\ StaleStaysBack /\ StrayIsLast

\* Devices are enrolled and revoked for good.
RegistryGrows ==
  /\ active' \cap revoked' = {}
  /\ revoked \subseteq revoked'
  /\ active \cup revoked \subseteq active' \cup revoked'

LEMMA RegistryStepGrows ==
  ASSUME active \cap revoked = {},
         UNCHANGED registry \/ \E d \in Devices : Enroll(d) \/ Revoke(d)
  PROVE  RegistryGrows
BY DEF Enroll, Revoke, registry, RegistryGrows

\* A step that binds, stores, finds and hands out nothing.
LEMMA DeviceQuiet ==
  ASSUME TypeOK, DeviceInv, RegistryGrows,
         \A a \in Approvers : approver'[a].step = "bound" => approver'[a] = approver[a],
         \A r \in Runs : Queued(r)' => Queued(r) /\ pending'[r].device = pending[r].device,
         UNCHANGED <<stored, handouts, stale, strays>>,
         found' = {} \/ UNCHANGED <<found, pending>>
  PROVE  DeviceInv'
<1>1. DevicesKnown'
  BY DEF DeviceInv, DevicesKnown, RegistryGrows
<1>2. StaleStaysBack'
  BY DEF DeviceInv, StaleStaysBack, RegistryGrows, TypeOK
<1>3. StrayIsLast'
  BY DEF DeviceInv, StrayIsLast, RegistryGrows
<1>. QED
  BY <1>1, <1>2, <1>3 DEF DeviceInv

LEMMA BindCommandDevice ==
  ASSUME Inv, DeviceInv, NEW a \in Approvers, NEW named, NEW up, BindCommand(a, named, up)
  PROVE  DeviceInv'
<1>. USE DEF approvalFrame, wire, queue, registry
<1>1. UNCHANGED <<registry, pending, found, stored, handouts, stale, strays>>
  BY DEF BindCommand
<1>2. \/ approver' = [approver EXCEPT ![a] = Idle]
      \/ \E d \in active :
           approver' = [approver EXCEPT ![a] =
             [step |-> "bound", run |-> approver[a].run, device |-> d,
              expires |-> tickets[approver[a].run].expires]]
  BY DEF BindCommand, Step
<1>3. \A b \in Approvers : approver'[b].step = "bound" =>
        approver'[b] = approver[b] \/ approver'[b].device \in active
  BY <1>2 DEF Idle, Inv, TypeOK
<1>4. DevicesKnown'
  BY <1>1, <1>3 DEF DeviceInv, DevicesKnown, Queued
<1>5. StaleStaysBack' /\ StrayIsLast'
  BY <1>1 DEF DeviceInv, StaleStaysBack, StrayIsLast, Queued
<1>. QED
  BY <1>4, <1>5 DEF DeviceInv

LEMMA StoreCommandDevice ==
  ASSUME Inv, DeviceInv, NEW a \in Approvers, StoreCommand(a)
  PROVE  DeviceInv'
<1>. USE DEF approvalFrame, wire, queue, registry, Inv
<1>. DEFINE r == approver[a].run
            d == approver[a].device
<1>1. r \in Runs /\ d \in Devices /\ approver[a].step \in Consented
  BY ApproverFields DEF StoreCommand, Consented
<1>2. stored[r] = 0 /\ handouts[r] = 0
  <2>1. stored[r] = 0
    BY <1>1 DEF OneCarrier, StoreCommand
  <2>. QED
    BY <1>1, <2>1 DEF CommandOnce, TypeOK
<1>3. /\ UNCHANGED <<registry, handouts, strays>> /\ found = {} /\ found' = {}
      /\ \A s \in Runs : s # r => stored'[s] = stored[s] /\ pending'[s] = pending[s]
      /\ stored'[r] = 1 /\ pending'[r].device = d
      /\ stale' = IF d \in active THEN stale ELSE stale \cup {r}
  BY <1>1, <1>2 DEF StoreCommand, Store, Unlocked, TypeOK
<1>4. d \in active \cup revoked
  BY DEF StoreCommand, DeviceInv, DevicesKnown
<1>5. \A b \in Approvers : approver'[b].step = "bound" => approver'[b] = approver[b]
  BY DEF StoreCommand, Step, TypeOK
<1>6. DevicesKnown'
  BY <1>3, <1>4, <1>5 DEF DeviceInv, DevicesKnown, Queued
<1>7. StaleStaysBack'
  <2>1. \A s \in stale : s # r /\ s \in Runs
    BY <1>2 DEF DeviceInv, StaleStaysBack, TypeOK
  <2>. QED
    BY <1>1, <1>2, <1>3, <1>4, <2>1 DEF DeviceInv, StaleStaysBack, Queued
<1>8. StrayIsLast'
  BY <1>3 DEF DeviceInv, StrayIsLast
<1>. QED
  BY <1>6, <1>7, <1>8 DEF DeviceInv

\* A scan finds something only for a device that is active.
LEMMA ExamineQueueDevice ==
  ASSUME Inv, DeviceInv, NEW d \in Devices, NEW at, NEW refused, ExamineQueue(d, at, refused)
  PROVE  DeviceInv'
<1>. USE DEF pollFrame, wire, registry
<1>1. UNCHANGED <<registry, approver, stored, handouts, stale, strays>>
  BY DEF ExamineQueue
<1>2. \A r \in Runs : Queued(r)' => Queued(r) /\ pending'[r].device = pending[r].device
  BY ExamineEffect DEF Queued, NoCommand
<1>3. \A r \in found' : pending[r].device = d /\ pending'[r] = pending[r] /\ d \in active
  <2>1. d \in active \/ refused = Runs
    BY DEF ExamineQueue, MayRefuse
  <2>. QED
    BY <2>1, ExamineEffect
<1>4. d \in active => d \notin revoked
  BY DEF DeviceInv, DevicesKnown
<1>5. DevicesKnown'
  BY <1>1, <1>2 DEF DeviceInv, DevicesKnown
<1>6. StaleStaysBack'
  <2>1. \A r \in stale : r \in Runs /\ r \notin found'
    BY <1>3, <1>4, NoDeviceAssumption DEF DeviceInv, StaleStaysBack, Queued, Inv, TypeOK
  <2>. QED
    BY <1>1, <1>2, <2>1 DEF DeviceInv, StaleStaysBack
<1>7. StrayIsLast'
  BY <1>1, <1>3, <1>4 DEF DeviceInv, StrayIsLast
<1>. QED
  BY <1>5, <1>6, <1>7 DEF DeviceInv

\* What is handed out after its device was replaced is what a scan had found.
LEMMA HandOutFoundDevice ==
  ASSUME Inv, DeviceInv, HandOutFound
  PROVE  DeviceInv'
<1>. USE DEF pollFrame, registry
<1>1. PICK r \in Runs :
        /\ found = {r} /\ found' = {}
        /\ Queued(r) /\ pending[r].device \in Devices
        /\ strays' = IF pending[r].device \in active THEN strays
                     ELSE strays \cup {<<r, pending[r].device>>}
        /\ \A s \in Runs :
             /\ handouts'[s] = IF s = r THEN 1 ELSE handouts[s]
             /\ pending'[s] = IF s = r THEN [pending[r] EXCEPT !.delivered = TRUE]
                              ELSE pending[s]
  BY HandOutEffect
<1>2. UNCHANGED <<registry, approver, stored, stale>>
  BY DEF HandOutFound
<1>3. \A s \in Runs : (Queued(s)' <=> Queued(s)) /\ pending'[s].device = pending[s].device
  <2>1. pending'[r].device = pending[r].device
    BY <1>1 DEF Inv, TypeOK, Command
  <2>. QED
    BY <1>1, <2>1 DEF Queued
<1>4. DevicesKnown'
  BY <1>2, <1>3 DEF DeviceInv, DevicesKnown
<1>5. StaleStaysBack'
  BY <1>1, <1>2, <1>3 DEF DeviceInv, StaleStaysBack, Inv, TypeOK
<1>6. StrayIsLast'
  <2>1. CASE pending[r].device \in active
    BY <1>1, <1>2, <2>1 DEF DeviceInv, StrayIsLast
  <2>2. CASE pending[r].device \notin active
    <3>1. pending[r].device \in revoked
      BY <1>1, <2>2 DEF DeviceInv, DevicesKnown
    <3>2. \A s \in Runs : <<s, pending[r].device>> \notin strays
      BY <1>1 DEF DeviceInv, StrayIsLast
    <3>. QED
      BY <1>1, <1>2, <2>2, <3>1, <3>2 DEF DeviceInv, StrayIsLast
  <2>. QED
    BY <2>1, <2>2
<1>. QED
  BY <1>4, <1>5, <1>6 DEF DeviceInv

LEMMA DeviceNext == Inv /\ DeviceInv /\ [Next]_vars => DeviceInv'
<1>. SUFFICES ASSUME Inv, DeviceInv, [Next]_vars PROVE DeviceInv'
  OBVIOUS
<1>. USE DEF queue, wire
<1>0. TypeOK /\ (RegistryGrows \/ ~UNCHANGED registry)
  BY RegistryStepGrows DEF Inv, DeviceInv, DevicesKnown
<1>1. ASSUME NEW r \in Runs,
             \/ CreateYouTubeOpenRun(r) \/ QueueAndroidCommand(r)
             \/ SubmitToolApproval(r) \/ ResumeConsume(r) \/ ResumeEmit(r)
      PROVE  DeviceInv'
  BY <1>0, <1>1, DeviceQuiet
     DEF CreateYouTubeOpenRun, QueueAndroidCommand, SubmitToolApproval, ResumeConsume,
         ResumeEmit, resumeFrame, threads, Queued
<1>2. ASSUME NEW a \in Approvers, NEW r \in Runs, CheckApproval(a, r) PROVE DeviceInv'
  <2>1. \A b \in Approvers : approver'[b].step = "bound" => approver'[b] = approver[b]
    BY <1>0, <1>2 DEF CheckApproval, Step, TypeOK
  <2>. QED
    BY <1>0, <1>2, <2>1, DeviceQuiet DEF CheckApproval, approvalFrame, Queued
<1>3. ASSUME NEW a \in Approvers, ConsumeApproval(a) \/ MarkDispatched(a) PROVE DeviceInv'
  <2>1. \A b \in Approvers : approver'[b].step = "bound" => approver'[b] = approver[b]
    BY <1>0, <1>3 DEF ConsumeApproval, MarkDispatched, Step, Idle, TypeOK
  <2>. QED
    BY <1>0, <1>3, <2>1, DeviceQuiet DEF ConsumeApproval, MarkDispatched, approvalFrame, Queued
<1>4. ASSUME NEW a \in Approvers, ApproverStep(a) PROVE DeviceInv'
  BY <1>3, <1>4, BindCommandDevice, StoreCommandDevice DEF ApproverStep
<1>5. ASSUME NEW d \in Devices, AcceptPoll(d) PROVE DeviceInv'
  BY <1>0, <1>5, DeviceQuiet DEF AcceptPoll, pollFrame, Queued
<1>6. ASSUME NEW d \in Devices, EnrollDevice(d) \/ RevokeDevice(d) PROVE DeviceInv'
  <2>1. RegistryGrows
    BY <1>6, RegistryStepGrows DEF EnrollDevice, RevokeDevice, DeviceInv, DevicesKnown
  <2>. QED
    BY <1>0, <1>6, <2>1, DeviceQuiet
       DEF EnrollDevice, RevokeDevice, backend, threads, history, Queued
<1>7. ASSUME NEW d \in Devices, Scan(d) PROVE DeviceInv'
  BY <1>7, ExamineQueueDevice DEF Scan
<1>8. ASSUME NEW r \in Runs, NEW d \in Devices,
             \/ \E outcome \in Outcomes : PhoneReceives(r, d, outcome)
             \/ LoseResponse(r, d)
             \/ \E k \in Receivers : ReceiptArrives(k, r, d)
      PROVE  DeviceInv'
  BY <1>0, <1>8, DeviceQuiet
     DEF PhoneReceives, LoseResponse, ReceiptArrives, receiptFrame, backend, threads, history,
         Queued
<1>9. ASSUME NEW r \in Runs, NEW d \in Devices, Cancel(r, d) PROVE DeviceInv'
  <2>1. \A s \in Runs : pending'[s].device = pending[s].device
    BY <1>0, <1>9 DEF Cancel, CancelCommand, TypeOK, Command
  <2>2. found' = {}
    BY <1>9 DEF Cancel, CancelCommand, Unlocked
  <2>. QED
    BY <1>0, <1>9, <2>1, <2>2, DeviceQuiet DEF Cancel, threads, Queued
<1>10. ASSUME NEW k \in Receivers, NEW ok, VerifyReceipt(k, ok) PROVE DeviceInv'
  <2>1. \A r \in Runs : pending'[r] \in {pending[r], NoCommand}
    BY <1>0, <1>10 DEF VerifyReceipt, Receive, TypeOK
  <2>2. \A r \in Runs : Queued(r)' => Queued(r) /\ pending'[r].device = pending[r].device
    BY <2>1 DEF Queued, NoCommand
  <2>3. found' = {}
    BY <1>10 DEF VerifyReceipt, Unlocked
  <2>. QED
    BY <1>0, <1>10, <2>2, <2>3, DeviceQuiet DEF VerifyReceipt, receiptFrame, history
<1>11. ASSUME NEW k \in Receivers, EmitReceipt(k) PROVE DeviceInv'
  BY <1>0, <1>11, DeviceQuiet DEF EmitReceipt, receiptFrame, history, Queued
<1>12. CASE Tick \/ UNCHANGED vars
  BY <1>0, <1>12, DeviceQuiet DEF Tick, vars, backend, threads, history, Queued
<1>13. CASE Restart
  <2>1. /\ \A a \in Approvers : approver'[a].step # "bound"
        /\ \A r \in Runs : ~Queued(r)'
    BY <1>13 DEF Restart, Idle, Queued, NoCommand
  <2>. QED
    BY <1>0, <1>13, <2>1, DeviceQuiet DEF Restart, history
<1>14. CASE HandOutFound
  BY <1>14, HandOutFoundDevice
<1>. QED
  BY <1>1, <1>2, <1>4, <1>5, <1>6, <1>7, <1>8, <1>9, <1>10, <1>11, <1>12, <1>13, <1>14
     DEF Next, ReceiverStep

LEMMA DeviceInvariant == Spec => []DeviceInv
<1>1. Init => DeviceInv
  BY DEF Init, DeviceInv, DevicesKnown, StaleStaysBack, StrayIsLast, Queued, NoCommand, Idle
<1>. QED
  BY <1>1, DeviceNext, Invariant, PTL DEF Spec

\* A command whose device was replaced between the check of request_command
\* and the section that stores it is never handed out.
THEOREM StaleBinding == Spec => []StaleBindingNotHandedOut
<1>1. DeviceInv => StaleBindingNotHandedOut
  BY DEF DeviceInv, StaleStaysBack, StaleBindingNotHandedOut
<1>. QED
  BY <1>1, DeviceInvariant, PTL

\* Of all commands queued for a device that is replaced or revoked, one at most
\* reaches it afterwards.
THEOREM StrayCommands == Spec => []OneStrayPerDevice
<1>1. DeviceInv => OneStrayPerDevice
  BY DEF DeviceInv, StrayIsLast, OneStrayPerDevice
<1>. QED
  BY <1>1, DeviceInvariant, PTL

=============================================================================
