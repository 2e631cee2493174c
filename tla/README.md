# Formal model of the Hermes app backend

The Hermes backend is one Flask process. It relays chat to a local agent, stores
conversations in Supabase, and lets an account that was allowed to do so open
YouTube on its own Android phone: the browser confirms an offer, the server
queues one command, and a companion app that was enrolled on the phone polls
for it and answers with a signed receipt. This directory holds TLA+ modules of
the parts whose correctness depends on the order of steps of several actors,
TLC configurations that check them, and TLAPS proofs.

`start.sh` runs gunicorn with one worker process and eight threads, and every
registry, queue and ticket lives in that process's memory. The device table is
the only state of the launch path that survives a restart. So the models have
one process, several request threads that interleave wherever a lock is not
held, restarts at any moment, and a table that outlives them.

## Inventory

| Component | State | Operations | What makes it hard | What makes it correct |
|---|---|---|---|---|
| Device repository (`android_device_repository.py`) | the durable table of devices | save, revoke active of owner, advance sequence | a write may take effect although its caller got an error, and may take effect late | conditional writes never reactivate a row or move a sequence back |
| Device broker (`android_device_broker.py`) | pairings, code index, used nonces, one lock | pairing, code hand-off, enrolment, revocation, acceptance of signed messages | the lock is held over several requests that fail separately; nonces and pairings vanish on restart; codes share prefixes | one active device per owner, bound to the account that was issued the pairing; each code and pairing used once; messages accepted once and in order |
| Approval tickets (`tool_approval.py`) | tickets | mint, status, consume | two routes consume from the same service | a consent is consumed once |
| Run registry, event gateway (`app.py`, `tool_events.py`) | runs with status and events | append, status, stream | check and update in different lock sections, threads that overtake each other | what the browser is told is what happened |
| Automation broker (`android_automation_broker.py`) | pending commands | request, next for device, cancel, verify receipt | the clock and the ticket are read before the lock; answers and receipts get lost or repeated | a command is handed out once, to its own device; of a replaced device's commands one at most still is; a receipt is accepted once |
| Launch routes (`app.py`, `tool_executor.py`) | none of their own | offer, approval, tool approval, poll, receipt, cancel | races of two approvals, of the receipt with the approval that queued the command, of revocation with delivery | one consent, at most one launch |
| Tool policy, registry, adapters | fixed at start-up | evaluate | sequential | policy decisions, as guards of the routes |
| Generic device command route (`app.py`) | a run and a ticket it leaves behind | refuse | its run has no command, but its ticket is open and the approval routes see both | nothing it leaves behind ever dispatches |
| Progress runs and stream (`app.py`) | runs, upstream id, events | execute, sync, stream | no caller in this commit | not applicable |
| Conversations (`app.py`, migrations) | two tables | list, create, read, delete, record turn | a turn is several requests, deletion in between | no message without its owner's conversation; the model is given whole turns, the user sees the same ones on reopening; a title comes from a stored turn |
| Authentication (`auth.py`, `auth_google.py`) | two key-set caches, one under a lock | fetch keys, verify, fall back to the other issuer | rotation, outages, a lock held over a request, a cache with no lock written in two assignments | a withdrawn key is accepted no longer than the cache's lifetime, a current one is not refused for longer, no fetch locks the others out |
| Frontend (`frontend/index.html`) | the dialog, one flow per launch offered | confirm, post the approval, poll the status | one dialog for everything, lost answers, time-outs, restarts | what it tells the user about the phone is true, and a declined launch never happens |

The components call each other synchronously: a launch route asks the approval
service, the device broker and the automation broker in turn, and takes the run
registry's lock for itself. No lock is taken while the registry's lock is held;
the automation broker's lock is held while it calls the device broker, never the
reverse, so the two locks are always taken in that order.

`PROJECT.json` lists every component with its status, and under "hazards" every
place in the code that is hard to test, with the properties that guard it.

## Modules

    OwnerDevices            one owner's devices, as a launch sees them
    DeviceRepository        the durable table, its writes and how they end
      DeviceBroker          pairing, enrolment, revocation, signed messages
        (implements)        Registry(o) == INSTANCE OwnerDevices WITH ..., per owner
        MCDeviceBroker      TLC instances
        DeviceBrokerProofs  TLAPS proofs: rows, numbers, one active device
          DeviceEnrollmentProofs  codes, pairings, whose a device is
    RunRegistry             runs and the events appended to them
      ApprovalService       tickets
      AutomationBroker      the queue of commands (extends OwnerDevices too)
        YouTubeLaunch       the launch end to end (extends both)
          MCYouTubeLaunch   TLC instances
          YouTubeLaunchProofs       TLAPS proofs: safety of a launch
            YouTubeLaunchRefinement   that it implements ConsentLaunch
    ConsentLaunch           what the launch promises, without threads and queue
      (YouTubeLaunch)       implements it: Consent == INSTANCE ConsentLaunch WITH ...
      BrowserLaunch         the page over that promise (extends it)
        MCBrowserLaunch     TLC instance
        BrowserLaunchProofs TLAPS proofs
    Auth                    bearer tokens and the two key-set caches
      MCAuth                TLC instance
      AuthProofs            TLAPS proofs
    Conversations           saved conversations and the chat turn
      MCConversations       TLC instance
      ConversationsProofs   TLAPS proofs: ownership, titles
        ConversationsContextProofs  what is read back

### DeviceRepository and DeviceBroker

A repository write is one HTTP request. `Request(w, outcome)` gives it four
endings: "stored", "rejected", "unacked" (performed, but the caller got an error)
and "late" (the caller got an error and the table performs the write at some
later step, `PerformLate`, or never). `WriteOutcomes` selects the endings of an
instance; the in-memory repository of the tests is `{"stored"}`.

The broker's lock is held across the requests of one section. `lock` names the
section and what it still has to do, so a section is cut at every request:
enrolment is `BeginEnrollment`, `RevokePrior`, `SaveNew`; revocation is
`BeginRevoke`, `SaveRevoked`; accepting a message is `Admit` (the expiry check,
before the lock), `Verify`, `Advance`. `create_pairing_session` takes the lock
twice: `BeginSession`, `AttachCode`. `Restart` forgets everything but the table
and the late writes. A signature is abstracted to membership: `Messages` are the
messages the phones signed, delivered any number of times and in any order, and
no other message passes verification. A fresh UUID is an id that no row and no
pending write has; a pairing code may be drawn once, and codes may share their
lookup prefix.

### YouTubeLaunch

One owner, its offers (`Runs`), its devices and the request threads. The device
broker enters as module `OwnerDevices`: the set `active`, which a fresh enrolment
replaces and a revocation shrinks, and the set `revoked`, from which no device
returns. `DeviceBroker` implements that module for each owner
(`ImplementsRegistry`): a registration takes several requests and may stop
between them, but each of its steps revokes one device, enrols one in the place
of none, or changes nothing, and touches no other owner's devices. The launch
begins after a first enrolment. Late writes are excluded here; with them the
property fails as finding 1 shows. Correspondence:

| Action | Code |
|---|---|
| `CreateYouTubeOpenRun` | `_create_youtube_open_run`, with `authorize_deferred` and `mint` |
| `QueueAndroidCommand` | `queue_android_command`, which answers 403 after it created a run without command and minted a ticket for it |
| `CheckApproval`, `ConsumeApproval`, `BindCommand`, `StoreCommand`, `MarkDispatched` | `_queue_approved_youtube_open`, cut where it leaves a lock |
| `SubmitToolApproval`, `ResumeConsume`, `ResumeEmit` | `POST /tools/runs/<id>/approval` and the thread it starts |
| `AcceptPoll`, `ExamineQueue`, `HandOutFound` | `poll_android_command`, `next_for_device` up to the mark, and the mark |
| `ReceiptArrives`, `VerifyReceipt`, `EmitReceipt` | the two receipt routes, `_accept_android_command_receipt` |
| `Cancel` | `cancel_android_command`, when answered "cancelled" |
| `EnrollDevice`, `RevokeDevice`, `Tick`, `Restart`, `PhoneReceives`, `LoseResponse` | the environment |

Cuts are made where they can be observed. The automation broker's lock is held
across registry requests of up to eight seconds each, so a poll and a receipt
read the clock one step (or many) before their section and carry that time. The
approval service's lock only covers dictionary accesses, so its clock reading
and its section are one step. Several polls of a device may be under way:
`polls` is the set of their devices and clock readings, and two polls that read
the same time are one element, which the next `AcceptPoll` can put back. A
refusal that changes nothing (404, 409 before the ticket is consumed, an invalid
signature) is the absence of a step.

A scan holds the automation broker's lock from its first entry to the mark, but
`assert_active_owner` takes and releases the device broker's lock, which is the one
that enrolments and revocations take. So a scan is two steps, `ExamineQueue` and
`HandOutFound`; `found` holds the command in between and stands for the lock, and
the device may be replaced or revoked there. No other section of the automation
broker runs between the two (`Unlocked`). The histories `stale` (commands stored for
a device that was replaced since `request_command` checked it) and `strays` (commands
handed out to a device that was no longer active) record what such a race leads to.

The insertion order of the queue is abstracted: a scan may examine a device's
entries in any order. A registry error during a scan is a refusal of any subset
of the entries, which the code drops. The entries are asked about one after the
other in the code and in one step in the model: a device that is replaced half-way
answers for the first entries and not for the rest, which is the refusal of a subset
followed by the replacement, since nothing but the scan reads the entries meanwhile.

### ConsentLaunch, and how YouTubeLaunch implements it

`ConsentLaunch` is the contract of one consent: offered, approved (or spent on the
tools route), queued, handed out, acted on, reported, told; each once, in this
order, with hand-out and report barred once a cancellation was answered. It has
no thread, lock, queue or clock. `YouTubeLaunch` maps to it by its histories:
`StageOf` is the last step a run has taken, `ToldOf` the outcomes among its
events, and a step taken twice is the stage "repeated", which the contract does
not have. A restart forgets `told` and nothing else, since what the phone did and
what was handed out cannot be undone. `ImplementsConsent` is checked as a property
of run `launch`.

### BrowserLaunch

The page that shows a launch (`handleYouTubeLaunchConfirmation`,
`pollYouTubeLaunchStatus`, `requestConfirmation`, `resolveConfirmation`), on top of
the contract. One dialog serves all flows, the logout and the deletion of a
conversation; opening it resolves the previous one as declined. A request is sent,
served by a thread (`ServeCheck`, `ServeApprove`, `ServeQueue`, `ServeMark`, or
`ServeRefuse` at any cut before the command is queued) and answered; it may vanish on
the way, its answer may be lost, and a request under way goes on in the server after
the page gave up. A restart empties the registry, so a status request is then
answered 404.

The status of a run has three writers, and the model has them all: the thread that
queued the command writes "dispatched" over whatever the run became (`ServeMark`,
finding 2; the page then polls until it gives up), the verified receipt ends it
(`TellRun`), and the thread of the tools route, which any client of the owner may
start for the same ticket, makes it active and failed (`SubmitToolApproval`,
`ResumeConsume`, `ResumeEmit`). The last two write only to a run that has not ended.
A ticket may expire at any time until it is consumed (`ExpireTicket`).

Assumed: the tab stays open, and the page is the only client that uses the *YouTube*
approval route for its runs; `DeclinedNeverLaunches` and `DeniedUnlessLost` depend on
it, since another tab could approve what this one declined. Nothing is assumed of the
tools route, of cancellations and of the phone, which act at any time.

### Auth

Every bearer token is tried as Supabase's first. `CheckSupabase` takes the lock of
`auth.py`, reads the clock and, on a miss, keeps the lock across the request for
the keys (`Serve`, `FetchRefused`, `FetchFails`, `StoreSupabase`), as the `with` block
does. A token that does not claim Supabase's role goes on to Google's cache, which
has no lock: its freshness is checked and its keys are read in two steps
(`CheckGoogle`, `ReadGoogleKeys`), and its two fields are assigned in two steps
(`StoreGoogleKeys`, `StoreGoogleTime`), so two threads can leave the older key set
under the later time. A key set is stamped with the clock read before the request.

A token is the number of the key it is signed with; signatures, audiences and
expiry are abstracted, and so are key sets of more than one key: an issuer
publishes one key at a time. An HTTP error of the key endpoint leads to a refusal;
any other failure escapes the handler (auth.py:55-58 catches `HTTPError` only), so
the request ends in a server error (`FetchFails`), which is an answer of its own here
and not what the comment promises (finding 5). A key set
that is empty although its answer was 200 would be cached for an hour; it is not
modelled.

### Conversations

The two tables of the migration and the requests that access them. A chat turn
is `CheckOwner`, `ReadContext`, `ModelReplies`, `InsertTurn`, `ReadTitle` and
`UpdateConversation`, one action per request (`chat`,
`_record_conversation_turn`); turns of one or several accounts overlap freely,
and `CreateConversation` and `DeleteConversation` interleave with them. No lock
protects a conversation. An insert may be stored, rejected (the foreign key, or
any error) or stored although the caller got an error; the turn then gives up.
A turn that stops at any point is one that takes no further step, and a write
performed after its caller gave up is that of a slower turn, so late writes
need no action. Two inserts get different timestamps; the two rows of one turn
share theirs, which is why the order of the queries matters. Contents are the
turn they come from; a user message that is itself "New conversation" is left
out. So are the list of conversations, `updated_at` and the legacy `chat_memory` rows.
`RestoredMessages` is the query of the route that reopens a conversation.

The restore query (app.py:600) orders by ascending time and cuts at forty rows:
reopening a conversation of more than twenty turns shows its oldest turns, while
the model is given its newest. No documented behaviour says otherwise, so it is
listed as a hazard and not as a finding; `RestoredMatchesContext` says that up to
the limit the two queries, which break ties in opposite directions and one of
which is reversed afterwards, return the same list.

## Runs

| Run | Instance | Shows |
|---|---|---|
| `enrollment` | two owners, three devices, three pairings, two codes with one prefix, clock 0..1, writes stored, rejected or unacked, restarts | `OneActiveDevice`, `NewestEnrollmentActive`, `EnrollmentBoundToIssuer`, `PairingUsedOnce`, `CodeExchangedOnce`, `ImplementsRegistry` |
| `messages` | one owner, two devices, three signed messages of one phone (two with the same number), one request in flight, writes stored or late, restarts | `AcceptedInOrder`, `RevocationPermanent`, `SequenceLostWithDevice` |
| `late_enrollment` | as `enrollment`, one owner, late writes | violation of `OneActiveDevice` |
| `launch` | one run, offered or left behind by the generic command route, approved by two threads and the tools route, two devices, two receipt threads, clock 0..2, restarts | `OneCommandPerConsent`, `HandedOutOnce`, `OneReceiptPerCommand`, `OutcomeIsThePhones`, `ToolApprovalNeverDispatches`, `DirectCommandNeverDispatches`, `StaleBindingNotHandedOut`, `CancellationHolds`, `ImplementsConsent` |
| `launch_drain` | two offers for one device, which may be revoked, one approval thread, clock 0..2, restarts, fairness; the YouTube route alone, no receipts | `OneStrayPerDevice`, `QueueDrains` |
| `launch_dispatched`, `launch_cancel` | one offer, one device, one thread of each kind | two disagreements between code and documentation |
| `conversations` | two accounts, two conversations, four overlapping turns, writes with every ending | `MessagesBelongToOwner`, `ContextIsWholeTurns`, `RestoredMatchesContext`, `TitleFromStoredTurn`, `TitleFixedForLaterTurns` |
| `page` | two launches offered in one page, three status requests each, lost requests, restarts; the tools route, cancellation and the phone act on the first; fairness | `OutcomeShownHappened`, `DeclinedNeverLaunches`, `DeniedUnlessLost`, `FlowConcludes` |
| `page_denied` | one launch | a disagreement between a message of the page and the code |
| `auth` | two threads that each send any number of requests, lifetime 2, fetches of at most 1, clock 2..5, three published keys, fairness | `AcceptedKeyIsRecent`, `CurrentKeyIsAccepted`, `AnsweredOrOvertaken` |
| `auth_unreachable` | one thread | a disagreement between a comment and the code |

Of each module's instances one passing run checks its `TypeOK`: `enrollment`,
`launch`, `conversations`, `page` and `auth`. Every property of a passing run is also run against a wrong variant of one definition (the operators
commented "wrong variant"), listed under "mutants" in `PROJECT.json`: the run must then
report that property violated.

### Bounds

* Clock: time-to-live is 1 unit and the clock stops at 1 or 2. What matters is
  whether a deadline lies before, at or after a reading, and one deadline with a
  stale reading on either side needs three values.
* `enrollment`: three pairings are the least that let one owner enrol twice while
  the other owner enrols; two codes with one prefix are the least that collide.
* `messages`: three messages suffice for a newer number before an older one and
  for one number under two nonces. Writes are "stored" or "late": a late write
  performed at once is an unacknowledged one, and one that is never performed is
  a rejected one, so the other two endings are covered.
* `launch`: runs share nothing but the queue and the device, so one run shows
  what concerns one consent; `launch_drain` has two commands in one queue. Two
  receipt threads are the least that verify one receipt at once.
* `launch_drain` leaves out the tools route and receipts. The tools route stores
  no command, and a receipt only removes an entry sooner. One device is enough: it
  may be revoked, and a second one would take its place without touching its entries.
* `conversations`: the limit is four rows (two turns) instead of forty, and four
  turns suffice for a turn that reads a context from which a third was cut. Two
  conversations and two accounts are the least that could be confused.
* `page`: two flows are the least that compete for the dialog. They meet nowhere
  else but in a restart, so one of them is enough to meet the tools route, the
  expiry of its ticket, a cancellation and the phone; both are approved, served and
  asked about. The loop makes eighteen requests; three let an answer of the first,
  of the last and of one between decide. The theorems of `BrowserLaunchProofs` have
  neither bound.
* `auth`: a lifetime of 2 and fetches of 1 separate a key set that is fresh, one
  that is just stale and one whose fetch overlaps a rotation; the clock runs long
  enough for a set stored by two threads at once to outlive its lifetime. Its
  initial value is the lifetime, since the caches start stamped 0, long ago. Two
  threads suffice for a torn write and for one waiting behind the other's fetch.
  `MaxFetch` is an assumption: the code's `timeout=15` limits each operation on
  the socket and not the whole request.
* `MaxTime` bounds the clock in a guard of `Tick`, and an offer is made only if it
  expires within it. The histories (`handouts`, `stored`, `claims`, `accepted`...)
  are bounded by the steps that write them.

Deadlock is checked in every run of the launch and of the device broker; none
has one, since a process can always restart. `conversations` does not check it:
its finitely many turns may all be over, with every conversation id used. In
`page` the backend may restart, and in `auth` a request may arrive, at any time.

### Fairness

`launch_drain`: time passes, a companion that is active polls again and again, and
the server completes each scan. The first is the clock, the third is a scan's
bounded loop over requests with time-outs; the second is an assumption about the
companion app, which is not part of this repository. No fairness is assumed of
approvals, receipts or deliveries.

`page`: an asynchronous function of the page continues when what it awaits is
there, the server serves the requests that reached it, and a request that vanished
fails in the end. That a request is not lost, that the user answers the dialog or
that the phone reports is not assumed.

`auth`: a thread that can take a step all the time takes it, and requests for keys
end. Nothing is assumed of the lock: CPython's `threading.Lock` keeps no order among
the threads that wait for it. That every request is answered does not follow, since a
stream of other requests may take the lock ahead of one for ever, and
`AnsweredOrOvertaken` says that this is the only way to wait for ever: a fetch always
gives the lock back, whether it succeeds, is refused or fails. An answer may be a
server error; that it should not be one is finding 5.

## Findings

1. `late_enrollment`: an abandoned insert that the table performs later leaves an
   owner with two active devices. The broker then refuses launches for the owner
   until the next enrolment.
2. `launch_dispatched`: the approval thread marks a run dispatched after its
   command became visible to polls. A fast receipt is overwritten: the browser is
   told to wait for a receipt that was already accepted, and no other can follow.
   The event the receipt appended stays, and a failure of a concurrent tool
   approval may be appended after it.
3. `launch_cancel`: cancelling does not require that the command is undelivered.
4. `page_denied`: the page's handler shows "YouTube launch was denied before a phone
   command could be sent" for every failure of the approval request and of the
   status requests after it, when the command may be queued, handed out or
   reported. `DeniedUnlessLost` says that this takes a failed request or a restart.
5. `auth_unreachable`: the comment at auth.py:56-58 promises a refusal (401) when the
   endpoint is unreachable; a connection error or time-out is not an `HTTPError`, so it
   escapes the handler and the request ends in a server error (500) on the routes that
   do not catch it. Google tokens meet it too, as they are tried at Supabase first.

Further disagreements were met while modelling and have no run of their own. The
steps that lead to the first four are in the models.

* app.py:314 catches the automation broker's errors only. The denial mapping
  (app.py:333) names `single_active_device_required` and `device_unavailable`, which
  are `AndroidDeviceBrokerError`s: such an approval ends in an unhandled exception
  instead of the generic answer, with its ticket used (`BindCommand`).
* The docstring of `next_for_device` (android_automation_broker.py:175) says that a
  command is returned if its device is active. The device broker's lock is free
  between that check and the mark, so a device revoked in between is handed the
  command. `OneStrayPerDevice` bounds this to one command per device.
* In the same scan a registry error looks like an inactive device (:187), and a
  command that should have been returned is dropped (`Examine`). Its run stays
  dispatched.
* A tool approval that loses the ticket to the YouTube route makes the run failed
  while its command is queued (tool_executor.py:85). The page says "YouTube could not
  be opened", the phone opens it, and its receipt's event is dropped.
  `OutcomeShownHappened` says that a false failure takes the tools route, and that
  success is never shown falsely.
* The composer of the page takes the conversation a message belongs to, and the
  place a reply is shown, from what is open at that moment and not from what was
  open when the user pressed send (index.html:3177 and 3216).

## Proofs

TLC checks small instances; the theorems hold for every value of the constants:
any numbers of accounts, devices, pairings, codes, messages, runs, turns and
threads, any lifetimes and any bound on the clock. Every invariant and every
action property that a passing run checks is stated by a theorem. Each inductive
invariant was checked by TLC on the instances of the runs before it was proved.

**The device broker, `DeviceBrokerProofs`.**

* `TypeCorrect`: `TypeOK` is inductive.
* `RevocationIsPermanent`, `SequenceIsKept`: they follow from what one write
  may do to one row (`WriteOnRow`), which needs to know which writes exist. A save
  is sound if it revokes a row that exists or creates one that does not.
  `WritesSound` says this of every late write and of the write the lock's holder
  is about to make, and that no two pending writes create the same device. It is
  inductive with `TypeOK`: a fresh id is fresh with respect to late writes too.
  `SequenceIsKept` does not say that a stored number never decreases: the upsert of a
  revocation may undo a late advance. It says that only a write that leaves the device
  revoked can, and a revoked device's messages are refused whatever their number.
* `AcceptanceIsOrdered`: `AcceptedInOrder` is not inductive, since it says nothing
  of the table. `AcceptedCovered` adds that an active row's stored number is at
  least every accepted one; the conditional update then makes each acceptance
  exceed all before it. Nonces play no part, which is why a restart is harmless.
* `OneActiveDeviceAlways`: under the assumption that no write is performed late.
  The strengthening `OwnerCleared` says that between the two requests of an
  enrolment the owner has no active device. `late_enrollment` shows that the
  assumption is needed.

**Enrolment, `DeviceEnrollmentProofs`.**

* `CodesWorkOnce`: `CodesInv` ties a code's exchanges to the session it was shown
  for, and to the mark that session carries while the process lives.
* `DevicesStayWithIssuer`, `PairingsWorkOnce`: a pairing's device exists in the
  hands of the lock's holder and in late writes before it exists in the table.
  `Bound` says that one of these places gives the device, enrolled by a pairing,
  to an owner, and `BoundInv` that a bound pairing is spent, was issued to that
  owner and binds no other device. It survives a restart, which forgets that the
  pairing is spent, because ids are drawn once and a forgotten pairing is absent.
* `TableIsARegistry`: `ImplementsRegistry`, under the same assumption as
  `OneActiveDeviceAlways`. The revocation of an owner's active rows is one step of
  the registry because there is one such row at most (`OneActiveDevice`); the
  insert is, because none is left (`OwnerCleared`) and the id is fresh
  (`WritesSound`); and the upsert that revokes a row is, because what it read of
  the row's owner is still true (`RevokedInv`).
* `NewestEnrollmentStays`: as `OneActiveDeviceAlways`, without late writes. A
  late revocation of the owner's prior devices can revoke the newest one (TLC shows
  it); this is not a separate finding, as it is the same abandoned request as in
  finding 1.

**A launch, `YouTubeLaunchProofs`.** One invariant, `Inv`, serves eight properties, the refinement included.
None of them is inductive: that a command is stored once depends on which threads
may still store it, and that it is handed out once on the mark in the queue. `Inv`
follows a run along the contract. Who consumed the ticket (`TicketOnce`) decides
which thread may hold the command (`OneCarrier`); the command's place decides how
often it was handed out (`CommandOnce`); that decides what is on the wire, and the
phone's answer what receipts may say (`PhoneActsOnce`, `ReceiptsAreThePhones`);
what is told was accepted (`ToldWasAccepted`). `WithdrawnIsMarked` is what a scan
and a receipt rely on after a cancellation; `FoundIsFresh` carries what a scan
examined over to its mark: it holds the lock, so the command is still there, neither
delivered nor cancelled. `CancellationHolds` is an action property, proved from the
same invariant.

`StaleBinding` and `StrayCommands` rest on a second one, `DeviceInv`, since what a scan
was told of the device may be out of date when it marks. A device that was replaced
never returns (`DevicesKnown`), so no scan begun after that finds a command for it:
the one command that may stray is the one in `found` at the replacement, and it
leaves none behind (`StrayIsLast`). A command stored for a replaced device is never
found (`StaleStaysBack`): the scan before it could not see it, those after it drop it.

**The refinement, `YouTubeLaunchRefinement`.** `Refinement` is
`Spec => ImplementsConsent`. Under `Inv` nothing is repeated and the stage of a run
can be read off its history (`Stages`); then each action is shown to be one step of
the contract or a stutter. The lemmas name the actions that advance a run, and
show that all others leave its history alone.

**The page, `BrowserLaunchProofs`.** A flow meets the rest of the system through its
one request, so `Inv` is one statement per flow (`FlowInv`): how far the page and
the request have come says how far the launch can have come. `Denied` needs that a
request that was refused leaves its launch unqueued (`RequestStage`), and that only
a restart makes an offered run unknown (`UnknownWasLost`). `OutcomeShown` needs who
can have written the status that is shown (`OutcomesReported`).

**Authentication, `AuthProofs`.** A key set is as good as the moment it was current
at. `AsOf(p, k, t, slack)` says that the k-th key was current at t or replaced at
most `slack` before; `Inv` says it of each key set in a cache, on its way into one,
and about to be read. Google's cache has no lock: between the two assignments, and
between the check and the read, a thread handles a key set that another one
stored, and the slack grows by `MaxFetch` there (`Lag`, `StoredInv`, `HitInv`).
`WithdrawnKeysExpire` and `CurrentKeysWork` follow. `TypeCorrect` includes that the
lock is held by the thread that is fetching, or by nobody.

**Conversations, `ConversationsProofs`.**

* `MessagesStayWithOwner`: the ownership checked before the model call is still
  good enough when the turn is inserted, since an id is drawn once (`Drawn`) and
  a conversation therefore keeps its owner or disappears (`TurnOwned`); the
  foreign key decides which at the insert. `Shape` is the part of the type
  invariant this needs.
* `TitlesAreOfStoredTurns`, `TitlesAreFixed`: `TitleInv` says that a turn past its
  insert is stored as long as its conversation exists, and that a turn which began
  with a title finds it again or finds no conversation.

**What is read back, `ConversationsContextProofs`.**

* `PageMatchesModel`: a row's place in a sorted list is the number of rows before
  it. Places are distinct (`PlaceUnique`), so all are taken (`PlaceTaken`, by
  counting) and both lists are well defined; the two orders are opposite, so a row
  has the places k and n + 1 - k (`OldestFirstPlaces`). `RowsInv` makes the rows
  comparable: a turn is inserted whole, once and at a time of its own.
* `ModelSeesWholeTurns`: whole turns precede a reply, so its place is even
  (`PairedIsEven`, `ReplyPlace`), and requests and replies alternate
  (`Alternation`). The cut keeps turns whole only if `Limit` is even, which is the
  theorem's hypothesis and true of the code's forty; TLC finds a context that
  begins with a reply when the limit of the instance is three. `ToldInv` keeps what
  was read true afterwards: a turn that is stored never changes its account.
* `TypeCorrect`: needs `RowsInv`, since what a turn reads is typed only if the sort
  is well defined.

**Assumptions.** Those the modules state on their constants, which TLC evaluates in
a passing run: numbers are naturals, `None` and the like are no members of the sets
they are added to, no run is called "closed" or "other" (`BrowserLaunch`), the cache's
lifetime is at least one
(`Auth`; it is an hour). Beyond these, three theorems assume that no write is
performed late and one that the limit is even, as said above.

**Only model-checked.** The liveness properties `QueueDrains`, `FlowConcludes` and
`AnsweredOrOvertaken`: fairness and ENABLED are out of the prover's reach. The five
findings are counterexamples and need no proof.

## Not modelled

* Cryptography, canonical payloads and JSON; selector, package and text rules of
  actions the server never queues; layout of the page; the agent behind the chat;
  start-up scripts.
* `ToolExecutor.execute`, `_execute_progress_run` and `_sync_upstream_run_status`:
  they have no caller in this commit but tests, and `POST /chat/runs` refuses every
  request, so no run ever gets an upstream id and the event stream and result
  routes only read the registry. A model would describe interleavings that cannot
  happen.
* The conversation drawer and the composer of the page: the code takes no measure
  against overlapping requests that a property could hold it to.
* The order of the history list (`updated_at`), and the growth of registries whose
  entries are never removed.

## Plan

Every safety property of the passing runs, and both refinements, are proved. What is
left to strengthen:

1. `DeviceBroker` with late writes: a bound on what finding 1 can do, namely that an
   owner never has more active devices than abandoned inserts and one, and that the
   next acknowledged enrolment returns to one.
2. `Auth` with key sets of several keys, as the issuers publish during a rotation.
3. `BrowserLaunch` follows the contract by the way it is built: each action is an
   action of `ConsentLaunch` or leaves its variables alone. With several pages open
   for one account, an offer could be answered in each of them.
