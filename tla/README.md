# Boxalarm: models and proofs of the alerting core

Boxalarm alerts volunteer fire departments: a dispatch, typed by an officer or received from a
CAD (computer-aided dispatch) center, pages the members of a department by push and SMS, calls
those who do not answer, repeats the page in escalating *tones* until enough members respond and
finally asks a neighbouring department for mutual aid. Afterwards an incident report goes to NERIS,
the federal registry. This directory holds TLA+ models of that core, the TLC runs that check them on
small instances, and the theorems TLAPS proves about them.

All paths below are relative to `src/`; `A/` stands for `backend/src/services/alerting-service/`.

## 1. The system

### 1.1 Components

| Component | State it keeps | Operations | Interacts with |
|---|---|---|---|
| Dispatch creation (`A/dispatches/`) | METADATA of a dispatch, its create guard | create (form, CAD) | its stream record starts the fan-out |
| CAD updates (`A/cadIngress/`) | the call's text and revision, UPDATE#, SEEN#, replay markers, CAD_UPDATE_PENDING, CADUPDATE# receipts | create, update, cancel a lost transaction, hand off, notify, sweep | reads tone-1 receipts and `fanOutCompletedAt`; changes the text the fan-out pages |
| Tone-1 fan-out (`A/fanout/`, `A/escalation/scheduleEscalation.ts`) | `fanOutAttempts`, `fanOutCompletedAt`, RECEIPT#, roster rows, schedules | one attempt per delivery of the stream record | publishes pages, schedules voice calls and the tone ladder |
| Tone ladder (`A/escalation/toneLadder.ts`, `toneEvaluatorHandler.ts`, `mutualAidPort.ts`) | `toneLadderStatus`, `currentToneSequence`, `nextToneAt`, TONE# guards, FIRING# markers, TONE_EVENT rows, MUTUALAID#, its prompts | evaluate a tone, request mutual aid, prompt the officers | pages, answers, officers' controls |
| Ladder controls (`A/ladderControls/`) | the same items, and the answer to the officer | advance, halt, trigger mutual aid, acknowledge | the ladder |
| Channel workers (`A/channels/deliverChannelMessage.ts`) | the send guard of a page with its device progress | claim, send, record, re-claim | FIFO queues, gateways, eligibility |
| Answers (`A/responses/`) | roster row, answer guard | answer, change, replay | predicate of the ladder, voice escalation |
| Voice escalation (`A/escalation/escalationHandler.ts`) | escalation receipts | call whoever has not answered | answers, voice worker |
| Eligibility snapshot (`A/eligibility/`), token invalidation (`A/receipts/`, `A/channels/push/massInvalidationGuard.ts`) | one snapshot per member with clocks per field | apply events, invalidate a dead token | personnel events; read by the fan-out and the workers |
| Outbox and bus bridge (`backend/packages/outbox/`, `A/outboxDrainHandler.ts`, `A/platformBusBridge.ts`) | outbox rows, consumers' deduplication and revisions | drain, consume | every service |
| Self-test, canary (`A/selfTest/`, `A/canary/`) | run items | start, record, time out | the fan-out and the workers |
| Copies (pre-plans, alert rules, apparatus status, CAD sources) | last-writer-wins copies | apply an event | outbox |
| Incident reporting (`backend/src/services/incident-service/`) | report, submission status | submit, poll, reconcile, correct | NERIS, outbox |
| Personnel, apparatus, inspections, inventory, training, platform, reporting, notification services | records behind conditional writes | CRUD, shift claims and swaps, riding board, key rotation, projections | outbox |
| Mobile app (`ui/apps/mobile/`) | outbox of answers, cached calls | queue, drain, sign out | the alerting API |
| Web console, packages (authz, logging, parsers, transports), infrastructure | none, or deployment | | |

### 1.2 What is hard, and what makes each part correct

Everything runs in AWS Lambda over DynamoDB, SQS FIFO, SNS and EventBridge Scheduler. Every
delivery is at-least-once, an invocation may die between two calls, several invocations of one
tone, page or message run at once, and the only means of agreement is a conditional write on what
an earlier read has shown. So the hard behaviour is everywhere of one kind: *an invocation acts on
a read that another has made stale, or dies after half of its effects.* The hazards, each at its
line, are in `PROJECT.json`; what must hold is

* **Ladder.** A tone fires once; a tone recorded as fired has paged everybody; a fire that started
  is finished or fails loudly; due mutual aid is requested and its prompts have somebody who will
  run them; METADATA agrees with the tone guards in whatever order tones commit; a halt stops
  everything that has not been committed; the officer is told what really happened; every tone is
  decided in the end.
* **Worker.** One worker at a time sends a page; a duplicate send has a fault to blame; no page is
  acknowledged without having been sent or counted as given up; a sent page stays sent.
* **Fan-out.** A checkpointed record is complete (page, roster, voice schedule and tones for the
  audience of its last attempt); `fanOutCompletedAt` is written only when the pages are out; the
  ladder sees the whole roster; the pre-emption alarm rings only for a pre-emption.
* **CAD updates.** The call shows its latest message whatever the arrival order; a message is taken
  once, and taken if its sender was answered; a push that is owed stays on record, and once it is
  recorded as done no member is left with the older text; every update is pushed in the end.
* **Answers, voice.** An answer is recorded once and as its author's, however often it is posted; the
  roster shows the newest and never goes back; what the phone is told stays true; a row's tier and
  the escalation on record agree, and a recorded escalation was placed.
* **Phone.** A member's newest answer is never lost, through sign-outs, kills and timeouts, and comes
  to show or is refused to his face.
* **Snapshot, token invalidation.** Reordered and redelivered events converge to the newest value of
  each field; a dead token stays dead until it is registered again, and a
  device that registers after its token was marked dead, or after the time the gateway names, is live.
* **Outbox.** Each event is published at least once or is handed to a failure destination that
  alarms; its consumers absorb repetition and reordering.
* **Incident reports.** Only content an officer reviewed reaches NERIS; a refused duplicate is no
  verdict on the report; a record NERIS holds is never forgotten; the report comes to show NERIS's
  status, and is never locked for ever.

## 2. Modules

| Module | Models | Proofs |
|---|---|---|
| `LadderPromise` | what a ladder promises: the abstract specification | |
| `ToneLadder` | tone evaluator, mutual aid, officers' controls | `ToneLadderProofs` |
| `ChannelWorker` | one page in its queue, its workers and its send guard | `ChannelWorkerProofs` |
| `FanOut` | the tone-1 fan-out of one real dispatch | `FanOutProofs` |
| `CadUpdates` | a CAD incident; `EXTENDS FanOut` and composes its steps with the ingress, the notifier and the sweep | `CadUpdatesProofs` |
| `Answers` | the roster, the recording of answers and the voice escalation, on the server | `AnswersProofs` |
| `AnswerOutbox` | the phone that sends them; `EXTENDS Answers` and composes both | `AnswersProofs` |
| `OutboxDrain` | a service's transactional outbox and the drain that publishes it | `EligibilityProofs` |
| `EligibilitySnapshot` | one member's snapshot, its consumers and the token invalidation; `EXTENDS OutboxDrain`, which feeds it | `EligibilityProofs` |
| `NerisSubmission` | one incident report, its officers and the workers that send it | `NerisProofs` |
| `NerisSync` | the status poller and the nightly reconciliation; `EXTENDS NerisSubmission` | `NerisProofs` |
| `MC*` | the instances TLC checks: constants' values and symmetry | |

One rule holds in all of them: an action is one call to a service (or the local code between two
calls), and an invocation is a record with a program counter `pc` that names its next call. Any
other invocation may step in between, and each call may fail or its invocation die. Definitions
carry the code's names where they have one; a definition whose comment begins with `mutant:` is a
plausible bug, used only to show that a property can fail.

### 2.1 ToneLadder

`metadata` is the METADATA item, `guard[t]`, `pending[t]` and `marker[t]` are TONE#t with its
`mutualAidPending` and FIRING#TONE#t with its frozen `mutualAidDue`, `audit` the TONE_EVENT rows
(each with its outbox row and, as history, the attempt that wrote it), `aid` MUTUALAID#SINGLETON,
`prompts` and `pages[t]` the receipts marked sent, `heard` (history) the officers whose prompt was
published, which a claimed receipt does not prove, `responding` the roster as the predicate counts
it. `eval` holds the evaluator invocations: the deliveries of the schedules of tones 2 and 3 (several, since delivery is at-least-once; each
retried up to `MaxAttempts` times after a throw) and the officers' advances, which run the same
handler synchronously and are never retried. An invocation goes

    metadata -> guard -> marker -> roster -> tone3 -> mark -> page* -> aid -> prompt* -> commit
                                      \-> skip, skipGuard        commitGuard, pending, clear

following `toneEvaluatorHandler.ts:725-955`; `CommitFire`/`CommitSkip` are its transaction
including the condition failures and what the code does about them. `HaltRead`/`AttemptHalt` are
the halt's read-write loop, `TriggerMutualAid`/`PromptForTrigger` the officer's trigger. Outside:
`RecordToneTimes` (the fan-out's last call, at any time), `Answer`, `Deliver`, `Advance`.

`EveryToneIsDecided` ends at "failed": after its last attempt an invocation goes to the failure
destination, which alarms. `Promise == INSTANCE LadderPromise WITH ...` maps METADATA and the set
of fully paged and of fired tones to the abstract ladder; `KeepsPromise` says every step is one of
its steps or none.

### 2.2 ChannelWorker

`queue` holds the page's message and its *twins*: the same page published again by a retried
fan-out or redriven from the dead-letter queue (SNS and SQS deduplicate only for five minutes).
`worker` is the one invocation a FIFO message group allows, `record[m]` its processing of message
`m`: the records of a batch run concurrently. `guard` is the send guard item. `accepted`, `gaveUp`
and `faults` are history variables for the properties: what the gateways took, whether a worker
ended the page and counted it, and what the environment did wrong. Time is a clock in ticks of 5 s,
because the code tells a dead worker's claim from a live one's by its age alone.

The guard's `deliveredAt`, which the re-claim reads, is never set by any code and is left out.
`Devices` is a push page's devices; an SMS page is the case of one device.

### 2.3 FanOut

`fan` is the invocation that processes the stream record, one attempt after another;
`fan.task[m]` a member's page task (claim the receipt, publish, mark it sent), all run at once as
in `sendOne`. `receipt`, `page`, `rostered`, `voice` and `tones` are what it leaves. A member's push
and SMS page are two tasks of the same code, and one here. `ChangeEligibility` is the snapshot
changing between attempts: every attempt resolves its audience anew. `Reachable` members have a
target, the others are rostered without being paged. The display-time write at the end of
scheduling (`recordToneTimes`) never throws and belongs to the ladder's model. No run checks
`FanOut` by itself: `CadUpdates` contains its steps.

### 2.4 CadUpdates

A *delivery* is one arrival of a *message* under a replay *token*: an identical retry has the token
of the first arrival, a re-signed or re-sent one has its own. `ingest[d]` is its invocation: the
replay check, the create transaction, and after a cancelled one the read-and-write loop of
`recordCadUpdate`, with its replay, duplicate, older, unchanged and race outcomes, then the hand-off.
A sender's retry is another delivery: a failed invocation ends in "failed". `notifier` holds the
update notifier's invocations, which the asynchronous event queue (`queued`) retries; the sweep
hands a pending update off again, without the two-minute age the code asks for, which only delays.

Abstracted: a message's fields are one text, a content hash is the message itself, and the one
outcome of a member's update push stands for those of his devices. The call is within the identity
window of its incident, so the create's collision is found by the identity and not by another.

### 2.5 Answers and AnswerOutbox

`Answers` is the server of one dispatch. `roster[m]` is a roster row (the answer it shows and its
`currentChannelTier`), `guard[m][a]` the RESPONSEKEY# of an answer with the outcome it holds,
`confirmed[a]` the rows for the platform bus. `post[p]` is one POST of an answer and its invocation
of `recordResponse`:

    sent -> write -> apply -> remember -> answered
                \-> replay -/ (or answered, with the guard's outcome)

which is the authorizer and the reads of dispatch and snapshot (`CheckMember`), the transaction
(`WriteAnswer`), a replay's read (`ReadGuard`), `applyToRoster` and `recordGuardOutcome`. `call[c]`
is an invocation of the voice escalation handler: the roster read, the inactive check, the publish,
then the transaction that records it. `ScheduleEscalation` is the fan-out's seed of a row and its
schedule, at any time: before the member's first answer or after.

`AnswerOutbox` is one phone. `row[a]` is the SQLite row of an answer (status, owner, and the hint
of who was signed in when the owner could not be read), `dropping[a]` what an answer being queued
is about to discard, `drain` the run of `runDrain` with the member it is pinned to, `session` what
the keychain holds and `configured` what the app shows: they differ while a sign-in or sign-out is
under way and after the process is killed. `told` and `synced` are what the member is shown.
`EnqueueResponse`, `ListOlder` and `DiscardOlder` are one `enqueueResponse`; `NextRow`, `CheckRow`,
`ClaimForSync`, `PostRow` and `ReceiveAnswer` one pass of the drain; `TimeOut` leaves its post
running on the server.

Assumed: answers are numbered by the time they were given, which is `answeredAtMs` and the row's
`queuedAt` at once; an answer id is never reused; the phone's clock is not ahead of the server's.
Left out: the member's own retry, discard and adoption of a row, the drop of a stale ownerless row,
rows of other kinds and photos, a client that sends no answer id.

### 2.6 OutboxDrain and EligibilitySnapshot

`stream` is the sequence of outbox rows a member's changes commit; a row is its event. `drain` is
the event source mapping and its invocation: a batch, the `PutEvents` answer entry by entry, the
`sentAt` marks (which nothing reads), the batch item failures, and after the last retry the failure
destination (`abandoned`). `published` events reach the consumers through standard queues, so
`Receive` takes any of them, in any order and again after they were handled. `record[c]` is an
invocation's processing of one event: `personnel.member.updated` field by field and then the contact
groups (read, merge, write on the version read), `personnel.eligibility.changed` (deduplication, read,
write on the quals read, deduplication row), `personnel.availability.changed` (one transaction).
`rejection[w]` is a push worker that has been told a token is dead; the registration that was rejected
(`reg`) is history, since the code keeps only the token. `killed` is the history of what was marked: the
registration found at the mark, the one that was rejected and the time the gateway named.

A member is one shard and one queue of rows; his qualifications are a set; the SMS and voice entries
of a phone are one field; an eventually consistent read that is stale is the read at an earlier
point. The mass-invalidation guard counts over all members and is its verdict here: it may refuse.

Assumed of the personnel service (`CommittedEvents`): an event lists a token once, as valid, with the
time of its registration, as `withRegisteredDevice` and `registerToken` write it. An entry from before
registrations had a time is not modelled; the code keeps such an entry dead, once it is.

### 2.7 NerisSubmission and NerisSync

`row` is the report's METADATA row: content version, locked version, submission status (`quiet`: no
attempt for an hour), what is known of the record at NERIS, a create in flight, nights without the
record. Officers' actions are one conditional transaction each. `jobs[n]` counts what waits to
invoke the worker for retry `n`: it stands for the outbox row, the bus, SQS and the retry schedules,
all at-least-once. `worker[w]` is an invocation of `attemptSubmission`:

    read -> built -> (forget | look | mark | put) ... mark -> post -> adopt -> put -> append -> schedule

`payload` is the pair of versions it has read: the report and its units are two reads. `neris` is
the one record NERIS holds for the report: its id is fixed by the report, whose `alarmAt` and
dispatch number cannot be edited.

In `NerisSubmission` alone the reconciliation is one action, `RecordIsGivenUp`, which may come at any
time after an accepted send; the workers' way back from it (`Forget`, then a lookup) is theirs.

`NerisSync` takes the officers' and workers' actions (`Sends`) and puts the jobs themselves in the
place of `RecordIsGivenUp`. It adds `poll`, one row of the five-minute poller's work list, `night`, the reconciliation's
work on this report, and `Move`, what NERIS does by itself. Assumed of NERIS: it does not drop a
record between refusing its duplicate and being asked for it, and it does not answer that lookup with 422,
which the worker would record as a verdict on the report (`neris/submissionWorker.ts:386-390`). Assumed of
staffing: it is refused on a locked report and raises the version, like every other edit. A seat change that
finds no report is written without either on its next try (`ridingAssignmentConsumer.ts:142`, `185-197`,
`213-215`), so it must land before the report is created, reviewed and locked: one short invocation against
an officer's review. `LostCreateIsRemembered` says nothing more once the record is known as an earlier one
(`previous`), which the next attempt looks up by itself. Not modelled: the settings schema, the
poller's cursor and time budget, the deletion of a report, the drift event and the reminder.

## 3. Runs

| Run | Instance | What it shows |
|---|---|---|
| `ladder_halt` | 2 members, tone 3 with a retry, an advance, a halt, an answer; fair | started fires are finished, fired tones reached all, due aid is requested and reaches the officers, pending prompts are kept, a halt freezes, the ladder keeps its promise, every tone is decided |
| `ladder_officer` | 1 member, tones 2 and 3, an advance, a trigger, an answer | one fire per tone; the officer's answer is true |
| `ladder_twin_skip` | tone 2 delivered twice | *violation*: see section 6 |
| `worker_twins` | a page and its twin, 2 devices, 2 receives, 1 fault | one sender, duplicates have a fault, no silent loss, sent stays sent |
| `cad_races` | five deliveries of four messages, no crew | the call's text under every order and race |
| `cad_crews` | 2 members, a correction, 2 fan-out attempts, a lost stamp, 2 faults | owed pushes stay pending, nobody is left stale, the fan-out's checkpoint and stamp are honest |
| `cad_live` | 1 member, a correction, 2 fan-out attempts, an eligibility change, 1 fault; fair | every update is notified unless its fan-out is given up on |
| `answers` | 2 members on one phone, 2 answers, 2 posts under way, a failure, a fault, a sign-out, one answer given with the keychain unreadable | recorded once, as its author's; the roster never goes back; the phone loses no newest answer and is told the truth |
| `answers_live` | 1 member, an answer, 2 escalations of him with a retry, a failure, a fault, the member may leave; fair | the answer settles, the silent member is called |
| `eligibility` | seven histories of two to four events, 2 consumers, 2 receives, one drain fault, one consumer fault, a dead token; fair | each field and qualification shows its newest, dead tokens stay dead, a device that registers after the mark is live, every event is handled or alarms |
| `neris_sends` | 2 workers, 2 edits of which the first is invalid, 3 requests, a retry, a fault | only reviewed content leaves, a duplicate's refusal is no verdict, no record is forgotten |
| `neris_sync` | 1 worker, 1 edit, 2 requests, a fault, 2 missing nights, 1 move of NERIS; fair | the status converges, the report can be unlocked again |

The largest are `neris_sends` (7.7 million distinct states), `answers` (2.9 million) and
`ladder_officer` (1.1 million); each run ends within two minutes on two cores.
Deadlock is not checked (`CHECK_DEADLOCK FALSE`): a dispatch, a history or a report comes to rest
when its invocations have ended.

**Why the bounds are enough.** Each race in the code is between two invocations over one item, plus
one environment step (a halt, an answer, a fault): the runs have two or three invocations of each
item and every environment step that matters for their properties. Two members are one that is
paged and one that is not yet; two devices are one that answers and one that fails; two answers are
one and the one that replaces it; two posts are one that timed out and its retry; two workers of a
report are one that is overtaken by the other. `MaxAttempts` 2 is an attempt and its retry, which
starts from everything a failed attempt can leave. `MaxHaltReads` 2 is one lost conditional write of
the halt's loop, `MaxWrites` 3 is deployed. The worker's clock ends at 9: a receive at 0, the
redelivery at 6 and its whole lifetime, so a third receive and the dead-letter queue are beyond it.
`MaxSends` 2 is one retry of a device. `eligibility`'s histories are two to four events
whose order can matter: a device that registers again, a second device beside a phone number, a
retirement and a return around a change of availability (on a snapshot that exists or not, with a row
that cannot be published), two qualifications, one granted and revoked, and changes to a snapshot from
before there was a clock for each. `neris_sends` has an edit after
a send and one before the next lock, which is what a payload built from two reads needs. What the
theorems of section 5 state holds for any number. Symmetry is used only in runs without liveness
properties, over members, devices, messages or workers that no definition tells apart.

**What the bounds exclude on purpose.** `worker_twins` has `ClaimDelay` 1: a claim is taken less
than ten seconds after the receive (section 6 says what happens at ten). `cad_crews` has no
eligibility change, `ladder_halt` and `ladder_officer` no duplicate delivery of one schedule,
`cad_live` no lost stamp and no identical retry, `answers` at most one answer without an owner: each
is a case of section 6.

## 4. Fairness

`ladder_halt`, `cad_live`, `answers_live`, `eligibility` and `neris_sync` assume fairness; the other
runs check safety only.

* *Servers.* An accepted Lambda invocation runs on: weak fairness of its next step, where a step and
  its failure are alternatives. A schedule is delivered (EventBridge Scheduler is at-least-once). A
  stream's records, the event queues, the five-minute sweep and poller and the nightly
  reconciliation keep coming. A queued CAD notice needs a free invocation, which other notices may
  take again and again, so `Invoke` is strongly fair: Lambda's queue is served until the event
  expires. An event that is neither handled nor dead is received again.
* *Phone.* The retry timer, the network listener and the app coming forward start the drain, and
  each of its awaits has a limit; `configure` follows the session. Neither the member's next answer
  nor his signing back in is assumed: `AnswerSettles` is excused by his absence.
* *NERIS.* It answers the nightly listing in full again and again (`SF` of `NightLists`, which
  competes with `NightFails`). Nothing else is assumed of it: it may refuse every create.

Nothing is assumed of officers, members or senders, or of calls succeeding: bounded retries make
every outcome "done" or "failed".

## 5. Proofs

Every theorem holds for any values of the constants under the module's `ASSUME`, which says only
that sets fit together and bounds are naturals, except where a premise is named below. `PROJECT.json`
lists the theorems a reader should know; each proof module's lemmas are one per conjunct of its
invariant and group of actions.

**`ToneLadderProofs`** (any members, officers, deliveries, requests and bounds): `TypeCorrect`,
`FiredToneHasReachedEveryone`, `OfficersAreToldTheTruth`, `PendingPromptsKeepAnOwner`,
`LadderStaysConsistent`, `EachToneFiresOnce`, `FinishedLadderShowsNoNextTone`; `HaltIsFinal` on
every step; `LadderKeepsItsPromise`: `ToneLadder` implements `LadderPromise`; and
`StartedFiresAreFinished`, `DueMutualAidIsRequested`, `DueMutualAidReachesOfficers` and
`NoToneIsLeftQuietly`, which have invariants of their own (below). The safety properties are not
inductive: whether a commit may record a tone as fired depends on what its invocation did many calls before. The invariant `IInv` adds

* `EvalInv`, per invocation: what it has decided fits its program counter, its remaining pages and
  the members already paged make up the roster, so that at "commit" everybody is paged, and an
  officer is told of a fired tone only then. Another invocation's step keeps it because pages only
  grow, which `PagesGrow`, `LocalStable` and `OneMoves` state once;
* `ItemsPaged`: a tone with a fired guard or with pending prompts has all members paged;
* `Refused`: an invocation whose condition on METADATA failed, and which now writes the guard
  alone, would be refused again: the ladder has passed its tone or is halted;
* `RowsHaveGuards`: each fired TONE_EVENT row has its fired guard, so that the conditional write of
  a second fire fails and `FiredOnce` is kept;
* `PendingOwed`: each pending tone has an invocation at a call after its commit, retrying, or
  failed, unless the ladder is halted.

`StartedFiresAreFinished`, `DueMutualAidIsRequested` and `DueMutualAidReachesOfficers` say that a marker,
once written, has an invocation that will act on it: `StartedInv` and `DueInv` go through the calls at
which it may be, and show that nobody else can turn the tone into a skip. Their premise `OneDelivery` is that each schedule is
delivered once (its retries after a throw are no second delivery): with two deliveries the properties
fail, as `ladder_twin_skip` shows. The last two need `OfficersLeaveTone3` as well, that no officer
advances to tone 3: section 6 says why. A claimed prompt is no published one;
`MarkedAreHeard` says that one whose receipt is marked sent is. `NoToneIsLeftQuietly` has no premise: what `ReturnsSettled`
says of an invocation is why each of its early returns is right, so a tone that stays undecided has a
failure that is dead-lettered. It is `EveryToneIsDecided` without the fairness.

**`ChannelWorkerProofs`** (any twins, devices, faults, receives and clock): `WorkerTypeCorrect`,
`OneMessageSends`, `SentPageStaysSent`, `EveryDuplicateIsPaidFor` and `NoPageIsLost`, with
`Timeout <= Stale` among the assumptions, which the
deployment keeps (15 s and 20 s) and without which a redelivery would take a live claim for a dead
one. `OneSender` says nothing of why a second record's condition fails, so its `IInv` adds

* `Alive`: a live worker is at most `Timeout` old, and `ClaimTime`: a record past its eligibility
  read carries a time of its own invocation; together, a claim that is `Stale` ticks older than
  such a record was written before the invocation began;
* `SawAbandoned`: a record about to re-claim without a recorded failure saw such an older claim;
* `Claimed`: a sender's guard is CLAIMED, without a failure, and not older than its invocation: no
  `StillAsSeen` of another record can match it;
* `SentIsFinal`: a SENT guard has no failure, so it is never re-claimed.

`EveryDuplicateIsPaidFor` counts: what a device accepted beyond what its guard or its sender's record
tells of was paid by a fault. `NoPageIsLost` needs that a claim is stale when its message reappears
(`ClaimDelay + Stale < Visibility`), which ten seconds between receive and claim break (section 6);
from it an acknowledged message has a sent guard, a counted end, or another message that will retry.

**`FanOutProofs`** (`FInv`) and **`CadUpdatesProofs`** (`CadInv`, which contains it). Of a fan-out:
`PreemptionAlarmRingsTrue` and `LadderIsScheduledLast`; of a call with its fan-out, deliveries and
notifiers: `LatestMessageIsShown`, `OriginalStaysOriginal`, `AnsweredIsAccepted`, `OwedPushIsFound`,
`CheckpointIsComplete`, `StampFollowsPages`.

* `FInv`: the counted attempts agree with the stream's (`AttemptsCounted`), a first pass finds no
  receipt but its own (`FirstPassIsFresh`, the reason the alarm never rings for a retry), a receipt
  follows its page (`PageBeforeReceipt`), the tasks are the audience that was read, and until one
  fails everybody scheduled so far has a voice escalation.
* `IngressInv`: what is answered or shown has its SEEN# item; a writer holds METADATA as it is, or as
  it was before a later revision, on which its condition then fails (`ReadsAreCurrent`); METADATA's
  time is the newest update's. Two deliveries with one token carry the same content: an assumption.
* `NoticeInv`: whatever is pending, queued or processed is an update that changed the call.

`CrewIsNotLeftStale` needs `MaxChanges = 0`, an audience that does not change: a member who joins
between two attempts is a real exception (section 6). Its `StaleInv` says that a stamped call has
paged the whole audience, that a notifier read METADATA after the stamp, and that an accepted push
carries at least its update's revision; so whoever was paged with an older text was paged before the
stamp, and the notifier that closed the update read that page.

**`AnswersProofs`** (any members, answers, posts, failures, escalations, kills and sign-outs):
`ConfirmedAtMostOnce`, `OutcomesAreTrue`, `AuthorsAreKept`, `PhonesTellTheTruth`, `RostersOnlyGrow`,
`TiersFollowEscalations`, `EscalationsWerePublished`, `SilentMembersAreCalled`. The invariant is built in layers, each inductive
given those before it:

* `Typed`: the types, and what a program counter implies (a post that applies has its guard, a drain
  that waits has its post);
* `Authored`: the app shows nobody but the keychain's member, a row's owner and hint and a post's
  token are the answer's author, a drain's row belongs to the member it is pinned to;
* `Truthful`: outcomes in posts, guards and on the phone are true of the roster, which only grows, and
  an answer is confirmed once because the guard that would confirm it again is its author's;
* `Escalating`: tiers, rows and escalations agree, and an escalation about to be recorded has been
  published for a member who has a row.

`SilentMembersAreCalled` is `UnansweredIsCalled` without the fairness: an escalation that is over has
called its member, unless the member answered or left or each of its attempts failed. `CallAccounts` says
what each place an escalation can end at vouches for, that the seed gave it a row to read, and that it was
tried again only after a failure.

`NewestAnswersAreKept` needs `MaxUnread <= 1`: two answers given while the keychain cannot be read may
belong to two members and count as one member's (section 6). Its invariant `Kept` adds that what is
about to be discarded is older and of the same author, and that an outcome stands for a confirmed
answer.

**`NerisProofs`** (any workers, edits, requests, retries and faults, and any content NERIS accepts):
`ReviewedContentLeaves`, `VerdictsAreNeris`, `CreateIsRemembered` of the submission, and
`SyncKeepsTheSendsSafe`, `AcceptanceIsOfReviewedContent`, `MissingIsOfAKnownRecord` of its composition
with the poller, the reconciliation and NERIS's own moves. `IInv` says that a locked report is locked at
a version an officer reviewed, that the parts of a payload were read in order (so that the check on the
version of the first read vouches for both), that a worker past the check carries one reviewed version,
that a create is marked before it is sent, and that a refused create is looked into only if the record exists or its content is invalid. The
composition reuses its step lemma: `SyncInv` adds the jobs' types, that what is recorded as accepted (or
is about to be) was reviewed, and that only a known record is missing; the jobs' writes are shown to be
`StatusWrite`s, which touch nothing the rest depends on. Where NERIS drops its record, a refusal being
looked into would lose its reason, and a refused duplicate would be recorded as a verdict: the step goes
through because no invocation looks into one then (the assumption of 2.7).

**`EligibilityProofs`** (any histories that fit `CommittedEvents`, consumers, receives, rejections and
faults): `SnapshotTypeCorrect`, `FieldsShowNewest`, `QualsShowNewest`,
`DisabledTokensWereRejected`, `DeadTokensAreNotRevived`, `NoEventIsLostQuietly`. `Typed` fixes the
shapes of events, records and rejections; the rest is said of what an invocation has read *as long as its conditional write can still
succeed*, and of what it has passed for good:

* `FieldsInv`: a record has passed a field only when the snapshot's clock is as new as its event; a
  contact write whose version still holds (`ContactRead`) is newer than the groups it carries and has
  the others as they are; so has a push worker's list (`ListRead`);
* `QualsInv`: the same of qualifications, where the condition is on the values read and not on a version,
  and of the floor, which is fixed before the first clock is written;
* `TokensInv`: every list that may be written keeps the dead tokens of the one it replaces
  (`StaysDead`), and each token it disables has a mark that accounts for it (`Disabled`): of this
  registration or a newer one that was rejected, or of one found when the token was marked;
* `DrainInv` and `QueueInv`, for `NoEventIsLostQuietly`: the drain counts a row as done only when the bus
  has it (`BatchSent`: all of a batch, or what precedes its first failure), the mapping has passed only
  such rows and those it handed over, and an event's last receive ends as handled or dead. It is
  `EveryEventIsHandled` without the fairness.

**Checked by TLC only**: the seven liveness properties (`EveryToneIsDecided`,
`EveryUpdateReachesItsCrew`, `AnswerSettles`, `UnansweredIsCalled`, `EveryEventIsHandled`,
`UnlockStaysPossible`, `StatusConverges`), which are beyond the prover's reach. Every other property of
every run is stated by a theorem. No module with a theorem contains a recursive operator.

## 6. What the models disagree with

One run ends in a violation of what the repository says of itself; `PROJECT.json` quotes the lines.

* `ladder_twin_skip`: a duplicate delivery of a tone that read the firing marker before the fire
  wrote it still re-checks the predicate, and its skip guard makes the fire's retry end as already
  evaluated: members stay unpaged (`A/escalation/toneEvaluatorHandler.ts:785-801`).

Seen while modelling, and kept out of the passing runs by a bound, a premise or the shape of a
property, without a run of their own:

*Ladder and workers*

* `recordToneTimes` shows tone 2 as upcoming after a predicate-met skip, because the skip leaves
  `currentToneSequence` at 1 (`A/escalation/toneLadder.ts:167`), and tone 2 may commit tone 3's
  time as upcoming after tone 3 was evaluated (`toneEvaluatorHandler.ts:810`).
* After a halt the retry of a tone whose prompts are pending returns before its pending check, so
  `PendingPromptsHaveAnOwnerUnlessHalted` and the two properties of due aid need their condition
  (`toneEvaluatorHandler.ts:745`).
* An officer advances to tone 3 after enough members answered, while the schedule, which read too few
  answers, has written its marker as due: the advance completes the ladder without mutual aid, and the
  schedule's retry ends at the completed ladder (`toneEvaluatorHandler.ts:785-806`).
  `DueAidIsRequested` and `DueAidReachesOfficers` fail then, the second also when the schedule had made its
  request and died before its prompts; their theorems exclude such an advance.
* A claim written ten seconds after its receive is exactly `STALE_CLAIM_SECONDS` old, not older,
  when the message of its dead worker reappears, and is taken for a fresh duplicate: with
  `ClaimDelay` 2 `NoSilentLoss` fails (`A/channels/deliverChannelMessage.ts:624`).
* The re-claim of a recorded failure is conditional on *a* failure, not on the one that was read:
  of two records in one batch the second may re-claim the first one's new failure and send to a
  device whose outcome was final. One at a time, and no accepted page twice, so `OneSender` and
  `DuplicatesArePaidFor` hold (`deliverChannelMessage.ts:637`).

*CAD updates*

* A member who becomes eligible between two attempts of a fan-out is paged with the text that an
  already notified update has changed (`A/fanout/handler.ts:525`): `NobodyLeftStale` fails with
  `MaxChanges` 1.
* A byte-identical retry of an update is answered from its replay marker before anything checks
  whether its push is still owed (`A/cadIngress/webhookHandler.ts:239`). A retry under a token of its
  own does check (`UpdateNeedsNotice`), and the sweep remains.
* A failed write of `fanOutCompletedAt` is swallowed and never made up for, so no update of that call
  is ever pushed (`A/fanout/handler.ts:177`): `EveryUpdateReachesItsCrew` fails with a lost stamp.

*Answers and the phone* (`ui/apps/mobile/src/sync/`)

* A changed answer discards the older row while the drain is between claiming and sending it; the send
  finds the row gone, returns as if it had succeeded, and the drain remembers the answer as sent
  (`syncManager.ts:427-432`, `790-791`, `925-926`), against the comment at `910-911`. The older
  answer was replaced, so no answer is lost; what the member sees of it is untrue until the newer one
  is sent.
* An older answer that waits out a backoff is sent after the newer one was delivered and its row
  removed, because `isSuperseded` looks at rows only (`outbox.ts:88-98`). The server answers it as
  superseded, so the roster is right.
* Two rows whose owner could not be read compare as the same owner (`outbox.ts:58-63`): with two such
  answers of two members one discards the other's, and `NewestAnswerIsKept` fails with `MaxUnread` 2.

*Snapshot*

* An availability event that arrives before the member's snapshot exists is acknowledged and dropped for
  good (`A/eligibility/consumer.ts:139-145`); `unheard` keeps these events apart in
  `FieldsShowTheNewest`.

* A dead token is found by the token alone (`A/receipts/invalidatePushToken.ts:71-103`). FCM names no
  time, nor does APNs unless it answers 410 with one (`backend/packages/push-transport/src/apnsSend.ts:144`): then
  a page that was rejected for an older registration disables a device that has registered the same token
  again in the meantime (reject (a, 1), register (a, 5), mark a), until it registers once more.
  `DisabledOnTheGatewaysWord` allows this (`MarkedAfter` with `since` 0) and nothing more.

*NERIS* (`backend/src/services/incident-service/neris/`)

* A poll that read the history before a resubmission landed, and the row after it, shows NERIS's older
  status over the new record's (`statusPoller.ts:122-124` and
  `docs/decisions/2026-09-29-neris-loop-review.md`, "Minor 2", say it cannot). The nightly
  reconciliation repairs it, so `StatusConverges` holds and no property states it of every moment.
* Giving a record up is not conditional on the count of nights that decided it, and a night that dies
  after counting counts again: a record may be given up a night early. It is then looked up before it is
  created again, so nothing is sent twice.

## 7. Not modelled

Self-test and canary fan-outs end after their pages. The mutual-aid acknowledgement changes an item
nothing of the ladder reads. The mass-invalidation guard counts over all members' devices and is its
verdict in `EligibilitySnapshot`. Device registration and shift swaps in the personnel service are
conditional writes on one item each; with attendance, the riding board and key rotation they are the
concurrent record keeping left. The last-writer-wins copies (pre-plans, alert rules, apparatus status,
CAD sources) are the field of `EligibilitySnapshot` with one clock. Parsing, addresses, MIME, signatures,
authorization, transports and metrics keep no state the properties speak of. The SDK's own transport
retries (a write applied whose answer is lost) are below the calls of the models.

Most of the repository by size is the web console, the phone's screens, demonstration data, deployment
code and record keeping by create, read, update and delete: no behaviour that interleaves, fails half way
or must eventually happen, so nothing TLA+ adds to its tests.

## 8. Plan

Done, in order of importance to a paged crew: the ladder with its promise, the channel worker, the
fan-out with CAD updates, answers with the phone's outbox and the voice escalation, the eligibility
snapshot behind the transactional outbox, and the NERIS loop; all with proofs of their safety.

Left:

1. The safety that remains of the other liveness properties, as `NoToneIsLeftQuietly`,
   `NoEventIsLostQuietly` and `SilentMembersAreCalled` are of theirs.
2. `PushDevices`: registration of one phone by two members at a time, its rollback, and the report of a
   lost device, with the event that carries them to the snapshot.
3. `ShiftSwap`: claim, approval and withdrawal of one position.
4. `SelfTest`: a run's outcome from fan-out, workers and timeout.

New modules take the place of runs whose properties have become theorems.
