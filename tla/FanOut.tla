------------------------------- MODULE FanOut -------------------------------
(***************************************************************************)
(* The tone-1 fan-out of one real dispatch (fanout/handler.ts): a stream   *)
(* record retried until it succeeds or is given up on, whose every attempt *)
(* reads the audience and the dispatch as they are now, pages each member  *)
(* under a receipt, stamps fanOutCompletedAt, seeds the roster, schedules  *)
(* the voice escalations and then the tone ladder.                         *)
(*                                                                         *)
(* A member's push and SMS page are independent tasks of the same code, so *)
(* a member has one page here.  The revision of the dispatch is the number *)
(* of CAD updates applied to it: module CadUpdates adds the actions that   *)
(* advance it.                                                             *)
(***************************************************************************)
EXTENDS Integers, FiniteSets

CONSTANTS
    Members,       \* everybody who may be in the eligibility snapshot
    Reachable,     \* members with a push or SMS target
    Eligible,      \* those eligible when the dispatch is created
    MaxAttempts,   \* attempts of the stream record (1 + maximumRetryAttempts)
    MaxChanges,    \* bound on eligibility changes
    MaxLostStamps  \* bound on failed writes of fanOutCompletedAt

ASSUME FanOutConstants ==
    /\ Reachable \subseteq Members /\ Eligible \subseteq Members
    /\ MaxAttempts \in Nat \ {0} /\ MaxChanges \in Nat /\ MaxLostStamps \in Nat

VARIABLES
    dispatch,   \* METADATA: fanOutAttempts, fanOutCompletedAt set, updateCount
    eligible,   \* the eligibility snapshot now
    changes,    \* how often it has changed (bounded)
    fan,        \* the invocation that processes the stream record
    receipt,    \* each member's RECEIPT# item: absent, claimed, or with sentAt
    page,       \* the revision of the page the topic accepted for a member, or NoPage
    rostered,   \* members whose roster row the fan-out has seeded
    voice,      \* members with a tone-1 voice escalation schedule
    tones,      \* tones with a schedule
    preempted,  \* DuplicateSkippedFirstPass was raised
    lostStamps  \* failed writes of fanOutCompletedAt

fanOutVars == <<dispatch, eligible, changes, fan, receipt, page, rostered, voice, tones,
                preempted, lostStamps>>

NoPage == -1
Tasks  == {"none", "claim", "publish", "mark", "done", "failed"}
NoTasks == [m \in Members |-> "none"]

FanOutInit ==
    /\ dispatch = [attempts |-> 0, completed |-> FALSE, revision |-> 0]
    /\ eligible = Eligible /\ changes = 0
    /\ fan = [pc |-> "waiting", attempt |-> 1, audience |-> {}, firstPass |-> FALSE,
              revision |-> 0, task |-> NoTasks, unscheduled |-> {}, scheduleFailed |-> FALSE]
    /\ receipt = [m \in Members |-> "none"]
    /\ page = [m \in Members |-> NoPage]
    /\ rostered = {} /\ voice = {} /\ tones = {}
    /\ preempted = FALSE /\ lostStamps = 0

-----------------------------------------------------------------------------
\* The record of a new dispatch reaches the fan-out.
RecordArrives == fan.pc = "waiting" /\ fan' = [fan EXCEPT !.pc = "audience"]

\* A member's availability, status or targets change.
ChangeEligibility(m) ==
    /\ changes < MaxChanges /\ changes' = changes + 1
    /\ eligible' = IF m \in eligible THEN eligible \ {m} ELSE eligible \cup {m}
    /\ UNCHANGED <<dispatch, fan, receipt, page, rostered, voice, tones, preempted, lostStamps>>

\* batchItemFailures: the stream retries the record, or gives it to the on-failure queue.
Retried ==
    IF fan.attempt < MaxAttempts
    THEN [fan EXCEPT !.pc = "audience", !.attempt = @ + 1, !.task = NoTasks,
                     !.unscheduled = {}, !.scheduleFailed = FALSE]
    ELSE [fan EXCEPT !.pc = "givenUp", !.task = NoTasks]

ResolveAudience ==
    /\ fan.pc = "audience"
    /\ fan' = [fan EXCEPT !.pc = "count", !.audience = eligible]
    /\ UNCHANGED <<dispatch, eligible, changes, receipt, page, rostered, voice, tones,
                   preempted, lostStamps>>

\* The fan-out-started update counts the attempt and returns the dispatch as it is now.
IsFirstPass == dispatch.attempts = 0

StartAttempt ==
    /\ fan.pc = "count"
    /\ dispatch' = [dispatch EXCEPT !.attempts = @ + 1]
    /\ fan' = [fan EXCEPT
                 !.pc = "page", !.firstPass = IsFirstPass, !.revision = dispatch.revision,
                 !.task = [m \in Members |-> IF m \in fan.audience \cap Reachable
                                             THEN "claim" ELSE "none"]]
    /\ UNCHANGED <<eligible, changes, receipt, page, rostered, voice, tones, preempted,
                   lostStamps>>

-----------------------------------------------------------------------------
(* sendOne, for every planned page concurrently.                           *)

Task(m, state) == fan' = [fan EXCEPT !.task[m] = state]

\* The conditional Put of the receipt. One already marked sent is a duplicate, which on the
\* first pass means that another writer took this page's key.
ClaimReceipt(m) ==
    /\ fan.task[m] = "claim"
    /\ IF receipt[m] = "sent"
       THEN /\ Task(m, "done")
            /\ preempted' = (preempted \/ fan.firstPass)
            /\ UNCHANGED receipt
       ELSE /\ Task(m, "publish")
            /\ receipt' = [receipt EXCEPT ![m] = "claimed"]
            /\ UNCHANGED preempted
    /\ UNCHANGED <<dispatch, eligible, changes, page, rostered, voice, tones, lostStamps>>

\* The deduplication id and the worker's send guard let only the first accepted page through.
PublishPage(m) ==
    /\ fan.task[m] = "publish"
    /\ \/ /\ page' = IF page[m] = NoPage THEN [page EXCEPT ![m] = fan.revision] ELSE page
          /\ Task(m, "mark")
       \/ Task(m, "failed") /\ UNCHANGED page
    /\ UNCHANGED <<dispatch, eligible, changes, receipt, rostered, voice, tones, preempted,
                   lostStamps>>

MarkSent(m) ==
    /\ fan.task[m] = "mark"
    /\ Task(m, "done")
    /\ receipt' = [receipt EXCEPT ![m] = "sent"]
    /\ UNCHANGED <<dispatch, eligible, changes, page, rostered, voice, tones, preempted,
                   lostStamps>>

\* A write of the receipt fails: this task is rejected, the others go on.
TaskFails(m) ==
    /\ fan.task[m] \in {"claim", "mark"}
    /\ Task(m, "failed")
    /\ UNCHANGED <<dispatch, eligible, changes, receipt, page, rostered, voice, tones, preempted,
                   lostStamps>>

PagesFailed == \E m \in Members : fan.task[m] = "failed"

\* All pages have settled. The stamp needs every one of them; its own failure is only logged.
\* Nobody in the audience at all: the record is done.
StampAlways == TRUE   \* mutant: the stamp does not depend on the failures
MayStamp == ~PagesFailed

PagesSettled ==
    /\ fan.pc = "page" /\ \A m \in Members : fan.task[m] \in {"none", "done", "failed"}
    /\ \/ MayStamp /\ dispatch' = [dispatch EXCEPT !.completed = TRUE] /\ UNCHANGED lostStamps
       \/ MayStamp /\ lostStamps < MaxLostStamps /\ lostStamps' = lostStamps + 1
          /\ UNCHANGED dispatch
       \/ ~MayStamp /\ UNCHANGED <<dispatch, lostStamps>>
    /\ fan' = [fan EXCEPT !.pc = IF fan.audience = {} THEN "done" ELSE "schedule",
                          !.unscheduled = fan.audience]
    /\ UNCHANGED <<eligible, changes, receipt, page, rostered, voice, tones, preempted>>

-----------------------------------------------------------------------------
(* scheduleRealtimeFanOutEscalation, attempted even when pages failed.     *)

\* The roster row is seeded, then the member's voice escalation is scheduled.
ScheduleMember(m) ==
    /\ fan.pc = "schedule" /\ m \in fan.unscheduled
    /\ \E seeded, scheduled \in BOOLEAN :
          /\ scheduled => seeded
          /\ rostered' = IF seeded THEN rostered \cup {m} ELSE rostered
          /\ voice' = IF scheduled THEN voice \cup {m} ELSE voice
          /\ fan' = [fan EXCEPT !.unscheduled = @ \ {m}, !.scheduleFailed = @ \/ ~scheduled]
    /\ UNCHANGED <<dispatch, eligible, changes, receipt, page, tones, preempted, lostStamps>>

\* The ladder follows only when every member is scheduled; each of its schedules may fail.
LadderCreated == IF fan.scheduleFailed THEN {{}} ELSE {{}, {2}, {2, 3}}

\* The first failure is thrown at the end.
SwallowScheduling(failed) == PagesFailed   \* mutant: a scheduling error is only logged
Fails(failed) == PagesFailed \/ failed

ScheduleLadder ==
    /\ fan.pc = "schedule" /\ fan.unscheduled = {}
    /\ \E created \in LadderCreated :
          /\ tones' = tones \cup created
          /\ fan' = IF Fails(fan.scheduleFailed \/ created # {2, 3})
                    THEN Retried ELSE [fan EXCEPT !.pc = "done"]
    /\ UNCHANGED <<dispatch, eligible, changes, receipt, page, rostered, voice, preempted,
                   lostStamps>>

\* Any other call throws, or the invocation is killed by its timeout.
FanOutThrows ==
    /\ fan.pc \in {"audience", "count", "page", "schedule"}
    /\ fan' = Retried
    /\ UNCHANGED <<dispatch, eligible, changes, receipt, page, rostered, voice, tones, preempted,
                   lostStamps>>

FanOutStep ==
    \/ ResolveAudience \/ StartAttempt \/ PagesSettled \/ ScheduleLadder
    \/ \E m \in Members : ClaimReceipt(m) \/ PublishPage(m) \/ MarkSent(m) \/ ScheduleMember(m)

FanOutFault == FanOutThrows \/ \E m \in Members : TaskFails(m)

FanOutNext ==
    \/ RecordArrives /\ UNCHANGED <<dispatch, eligible, changes, receipt, page, rostered, voice,
                                    tones, preempted, lostStamps>>
    \/ FanOutStep \/ FanOutFault
    \/ \E m \in Members : ChangeEligibility(m)

FanOutSpec == FanOutInit /\ [][FanOutNext]_fanOutVars
-----------------------------------------------------------------------------
FanType ==
    [pc : {"waiting", "audience", "count", "page", "schedule", "done", "givenUp"},
     attempt : 1 .. MaxAttempts, audience : SUBSET Members, firstPass : BOOLEAN,
     revision : Nat, task : [Members -> Tasks], unscheduled : SUBSET Members,
     scheduleFailed : BOOLEAN]

\* Every variable holds what the items and the invocation of the fan-out can hold.
FanOutTypeOK ==
    /\ dispatch \in [attempts : 0 .. MaxAttempts, completed : BOOLEAN, revision : Nat]
    /\ eligible \subseteq Members /\ changes \in 0 .. MaxChanges
    /\ fan \in FanType
    /\ receipt \in [Members -> {"none", "claimed", "sent"}]
    /\ page \in [Members -> Nat \cup {NoPage}]
    /\ rostered \subseteq Members /\ voice \subseteq Members /\ tones \subseteq {2, 3}
    /\ preempted \in BOOLEAN /\ lostStamps \in 0 .. MaxLostStamps

\* A record that is checkpointed has done everything for the audience it read: every reachable
\* member's page was accepted and marked sent, everybody is on the roster with a voice
\* escalation, and both later tones are scheduled - whatever failed in the attempts before.
SuccessMeansComplete ==
    fan.pc = "done" /\ fan.audience # {} =>
       /\ \A m \in fan.audience \cap Reachable : receipt[m] = "sent" /\ page[m] # NoPage
       /\ fan.audience \subseteq rostered \cap voice
       /\ tones = {2, 3}

\* fanOutCompletedAt is stamped only when the pages of the attempt's whole audience went out.
StampWaitsForPages ==
    [][dispatch'.completed /\ ~dispatch.completed =>
          \A m \in fan.audience \cap Reachable : receipt[m] = "sent"]_fanOutVars

\* The alarm for a pre-empted tone-1 page is never raised by the fan-out's own retries.
PreemptionAlarmIsTrue == ~preempted

\* A tone is scheduled only when everybody of the audience that schedules it is on the roster the
\* tone's predicate will read, with a voice escalation of their own: the ladder never counts the
\* answers of a roster that is missing members.
LadderSeesItsRoster ==
    [][tones' # tones => fan.audience \subseteq rostered \cap voice]_fanOutVars
=============================================================================
