------------------------------ MODULE Answers ------------------------------
(***************************************************************************)
(* The roster of one dispatch: the rows the fan-out seeds, the answers     *)
(* that recordResponse (responses/repository.ts) puts on them, and the     *)
(* voice escalation (escalation/escalationHandler.ts) that reads them.     *)
(*                                                                         *)
(* Answers are numbered in the order in which they were given, so a number *)
(* stands for answeredAtMs; two answers within one millisecond and an      *)
(* answer with a clock ahead of the server's are left out.  An answer id   *)
(* is never used for two different answers: the phone makes a new one.     *)
(* A post is one POST of an answer: a request and the invocation it        *)
(* starts, which runs on when its client has stopped waiting.              *)
(***************************************************************************)
EXTENDS Integers, FiniteSets

CONSTANTS
    Members,      \* the members paged
    NoOne,        \* no member: a request without an accepted token
    MaxAnswers,   \* bound on the answers given
    MaxPosts,     \* bound on the posts under way at once
    MaxFailures,  \* bound on the invocations that fail
    Calls,        \* invocations of the voice escalation handler
    Callee,       \* the member each of them is for
    MaxAttempts,  \* attempts of one (1 + maximumRetryAttempts)
    MaxLeaves     \* bound on members becoming inactive

ASSUME AnswersConstants ==
    /\ NoOne \notin Members
    /\ MaxAnswers \in Nat /\ MaxPosts \in Nat /\ MaxFailures \in Nat /\ MaxLeaves \in Nat
    /\ MaxAttempts \in Nat \ {0} /\ Callee \in [Calls -> Members]

Answers == 1..MaxAnswers
Posts   == 1..MaxPosts
NoRow   == -1   \* no roster row
None    == 0    \* a row with ackStatus NONE

VARIABLES
    roster,     \* each member's row: the answer on it, and its currentChannelTier
    guard,      \* each member's RESPONSEKEY# of an answer: absent, or the outcome it holds
    confirmed,  \* alerting.response.confirmed rows written for an answer
    active,     \* the members the eligibility snapshot holds as active
    post,       \* the posts
    failures,   \* invocations of any handler that failed
    call,       \* the invocations of the voice escalation handler
    published,  \* members whose escalation the topic accepted
    escalated   \* members with an ESCALATION event and its receipt

answersVars == <<roster, guard, confirmed, active, post, failures, call, published, escalated>>

NoPost == [pc |-> "none", answer |-> None, sub |-> NoOne, outcome |-> "none"]

AnswersInit ==
    /\ roster = [m \in Members |-> [answer |-> NoRow, tier |-> "none"]]
    /\ guard = [m \in Members |-> [a \in Answers |-> "absent"]]
    /\ confirmed = [a \in Answers |-> 0]
    /\ active = Members
    /\ post = [p \in Posts |-> NoPost]
    /\ failures = 0
    /\ call = [c \in Calls |-> [pc |-> "none", attempt |-> 1]]
    /\ published = {} /\ escalated = {}

-----------------------------------------------------------------------------
(* Recording an answer.                                                    *)

\* A new post of the answer, with the token of sub; nobody waits for one already answered.
IsFree(p) == post[p].pc \in {"none", "answered"}
Post(p, a, sub) ==
    /\ IsFree(p) /\ \A q \in Posts : q < p => ~IsFree(q)
    /\ post' = [post EXCEPT ![p] = [pc |-> "sent", answer |-> a, sub |-> sub,
                                    outcome |-> "none"]]

Answered(p, outcome) ==
    post' = [post EXCEPT ![p].pc = "answered", ![p].outcome = outcome]

\* The authorizer, then the reads of the dispatch and of the member's snapshot.
CheckMember(p) ==
    /\ post[p].pc = "sent"
    /\ IF post[p].sub = NoOne THEN Answered(p, "unauthorized")
       ELSE IF post[p].sub \notin active THEN Answered(p, "ineligible")
       ELSE post' = [post EXCEPT ![p].pc = "write"]
    /\ UNCHANGED <<roster, guard, confirmed, active, failures, call, published, escalated>>

\* One transaction: the replay guard, the record and its row for the platform bus.
GuardIsIgnored(m, a) == TRUE   \* mutant: the guard is put without its condition
GuardIsFree(m, a) == guard[m][a] = "absent"

WriteAnswer(p) ==
    LET m == post[p].sub
        a == post[p].answer
    IN  /\ post[p].pc = "write"
        /\ IF GuardIsFree(m, a)
           THEN /\ guard' = [guard EXCEPT ![m][a] = "open"]
                /\ confirmed' = [confirmed EXCEPT ![a] = @ + 1]
                /\ post' = [post EXCEPT ![p].pc = "apply"]
           ELSE post' = [post EXCEPT ![p].pc = "replay"] /\ UNCHANGED <<guard, confirmed>>
        /\ UNCHANGED <<roster, active, failures, call, published, escalated>>

\* A replay is answered with the outcome its guard holds, and applied again if there is none.
Reapplied(known) == known = "open"

ReadGuard(p) ==
    LET known == guard[post[p].sub][post[p].answer]
    IN  /\ post[p].pc = "replay"
        /\ IF Reapplied(known) THEN post' = [post EXCEPT ![p].pc = "apply"]
                             ELSE Answered(p, known)
        /\ UNCHANGED <<roster, guard, confirmed, active, failures, call, published, escalated>>

\* Last answer wins on the live roster; the row gets a tier if it has none.
LatestToArriveWins(shown, a) == TRUE   \* mutant: no condition on the roster update
StrictlyNewer(shown, a) == a > shown   \* mutant: an answer already shown does not re-apply
IsCurrent(shown, a) == a >= shown
Tiered(tier) == IF tier = "none" THEN "primary" ELSE tier

ApplyToRoster(p) ==
    LET m == post[p].sub
        a == post[p].answer
    IN  /\ post[p].pc = "apply"
        /\ IF IsCurrent(roster[m].answer, a)
           THEN /\ roster' = [roster EXCEPT ![m] = [answer |-> a, tier |-> Tiered(@.tier)]]
                /\ post' = [post EXCEPT ![p].pc = "remember", ![p].outcome = "applied"]
           ELSE /\ post' = [post EXCEPT ![p].pc = "remember", ![p].outcome = "superseded"]
                /\ UNCHANGED roster
        /\ UNCHANGED <<guard, confirmed, active, failures, call, published, escalated>>

\* The outcome is put on the guard, a failure of which is only logged, and answered.
RecordGuardOutcome(p) ==
    /\ post[p].pc = "remember"
    /\ \/ guard' = [guard EXCEPT ![post[p].sub][post[p].answer] = post[p].outcome]
          /\ UNCHANGED failures
       \/ failures < MaxFailures /\ failures' = failures + 1 /\ UNCHANGED guard
    /\ Answered(p, post[p].outcome)
    /\ UNCHANGED <<roster, confirmed, active, call, published, escalated>>

\* A call of the invocation fails or it dies; what it wrote before stays.
PostFails(p) ==
    /\ post[p].pc \in {"sent", "write", "replay", "apply", "remember"}
    /\ failures < MaxFailures /\ failures' = failures + 1
    /\ Answered(p, "unavailable")
    /\ UNCHANGED <<roster, guard, confirmed, active, call, published, escalated>>

-----------------------------------------------------------------------------
(* The fan-out's seed and the snapshot.                                    *)

\* Every attribute only if the row does not have it.
Seeded(row) ==
    [answer |-> IF row.answer = NoRow THEN None ELSE row.answer, tier |-> Tiered(row.tier)]

\* A pass of the fan-out seeds the member's row, then schedules the member's escalation; a pass
\* that runs after the first schedule fired and was deleted schedules another.
ScheduleEscalation(c) ==
    /\ call[c].pc = "none"
    /\ roster' = [roster EXCEPT ![Callee[c]] = Seeded(@)]
    /\ call' = [call EXCEPT ![c].pc = "scheduled"]
    /\ UNCHANGED <<guard, confirmed, active, post, failures, published, escalated>>

\* The member is retired or on leave.
Leave(m) ==
    /\ m \in active /\ Cardinality(Members \ active) < MaxLeaves
    /\ active' = active \ {m}
    /\ UNCHANGED <<roster, guard, confirmed, post, failures, call, published, escalated>>

-----------------------------------------------------------------------------
(* The voice escalation of a member who has not answered.                  *)

CallAt(c, pc) == call' = [call EXCEPT ![c].pc = pc]

\* The schedule fires.
ReadRoster(c) ==
    /\ call[c].pc = "scheduled"
    /\ CallAt(c, IF roster[Callee[c]].answer = NoRow THEN "skippedNotFound"
                 ELSE IF roster[Callee[c]].answer # None THEN "skippedAcked"
                 ELSE "eligible")
    /\ UNCHANGED <<roster, guard, confirmed, active, post, failures, published, escalated>>

\* A failed read of the snapshot calls anyway.
IsInactive(c) ==
    /\ call[c].pc = "eligible"
    /\ \/ /\ CallAt(c, IF Callee[c] \in active THEN "publish" ELSE "skippedInactive")
          /\ UNCHANGED failures
       \/ failures < MaxFailures /\ failures' = failures + 1 /\ CallAt(c, "publish")
    /\ UNCHANGED <<roster, guard, confirmed, active, post, published, escalated>>

\* The deduplication id makes a second publish the first.
PublishEscalation(c) ==
    /\ call[c].pc = "publish"
    /\ published' = published \cup {Callee[c]}
    /\ CallAt(c, "record")
    /\ UNCHANGED <<roster, guard, confirmed, active, post, failures, escalated>>

\* One transaction: the event, the receipt unless it is there, and the row's tier.
RecordEscalation(c) ==
    LET m == Callee[c]
    IN  /\ call[c].pc = "record"
        /\ IF m \in escalated
           THEN CallAt(c, "skippedAlready") /\ UNCHANGED <<roster, escalated>>
           ELSE /\ escalated' = escalated \cup {m}
                /\ roster' = [roster EXCEPT ![m].tier = "escalation"]
                /\ CallAt(c, "escalated")
        /\ UNCHANGED <<guard, confirmed, active, post, failures, published>>

\* The handler throws or dies: Lambda runs the event again from the start, or gives it up.
NeverRetried(attempt) == FALSE   \* mutant: the event is not run again
Retried(attempt) == attempt < MaxAttempts

CallFails(c) ==
    /\ call[c].pc \in {"scheduled", "eligible", "publish", "record", "escalated"}
    /\ failures < MaxFailures /\ failures' = failures + 1
    /\ call' = [call EXCEPT ![c] = IF Retried(@.attempt)
                                   THEN [pc |-> "scheduled", attempt |-> @.attempt + 1]
                                   ELSE [@ EXCEPT !.pc = "failed"]]
    /\ UNCHANGED <<roster, guard, confirmed, active, post, published, escalated>>

-----------------------------------------------------------------------------
PostRuns(p) ==
    CheckMember(p) \/ WriteAnswer(p) \/ ReadGuard(p) \/ ApplyToRoster(p) \/ RecordGuardOutcome(p)
CallRuns(c) == ReadRoster(c) \/ IsInactive(c) \/ PublishEscalation(c) \/ RecordEscalation(c)

RosterStep ==
    \/ \E p \in Posts : PostRuns(p) \/ PostFails(p)
    \/ \E m \in Members : Leave(m)
    \/ \E c \in Calls : ScheduleEscalation(c) \/ CallRuns(c) \/ CallFails(c)

-----------------------------------------------------------------------------
Outcomes == {"applied", "superseded"}

AnswersTypeOK ==
    /\ roster \in [Members -> [answer : {NoRow, None} \cup Answers,
                               tier : {"none", "primary", "escalation"}]]
    /\ guard \in [Members -> [Answers -> {"absent", "open"} \cup Outcomes]]
    /\ confirmed \in [Answers -> Nat]
    /\ active \subseteq Members
    /\ post \in [Posts -> [pc : {"none", "sent", "write", "replay", "apply", "remember", "answered"},
                           answer : {None} \cup Answers, sub : Members \cup {NoOne},
                           outcome : {"none", "unauthorized", "ineligible", "unavailable"}
                                     \cup Outcomes]]
    /\ failures \in 0..MaxFailures
    /\ call \in [Calls -> [pc : {"none", "scheduled", "eligible", "publish", "record", "escalated",
                                 "skippedNotFound", "skippedAcked", "skippedInactive",
                                 "skippedAlready", "failed"},
                           attempt : 1..MaxAttempts]]
    /\ published \subseteq Members /\ escalated \subseteq Members

\* However often an answer is posted, and whichever of its posts die half way, the platform bus
\* hears of it once (writeAnswer's guard at index 0 of the transaction).
ConfirmedOnce == \A a \in Answers : confirmed[a] <= 1

\* The outcome a post is about to answer, or a guard keeps for its replays, is true of the
\* roster: an applied answer shows, or one given later does; a superseded one is older than
\* what shows (applyToRoster, recordGuardOutcome, replayAnswer).
TrueOf(outcome, m, a) ==
    /\ outcome = "applied" => roster[m].answer >= a
    /\ outcome = "superseded" => roster[m].answer > a
OutcomeIsTrue ==
    /\ \A m \in Members, a \in Answers : TrueOf(guard[m][a], m, a)
    /\ \A p \in Posts : TrueOf(post[p].outcome, post[p].sub, post[p].answer)

\* The row never returns to an older answer, nor to none: not by a replay, a late invocation
\* or the fan-out's seed of a row that an answer made first.
RosterNeverGoesBack == [][\A m \in Members : roster'[m].answer >= roster[m].answer]_answersVars

\* The row of a member says escalation exactly when the escalation is recorded, whatever the
\* order of the seed, the answer and the escalation, each of which writes the row; and a row
\* that exists has a tier, without which the escalation handler cannot read it.
TierFollowsEscalation ==
    \A m \in Members : /\ roster[m].tier = "escalation" <=> m \in escalated
                       /\ roster[m].tier = "none" <=> roster[m].answer = NoRow

\* A recorded escalation has been published: no retry is told "already escalated" of a call that
\* was never placed (the order escalationHandler.ts insists on).
EscalationWasPublished == escalated \subseteq published

=============================================================================
