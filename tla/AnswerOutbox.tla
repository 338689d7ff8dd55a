---------------------------- MODULE AnswerOutbox ----------------------------
(***************************************************************************)
(* The phone's offline outbox (ui/apps/mobile/src/sync) as it carries the  *)
(* answers to one dispatch: syncManager.ts queues each answer as a row and *)
(* drains the rows, one POST at a time, in the session of the member who   *)
(* is signed in.  The rows outlive the process, which may be killed at any *)
(* point; the network may lose a request or its answer; members may sign   *)
(* out and in on the one phone.  The server is module Answers.             *)
(*                                                                         *)
(* A row is stamped and inserted in one step, and answers are queued in    *)
(* the order in which they are given: a tap comes seconds after the one    *)
(* before, and the storage it waits for answers within milliseconds.  So   *)
(* an answer's number stands for its row's queuedAt too.                   *)
(***************************************************************************)
EXTENDS Answers

CONSTANTS
    MaxFaults,     \* bound on timeouts and killed processes
    MaxSignOuts,   \* bound on sign-outs
    MaxUnread      \* bound on answers given while the keychain cannot be read

ASSUME AnswerOutboxConstants == MaxFaults \in Nat /\ MaxSignOuts \in Nat /\ MaxUnread \in Nat

VARIABLES
    session,     \* the member whose tokens the keychain and whose id LAST_SESSION_SUB_KEY hold
    configured,  \* the member of the session that configure() was last given, or NoOne
    author,      \* who gave an answer; NoOne: not given yet
    row,         \* the rows of the outbox
    dropping,    \* the older rows that an answer being queued is about to discard
    drain,       \* the drain
    recovered,   \* recoveredOrphans
    synced,      \* recentlySynced: the answers the member is told are sent
    told,        \* what the server's answer has told the phone of an answer
    discarded,   \* rows discarded at a sign-out, on the member's word
    faults,      \* timeouts and kills so far
    signOuts     \* sign-outs so far

who     == <<session, configured, author, signOuts>>
process == <<drain, recovered>>
results == <<synced, told, discarded>>
phoneVars == <<who, row, dropping, process, results, faults>>
vars == <<answersVars, phoneVars>>

Absent == [status |-> "absent", owner |-> NoOne, hint |-> NoOne]
NotDropping == [pc |-> "no", rows |-> {}]
NotDraining == [pc |-> "idle", owner |-> NoOne, pinned |-> FALSE, attempted |-> {},
                row |-> None, post |-> None]

Init ==
    /\ AnswersInit
    /\ session \in Members /\ configured = NoOne
    /\ author = [a \in Answers |-> NoOne]
    /\ row = [a \in Answers |-> Absent]
    /\ dropping = [a \in Answers |-> NotDropping]
    /\ drain = NotDraining /\ recovered = FALSE
    /\ synced = {} /\ told = [a \in Answers |-> "nothing"] /\ discarded = {}
    /\ faults = 0 /\ signOuts = 0

Fault == faults < MaxFaults /\ faults' = faults + 1

Rows == {a \in Answers : row[a].status # "absent"}
Removed(gone) ==   \* what a row said of its owner is still known to who holds it
    [a \in Answers |-> IF a \in gone THEN [row[a] EXCEPT !.status = "absent"] ELSE row[a]]
Marked(a, status) == IF a \in Rows THEN [row EXCEPT ![a].status = status] ELSE row

-----------------------------------------------------------------------------
(* Giving an answer.                                                       *)

\* Equal owners, or an ownerless row answered as the other's owner.
AnyOwner(a, b) == TRUE   \* mutant: the owner is not compared
SameOwner(a, b) ==
    \/ row[a].owner = row[b].owner
    \/ row[a].owner = NoOne /\ row[a].hint # NoOne /\ row[a].hint = row[b].owner
    \/ row[b].owner = NoOne /\ row[b].hint # NoOne /\ row[b].hint = row[a].owner

OlderSiblings(a) == {b \in Rows : b < a /\ SameOwner(a, b)}
IsSuperseded(a) == \E b \in Rows : b > a /\ SameOwner(a, b)

\* The row is stamped with the configured session's member, else the stored session's; when
\* the keychain cannot be read it is left without an owner, with the hint.
Stamp(owner) == [status |-> "QUEUED", owner |-> owner,
                 hint |-> IF owner = NoOne THEN session ELSE NoOne]

Unowned == {a \in Answers : author[a] # NoOne /\ row[a].owner = NoOne}

EnqueueResponse(a) ==
    /\ session # NoOne /\ author[a] = NoOne /\ \A b \in Answers : b < a => author[b] # NoOne
    /\ author' = [author EXCEPT ![a] = session]
    /\ \/ row' = [row EXCEPT ![a] = Stamp(IF configured # NoOne THEN configured ELSE session)]
       \/ /\ configured = NoOne /\ Cardinality(Unowned) < MaxUnread
          /\ row' = [row EXCEPT ![a] = Stamp(NoOne)]
    /\ dropping' = [dropping EXCEPT ![a].pc = IF \E b \in Rows : b < a THEN "list" ELSE "no"]
    /\ UNCHANGED <<answersVars, session, configured, signOuts, process, results, faults>>

\* olderSiblings, of which those not being sent when it read them are then discarded.
ListOlder(a) ==
    /\ dropping[a].pc = "list"
    /\ dropping' = [dropping EXCEPT
                      ![a] = [pc |-> "discard",
                              rows |-> {b \in OlderSiblings(a) : row[b].status # "SYNCING"}]]
    /\ UNCHANGED <<answersVars, who, row, process, results, faults>>

DiscardOlder(a) ==
    /\ dropping[a].pc = "discard"
    /\ row' = Removed(dropping[a].rows)
    /\ dropping' = [dropping EXCEPT ![a] = NotDropping]
    /\ UNCHANGED <<answersVars, who, process, results, faults>>

-----------------------------------------------------------------------------
(* The session.                                                            *)

\* configure() with the session the app shows; a drain that is under way is not its drain.
Configure ==
    /\ configured # session
    /\ configured' = session
    /\ drain' = [drain EXCEPT !.pinned = FALSE]
    /\ UNCHANGED <<answersVars, session, author, signOuts, row, dropping, recovered, results, faults>>

\* The hint and the keychain are cleared; before, the member may have had the unsent rows
\* discarded. The bounded drain at a sign-out is a drain under way.
SignOut ==
    /\ session # NoOne /\ configured = session
    /\ signOuts < MaxSignOuts /\ signOuts' = signOuts + 1
    /\ session' = NoOne
    /\ LET unsent == {a \in Rows : row[a].owner = session}
       IN  \/ UNCHANGED <<row, discarded>>
           \/ unsent # {} /\ row' = Removed(unsent) /\ discarded' = discarded \cup unsent
    /\ UNCHANGED <<answersVars, configured, author, dropping, process, synced, told, faults>>

\* A sign-in takes the member through the browser: configure(null) has run by then.
SignIn(m) ==
    /\ session = NoOne /\ configured = NoOne
    /\ session' = m
    /\ UNCHANGED <<answersVars, configured, author, signOuts, row, dropping, process, results, faults>>

\* The process is killed. The rows and the keychain stay.
Kill ==
    /\ configured # NoOne
    /\ Fault
    /\ configured' = NoOne /\ drain' = NotDraining /\ recovered' = FALSE
    /\ dropping' = [a \in Answers |-> NotDropping]
    /\ UNCHANGED <<answersVars, session, author, signOuts, row, results>>

-----------------------------------------------------------------------------
(* The drain.                                                              *)

NothingRecovered(rows) == row   \* mutant: rows a killed process was sending stay SYNCING
Recovered(rows) ==
    [a \in Answers |-> IF row[a].status = "SYNCING" THEN [row[a] EXCEPT !.status = "QUEUED"]
                                                    ELSE row[a]]

\* One run at a time, pinned to the session configured when it starts; the first of a process
\* takes back the rows the last process was sending.
StartDrain ==
    /\ drain.pc = "idle" /\ configured # NoOne
    /\ drain' = [NotDraining EXCEPT !.pc = "next", !.owner = configured, !.pinned = TRUE]
    /\ row' = IF recovered THEN row ELSE Recovered(row)
    /\ recovered' = TRUE
    /\ UNCHANGED <<answersVars, who, dropping, results, faults>>

\* The signed-in member's own rows, and the ownerless ones answered as that member.
SendableBy(a, m) ==
    row[a].owner = m \/ (row[a].owner = NoOne /\ row[a].hint = m)
Drainable(m) == {a \in Rows : SendableBy(a, m) /\ row[a].status \in {"QUEUED", "FAILED"}}

NextRow ==
    LET pending == Drainable(drain.owner) \ drain.attempted
    IN  /\ drain.pc = "next"
        /\ IF drain.pinned /\ pending # {}
           THEN \E oldest \in pending :
                   /\ \A a \in pending : oldest <= a
                   /\ drain' = [drain EXCEPT !.pc = "check", !.row = oldest,
                                             !.attempted = @ \cup {oldest}]
           ELSE drain' = NotDraining
        /\ UNCHANGED <<answersVars, who, row, dropping, recovered, results, faults>>

NextPass == [drain EXCEPT !.pc = "next", !.row = None, !.post = None]

\* Read again: it may be gone, or a newer answer may have been queued.
CheckRow ==
    LET a == drain.row
    IN  /\ drain.pc = "check"
        /\ IF a \in Rows /\ ~IsSuperseded(a)
           THEN drain' = [drain EXCEPT !.pc = "claim"] /\ UNCHANGED row
           ELSE drain' = NextPass /\ row' = Removed({a})
        /\ UNCHANGED <<answersVars, who, dropping, recovered, results, faults>>

ClaimForSync ==
    LET a == drain.row
    IN  /\ drain.pc = "claim"
        /\ IF a \in Rows
           THEN drain' = [drain EXCEPT !.pc = "post"] /\ row' = Marked(a, "SYNCING")
           ELSE drain' = NextPass /\ UNCHANGED row
        /\ UNCHANGED <<answersVars, who, dropping, recovered, results, faults>>

\* processEntry finds the row once more: of one that is gone it sends nothing, and returns. The
\* pinned source yields a token only while the keychain holds the run's member.
AnyToken == session     \* mutant: the token is whatever session the phone holds
PinnedToken == IF session = drain.owner THEN session ELSE NoOne

PostRow ==
    LET a == drain.row
    IN  /\ drain.pc = "post"
        /\ IF a \notin Rows
           THEN /\ drain' = NextPass /\ synced' = synced \cup {a}
                /\ UNCHANGED post
           ELSE /\ \E p \in Posts : /\ Post(p, a, PinnedToken)
                                     /\ drain' = [drain EXCEPT !.pc = "wait", !.post = p]
                /\ UNCHANGED synced
        /\ UNCHANGED <<roster, guard, confirmed, active, failures, call, published, escalated,
                       who, row, dropping, recovered, told, discarded, faults>>

\* 200: the row is delivered. A 409 or a 403: it is refused for good. Else it waits and is
\* sent again.
ReceiveAnswer ==
    LET a == drain.row
        outcome == post[drain.post].outcome
    IN  /\ drain.pc = "wait" /\ post[drain.post].pc = "answered"
        /\ drain' = NextPass
        /\ post' = [post EXCEPT ![drain.post] = NoPost]
        /\ \/ /\ outcome = "applied"
              /\ row' = Removed({a}) /\ synced' = synced \cup {a}
              /\ told' = [told EXCEPT ![a] = outcome]
           \/ /\ outcome \in {"superseded", "ineligible"}
              /\ row' = Marked(a, "REJECTED") /\ told' = [told EXCEPT ![a] = outcome]
              /\ UNCHANGED synced
           \/ /\ outcome \in {"unauthorized", "unavailable"}
              /\ row' = Marked(a, "BACKOFF") /\ UNCHANGED <<synced, told>>
        /\ UNCHANGED <<roster, guard, confirmed, active, failures, call, published, escalated,
                       who, dropping, recovered, discarded, faults>>

\* No answer within the limit: the request or its answer is lost, or still under way.
TimeOut ==
    /\ drain.pc = "wait"
    /\ Fault
    /\ drain' = NextPass /\ row' = Marked(drain.row, "BACKOFF")
    /\ UNCHANGED <<answersVars, who, dropping, recovered, results>>

BackoffEnds(a) ==
    /\ row[a].status = "BACKOFF"
    /\ row' = Marked(a, "FAILED")
    /\ UNCHANGED <<answersVars, who, dropping, process, results, faults>>

-----------------------------------------------------------------------------
DrainStep == StartDrain \/ NextRow \/ CheckRow \/ ClaimForSync \/ PostRow \/ ReceiveAnswer

PhoneStep ==
    \/ DrainStep \/ TimeOut \/ Configure \/ SignOut \/ Kill
    \/ \E m \in Members : SignIn(m)
    \/ \E a \in Answers : EnqueueResponse(a) \/ ListOlder(a) \/ DiscardOlder(a) \/ BackoffEnds(a)

Next ==
    \/ PhoneStep
    \/ RosterStep /\ UNCHANGED phoneVars

Spec == Init /\ [][Next]_vars

\* The retry timer, the network listener and the app coming forward start the drain and every
\* step of it is awaited with a limit; an invocation runs to its end; Lambda runs an event
\* again. Nobody need answer, sign out or back in, and nothing need fail.
Fairness ==
    /\ WF_vars(DrainStep) /\ WF_vars(Configure)
    /\ \A a \in Answers : WF_vars(ListOlder(a) \/ DiscardOlder(a)) /\ WF_vars(BackoffEnds(a))
    /\ \A p \in Posts : WF_vars(PostRuns(p) /\ UNCHANGED phoneVars)
    /\ \A c \in Calls : WF_vars(CallRuns(c) /\ UNCHANGED phoneVars)
FairSpec == Spec /\ Fairness

-----------------------------------------------------------------------------

\* No answer is recorded as another member's than the one who gave it, on a phone whose members
\* sign out and in while a drain is under way (R2-M3, R4-M1, R5-M1).
RecordedAsItsAuthor ==
    \A m \in Members, a \in Answers : guard[m][a] # "absent" => author[a] = m

\* What the phone has been told of an answer is still true of its author's row when it hears it.
ToldTheTruth == \A a \in Answers : TrueOf(told[a], author[a], a)

\* A member's newest answer is never lost: until it is recorded it is on the phone, unless its
\* author has had the unsent rows discarded.
NewestAnswerIsKept ==
    \A a \in Answers :
        \/ author[a] = NoOne \/ a \in Rows \/ a \in discarded \/ confirmed[a] > 0
        \/ \E b \in Answers : b > a /\ author[b] = author[a]

\* An answer given comes to show on the roster, or a later one does, or the phone is told that it
\* is refused: through timeouts, failed invocations and a killed process, as long as its author
\* stays signed in.
AnswerSettles ==
    \A a \in Answers, m \in Members :
        (author[a] = m) ~> (roster[m].answer >= a \/ session # m \/ \E b \in Answers : b >= a /\ told[b] = "ineligible")

\* A scheduled escalation comes to a call, unless the member answers or leaves.
UnansweredIsCalled ==
    \A c \in Calls :
        (call[c].pc = "scheduled") ~> \/ Callee[c] \in published \cup (Members \ active)
                                      \/ roster[Callee[c]].answer > None
=============================================================================
