--------------------------- MODULE NerisSubmission ---------------------------
(***************************************************************************)
(* How one incident report reaches NERIS, the federal registry: officers   *)
(* edit, review, lock and unlock it and ask for it to be sent; worker      *)
(* invocations build its payload, check it once more, and create, adopt or *)
(* replace the record NERIS holds.  Requests and retries wait as jobs, by  *)
(* retry count, and are delivered at least once; an invocation may die     *)
(* between any two of its calls.                                           *)
(*                                                                         *)
(* NERIS is external: the id of a record is fixed by its report, so there  *)
(* is at most one, a second create is refused, and any answer may be lost. *)
(***************************************************************************)
EXTENDS Naturals

CONSTANTS
    Workers,        \* worker invocations that may run at once
    MaxVersion,     \* bound: edits of the report
    Acceptable,     \* the versions NERIS finds valid
    MaxRequests,    \* bound: sends asked for by officers
    MaxRetries,     \* MAX_SUBMISSION_RETRIES
    MaxFaults,      \* bound: invocations that die and deliveries that repeat
    None            \* an attribute the row does not have

Versions == 0 .. MaxVersion

ASSUME BoundsAssumption ==
    /\ MaxVersion \in Nat /\ MaxRequests \in Nat /\ MaxRetries \in Nat /\ MaxFaults \in Nat
    /\ Acceptable \subseteq Versions
    /\ None \notin Versions

VARIABLES
    row,        \* the report's METADATA row
    watched,    \* the report is on the status poller's work list
    reviewed,   \* the versions an officer has locked (history)
    jobs,       \* invocations of the worker that wait, by retryCount
    worker,     \* the worker invocations
    neris,      \* the record NERIS holds
    requests, faults

vars == <<row, watched, reviewed, jobs, worker, neris, requests, faults>>

Idle == [pc |-> "idle", retry |-> 0, payload |-> <<0, 0>>, knew |-> FALSE, pending |-> FALSE,
         outcome |-> None]

Init ==
    /\ row = [status |-> "DRAFT", version |-> 0, lockedVersion |-> None,
              submission |-> None, quiet |-> FALSE, known |-> FALSE, nerisStatus |-> None,
              pending |-> FALSE, previous |-> FALSE, missing |-> FALSE, checks |-> 0,
              accepted |-> None]
    /\ watched = FALSE
    /\ reviewed = {}
    /\ jobs = [n \in 0 .. MaxRetries |-> 0]
    /\ worker = [w \in Workers |-> Idle]
    /\ neris = [held |-> FALSE, listed |-> FALSE, content |-> None, status |-> None]
    /\ requests = 0
    /\ faults = 0

------------------------------------------------------------------------------
(* Officers.  Every write is conditioned on the row it reads. *)

Locked == row.lockedVersion # None

Sending == row.submission \in {"SUBMITTED", "RETRYING"}

\* Mutant: a send that is never finished stays in flight.
InFlightForEver == Sending

\* A send without activity for an hour is not in flight any more (STALE_IN_FLIGHT_MS).
InFlight == Sending /\ ~row.quiet

\* A request queues one invocation with retryCount 0.
Request ==
    /\ requests < MaxRequests
    /\ requests' = requests + 1
    /\ jobs' = [jobs EXCEPT ![0] = @ + 1]

\* Core fields, narrative, unit times, modules and staffing: refused on a locked report, and
\* each raises the content version in its own transaction.  Assumed: a change of staffing that
\* finds no report, and is then written without either, lands before the report is locked
\* (ridingAssignmentConsumer.ts: the test and the write are one short invocation).
Edit ==
    /\ ~Locked
    /\ row.version < MaxVersion
    /\ \E status \in {row.status, "VALIDATED"} :
          row' = [row EXCEPT !.version = @ + 1, !.status = status]
    /\ UNCHANGED <<watched, reviewed, jobs, worker, neris, requests, faults>>

LockFree(v) == ~Locked /\ row.version = v /\ ~InFlight

\* The officer read and validated version v, perhaps before later edits; a department may have
\* the lock submit the report too.
Lock(v, submit) ==
    /\ LockFree(v)
    /\ row' = [row EXCEPT !.lockedVersion = v,
                          !.status = IF submit THEN "SUBMITTED" ELSE "VALIDATED",
                          !.submission = IF submit THEN "SUBMITTED" ELSE @,
                          !.quiet = @ /\ ~submit]
    /\ reviewed' = reviewed \cup {v}
    /\ IF submit THEN Request ELSE UNCHANGED <<jobs, requests>>
    /\ UNCHANGED <<watched, worker, neris, faults>>

Unlock ==
    /\ Locked
    /\ ~InFlight
    /\ row' = [row EXCEPT !.lockedVersion = None, !.status = "DRAFT"]
    /\ UNCHANGED <<watched, reviewed, jobs, worker, neris, requests, faults>>

Queued(status) == [row EXCEPT !.status = status, !.submission = "SUBMITTED", !.quiet = FALSE]

\* enqueueSubmission: the first send, or the next one of a record NERIS no longer has.
Submit ==
    /\ Locked
    /\ row.status = "VALIDATED"
    /\ ~row.known \/ row.missing
    /\ ~InFlight
    /\ row' = Queued("SUBMITTED")
    /\ Request
    /\ UNCHANGED <<watched, reviewed, worker, neris, faults>>

\* The officer is told UNCHANGED when NERIS accepted this content last.
Unchanged == row.accepted = <<row.version, row.version>> /\ ~row.missing

Resubmit ==
    /\ Locked
    /\ row.known
    /\ ~Unchanged
    /\ ~InFlight
    /\ row' = Queued("SUBMITTED")
    /\ Request
    /\ UNCHANGED <<watched, reviewed, worker, neris, faults>>

Retry ==
    /\ Locked
    /\ row.submission = "FAILED" \/ (Sending /\ row.quiet)
    /\ row' = [row EXCEPT !.submission = "RETRYING", !.quiet = FALSE]
    /\ Request
    /\ UNCHANGED <<watched, reviewed, worker, neris, faults>>

\* An hour without an attempt: an invocation is over after 90 s.
AnHourPasses ==
    /\ InFlight
    /\ \A w \in Workers : worker[w].pc = "idle"
    /\ row' = [row EXCEPT !.quiet = TRUE]
    /\ UNCHANGED <<watched, reviewed, jobs, worker, neris, requests, faults>>

------------------------------------------------------------------------------
(* One invocation of the worker (attemptSubmission). *)

\* On to the next call; what the first read said of NERIS is used up by the check.
GoOn(w, pc, outcome) ==
    worker' = [worker EXCEPT ![w] = [Idle EXCEPT !.pc = pc, !.retry = worker[w].retry,
                                                 !.payload = worker[w].payload,
                                                 !.outcome = outcome]]

Goto(w, pc) == GoOn(w, pc, None)

\* The attempt is over, as far as NERIS is concerned, with this outcome.
Settle(w, outcome) == GoOn(w, "append", outcome)

\* A job is delivered and the report read.
Receive(w) ==
    /\ worker[w].pc = "idle"
    /\ \E n \in 0 .. MaxRetries :
          /\ jobs[n] > 0
          /\ jobs' = [jobs EXCEPT ![n] = @ - 1]
          /\ worker' = [worker EXCEPT ![w] =
                 [Idle EXCEPT !.pc = "read", !.retry = n, !.payload = <<row.version, 0>>,
                              !.knew = row.known, !.pending = row.pending]]
    /\ UNCHANGED <<row, watched, reviewed, neris, requests, faults>>

\* The units are read apart from the report; or the department is not set up for NERIS.
Build(w) ==
    /\ worker[w].pc = "read"
    /\ \/ worker' = [worker EXCEPT ![w].pc = "built", ![w].payload = <<@[1], row.version>>]
       \/ Settle(w, "NOT_CONFIGURED")
    /\ UNCHANGED <<row, watched, reviewed, jobs, neris, requests, faults>>

\* Mutant: whatever is locked by now may be sent.
MaySendIfLocked(w) == Locked /\ Sending

\* sendBlockedReason, on the row read once more.
MaySend(w) ==
    /\ Locked
    /\ Sending
    /\ row.version = worker[w].payload[1]
    /\ row.lockedVersion = row.version

\* A create that may have landed before is looked up first.
MayExist(w) == worker[w].pending \/ worker[w].retry > 0

Check(w) ==
    /\ worker[w].pc = "built"
    /\ IF MaySend(w)
         THEN Goto(w, CASE worker[w].knew /\ row.missing -> "forget"
                        [] worker[w].knew /\ ~row.missing -> "put"
                        [] ~worker[w].knew /\ MayExist(w) -> "look"
                        [] OTHER -> "mark")
         ELSE worker' = [worker EXCEPT ![w] = Idle]
    /\ UNCHANGED <<row, watched, reviewed, jobs, neris, requests, faults>>

\* forgetMissingNerisRecord: a record given up on is looked up and created again, unless it was
\* found since.
Forget(w) ==
    /\ worker[w].pc = "forget"
    /\ IF row.known /\ row.missing
         THEN /\ row' = [row EXCEPT !.known = FALSE, !.previous = TRUE, !.nerisStatus = None,
                                    !.pending = FALSE, !.missing = FALSE, !.checks = 0]
              /\ Goto(w, "look")
         ELSE Goto(w, "put") /\ UNCHANGED row
    /\ UNCHANGED <<watched, reviewed, jobs, neris, requests, faults>>

\* adopt(false): a record that is there is replaced; a lookup NERIS refuses counts as not found.
Look(w) ==
    /\ worker[w].pc = "look"
    /\ \/ neris.held /\ neris.status # "DELETED" /\ Goto(w, "put")
       \/ Goto(w, "mark")
       \/ Settle(w, "RETRYABLE")
    /\ UNCHANGED <<row, watched, reviewed, jobs, neris, requests, faults>>

\* Mutant: a create is not marked before it is sent.
MarkNothing(w) ==
    /\ worker[w].pc = "mark"
    /\ Goto(w, "post")
    /\ UNCHANGED <<row, watched, reviewed, jobs, neris, requests, faults>>

\* markCreateInFlight, before the POST.
Mark(w) ==
    /\ worker[w].pc = "mark"
    /\ \/ Goto(w, "post") /\ row' = [row EXCEPT !.pending = TRUE]
       \/ Settle(w, "RETRYABLE") /\ UNCHANGED row
    /\ UNCHANGED <<watched, reviewed, jobs, neris, requests, faults>>

Valid(w) == worker[w].payload[1] \in Acceptable

\* NERIS takes the payload; its answer may be lost.
Taken(w) ==
    /\ neris' = [held |-> TRUE, listed |-> TRUE, content |-> worker[w].payload,
                 status |-> "SUBMITTED"]
    /\ \E outcome \in {"SUCCESS", "RETRYABLE"} : Settle(w, outcome)

\* NERIS does not take it: rate limited, down, or refusing the credentials.
Refused(w) ==
    /\ \E outcome \in {"RETRYABLE", "CLIENT_ERROR"} : Settle(w, outcome)
    /\ UNCHANGED neris

\* A refusal that may mean the record exists (409 or 422) is looked into before it counts.
Post(w) ==
    /\ worker[w].pc = "post"
    /\ \/ ~neris.held /\ Valid(w) /\ Taken(w)
       \/ /\ neris.held \/ ~Valid(w)
          /\ \E outcome \in {"VALIDATION_ERROR"} \cup
                            (IF neris.held THEN {"CLIENT_ERROR"} ELSE {}) :
                GoOn(w, "adopt", outcome)
          /\ UNCHANGED neris
       \/ Refused(w)
    /\ UNCHANGED <<row, watched, reviewed, jobs, requests, faults>>

\* Mutant: a refused create is taken at its word.
RefusalStands(w) ==
    /\ worker[w].pc = "adopt"
    /\ Settle(w, worker[w].outcome)
    /\ UNCHANGED <<row, watched, reviewed, jobs, neris, requests, faults>>

\* adopt(true): a record that is there, even deleted, is replaced; one that is not leaves the
\* refusal standing; a lookup that fails replaces it.
Adopt(w) ==
    /\ worker[w].pc = "adopt"
    /\ \/ neris.held /\ Goto(w, "put")
       \/ ~neris.held /\ Settle(w, worker[w].outcome)
       \/ \E outcome \in {"RETRYABLE", "CLIENT_ERROR"} : Settle(w, outcome)
    /\ UNCHANGED <<row, watched, reviewed, jobs, neris, requests, faults>>

\* replaceIncident; NERIS may take or refuse it for a record it has deleted.
Put(w) ==
    /\ worker[w].pc = "put"
    /\ \/ neris.held /\ Valid(w) /\ Taken(w)
       \/ neris.held /\ ~Valid(w) /\ Settle(w, "VALIDATION_ERROR") /\ UNCHANGED neris
       \/ Refused(w)
    /\ UNCHANGED <<row, watched, reviewed, jobs, requests, faults>>

CanRetry(w) == worker[w].outcome = "RETRYABLE" /\ worker[w].retry < MaxRetries

Accepted(w) ==
    [row EXCEPT !.status = "ACCEPTED", !.submission = "ACCEPTED", !.quiet = FALSE,
                !.known = TRUE, !.nerisStatus = "SUBMITTED", !.pending = FALSE,
                !.missing = FALSE, !.checks = 0, !.accepted = worker[w].payload]

Unaccepted(w) ==
    [row EXCEPT !.submission = IF CanRetry(w) THEN "RETRYING" ELSE "FAILED", !.quiet = FALSE,
                !.status = IF worker[w].outcome = "VALIDATION_ERROR" THEN "REJECTED" ELSE @]

\* appendSubmissionAttempt: a failure never replaces a success, and is then not retried.
Append(w) ==
    /\ worker[w].pc = "append"
    /\ IF worker[w].outcome = "SUCCESS"
         THEN row' = Accepted(w) /\ watched' = TRUE
         ELSE /\ row' = IF row.submission = "ACCEPTED" THEN row ELSE Unaccepted(w)
              /\ UNCHANGED watched
    /\ IF CanRetry(w) /\ row.submission # "ACCEPTED"
         THEN Goto(w, "schedule")
         ELSE worker' = [worker EXCEPT ![w] = Idle]
    /\ UNCHANGED <<reviewed, jobs, neris, requests, faults>>

\* createRetrySchedule, once the attempt is on record.
Schedule(w) ==
    /\ worker[w].pc = "schedule"
    /\ jobs' = [jobs EXCEPT ![worker[w].retry + 1] = @ + 1]
    /\ worker' = [worker EXCEPT ![w] = Idle]
    /\ UNCHANGED <<row, watched, reviewed, neris, requests, faults>>

\* A call of the invocation throws, or it dies: it is delivered again, or ends in the
\* dead-letter queue.
Die(w) ==
    /\ worker[w].pc # "idle"
    /\ faults < MaxFaults
    /\ faults' = faults + 1
    /\ worker' = [worker EXCEPT ![w] = Idle]
    /\ jobs' \in {jobs, [jobs EXCEPT ![worker[w].retry] = @ + 1]}
    /\ UNCHANGED <<row, watched, reviewed, neris, requests>>

\* SQS and EventBridge deliver at least once.
Repeat ==
    /\ faults < MaxFaults
    /\ faults' = faults + 1
    /\ \E n \in 0 .. MaxRetries : jobs[n] > 0 /\ jobs' = [jobs EXCEPT ![n] = @ + 1]
    /\ UNCHANGED <<row, watched, reviewed, worker, neris, requests>>

Step(w) ==
    \/ Build(w) \/ Check(w) \/ Forget(w) \/ Look(w) \/ Mark(w) \/ Post(w) \/ Adopt(w)
    \/ Put(w) \/ Append(w) \/ Schedule(w)

Sends ==
    \/ Edit \/ Unlock \/ Submit \/ Resubmit \/ Retry \/ AnHourPasses \/ Repeat
    \/ \E v \in 0 .. row.version, submit \in BOOLEAN : Lock(v, submit)
    \/ \E w \in Workers : Receive(w) \/ Step(w) \/ Die(w)

\* The reconciliation (step by step in NerisSync) gives the record up: NERIS deleted it, or has not
\* listed it for some nights.  A later lookup finds it or not, either way.
RecordIsGivenUp ==
    /\ row.known /\ ~row.missing
    /\ \E shown \in {row.nerisStatus, "DELETED"} :
          row' = [row EXCEPT !.missing = TRUE, !.nerisStatus = shown]
    /\ watched' = FALSE
    /\ UNCHANGED <<reviewed, jobs, worker, neris, requests, faults>>

Next == Sends \/ RecordIsGivenUp

Spec == Init /\ [][Next]_vars

------------------------------------------------------------------------------
Payloads == Versions \X Versions

NerisStatuses == {None, "SUBMITTED", "APPROVED", "REJECTED", "DELETED"}

Rows == [status : {"DRAFT", "VALIDATED", "SUBMITTED", "ACCEPTED", "REJECTED"},
         version : Versions, lockedVersion : Versions \cup {None},
         submission : {None, "SUBMITTED", "RETRYING", "FAILED", "ACCEPTED"},
         quiet : BOOLEAN, known : BOOLEAN, nerisStatus : NerisStatuses,
         pending : BOOLEAN, previous : BOOLEAN, missing : BOOLEAN, checks : Nat,
         accepted : Payloads \cup {None}]

Invocations == [pc : {"idle", "read", "built", "forget", "look", "mark", "post", "adopt", "put",
                      "append", "schedule"},
                retry : 0 .. MaxRetries, payload : Payloads, knew : BOOLEAN, pending : BOOLEAN,
                outcome : {None, "SUCCESS", "RETRYABLE", "VALIDATION_ERROR", "CLIENT_ERROR",
                           "NOT_CONFIGURED"}]

Records == [held : BOOLEAN, listed : BOOLEAN, content : Payloads \cup {None},
            status : NerisStatuses]

NerisTypeOK ==
    /\ row \in Rows
    /\ watched \in BOOLEAN
    /\ reviewed \subseteq Versions
    /\ jobs \in [0 .. MaxRetries -> Nat]
    /\ worker \in [Workers -> Invocations]
    /\ neris \in Records
    /\ requests \in 0 .. MaxRequests
    /\ faults \in 0 .. MaxFaults

\* What NERIS holds is one version of the report, units and all, that an officer read, found
\* valid and locked.
OnlyReviewedContentLeaves ==
    neris.held => \E v \in reviewed : neris.content = <<v, v>>

\* A report is recorded as rejected by NERIS only for content NERIS finds invalid: a create
\* refused because an earlier one landed is not a verdict on the report.
RejectedForItsContent ==
    \A w \in Workers :
       worker[w].pc = "append" /\ worker[w].outcome = "VALIDATION_ERROR" => ~Valid(w)

\* A record NERIS holds is never unknown to the report, whatever answer was lost: its id is
\* known, marked as being created, or kept from a record that was given up on.
LostCreateIsRemembered == neris.held => row.known \/ row.pending \/ row.previous

\* No report stays locked for ever behind a send that is never finished.
UnlockStaysPossible == []<>(~Locked \/ ~InFlight)
=============================================================================
