---------------------------- MODULE ChannelWorker ----------------------------
(***************************************************************************)
(* One page of one member on one channel, from its queue to the gateways:  *)
(* the FIFO message group of the dispatch, the worker invocation that      *)
(* processes a batch of its messages, and the send guard in DynamoDB that  *)
(* makes redelivered and re-published messages send once                   *)
(* (channels/deliverChannelMessage.ts).                                    *)
(*                                                                         *)
(* Time is counted in ticks of 5 s, so that the deployed worker timeout    *)
(* (15 s), visibility timeout (30 s) and STALE_CLAIM_SECONDS (20 s) are 3, *)
(* 6 and 4.  A push page has its member's devices as targets; an SMS page  *)
(* has one target that is never given up on.                               *)
(***************************************************************************)
EXTENDS Integers, FiniteSets

CONSTANTS
    Messages,      \* the page's message and its re-published twins
    Devices,       \* the targets of the page
    Timeout,       \* worker timeout
    Visibility,    \* queue visibility timeout
    Stale,         \* STALE_CLAIM_SECONDS
    ClaimDelay,    \* how long after the receive deliverChannelMessage starts, at most
    MaxReceives,   \* maxReceiveCount of the redrive policy
    MaxSends,      \* MAX_DEVICE_SEND_ATTEMPTS
    MaxFaults,     \* bound on dead workers, lost writes and ambiguous answers
    MaxTime        \* bound on the clock

ASSUME WorkerConstants ==
    /\ Timeout \in Nat /\ Visibility \in Nat /\ Stale \in Nat /\ ClaimDelay \in Nat
    /\ MaxReceives \in Nat \ {0} /\ MaxSends \in Nat \ {0}
    /\ MaxFaults \in Nat /\ MaxTime \in Nat
    /\ Timeout <= Stale

VARIABLES
    now,        \* the clock
    queue,      \* each message: where it is, its receives, when it is visible again
    worker,     \* the invocation of this message group: live or not, started when
    record,     \* each message's processing within that invocation
    guard,      \* the send guard item
    pageable,   \* the eligibility snapshot shows an active member with a target
    accepted,   \* history: how often each gateway accepted the page for a device
    gaveUp,     \* history: a worker ended the page without reaching the member, and said so
    faults      \* history: dead workers, lost writes and accepted sends answered with an error

vars == <<now, queue, worker, record, guard, pageable, accepted, gaveUp, faults>>

Final == {"SENT", "INVALID", "UNAVAILABLE", "FAILED"}
DeviceStates == Final \cup {"none"}
Answers == {"sent", "transient", "unavailable", "invalid", "held"}

Fresh == [d \in Devices |-> "none"]
Zero  == [d \in Devices |-> 0]

\* A guard no worker has written: the item is absent.
NoGuard == [state |-> "absent", sentAt |-> 0, failure |-> FALSE, sends |-> Fresh,
            attempts |-> Zero]

\* seenFailed and seenAt, sends and attempts: what the record read of a guard it did not claim.
NoRecord == [pc |-> "none", sentAt |-> 0, seenFailed |-> FALSE, seenAt |-> 0,
             sends |-> Fresh, attempts |-> Zero, answers |-> Fresh]

Init ==
    /\ now = 0
    /\ queue = [m \in Messages |-> [state |-> "unpublished", receives |-> 0, visibleAt |-> 0]]
    /\ worker = [live |-> FALSE, start |-> 0]
    /\ record = [m \in Messages |-> NoRecord]
    /\ guard = NoGuard
    /\ pageable = TRUE
    /\ accepted = Zero
    /\ gaveUp = FALSE
    /\ faults = 0

-----------------------------------------------------------------------------
(* The queue.                                                              *)

Publish(m) ==
    /\ queue[m].state = "unpublished"
    /\ queue' = [queue EXCEPT ![m].state = "queued"]
    /\ UNCHANGED <<now, worker, record, guard, pageable, accepted, gaveUp, faults>>

\* In a FIFO queue nothing of a message group is received while any of it is in flight.
GroupFree == ~worker.live /\ \A m \in Messages : queue[m].state # "inflight"

Receive(batch) ==
    /\ GroupFree
    /\ batch # {} /\ \A m \in batch : queue[m].state = "queued"
    /\ queue' = [m \in Messages |-> IF m \in batch
                   THEN [state |-> "inflight", receives |-> queue[m].receives + 1,
                         visibleAt |-> now + Visibility]
                   ELSE queue[m]]
    /\ worker' = [live |-> TRUE, start |-> now]
    /\ record' = [m \in Messages |-> IF m \in batch THEN [NoRecord EXCEPT !.pc = "read"]
                                     ELSE NoRecord]
    /\ UNCHANGED <<now, guard, pageable, accepted, gaveUp, faults>>

\* The visibility timeout ends: back to the queue, or to the dead-letter queue.
Reappear(m) ==
    /\ queue[m].state = "inflight" /\ ~worker.live /\ now >= queue[m].visibleAt
    /\ queue' = [queue EXCEPT ![m].state = IF queue[m].receives < MaxReceives
                                           THEN "queued" ELSE "deadLettered"]
    /\ UNCHANGED <<now, worker, record, guard, pageable, accepted, gaveUp, faults>>

\* The clock; a live invocation does not outlast its timeout.
Tick ==
    /\ now < MaxTime
    /\ worker.live => now < worker.start + Timeout
    /\ now' = now + 1
    /\ UNCHANGED <<queue, worker, record, guard, pageable, accepted, gaveUp, faults>>

-----------------------------------------------------------------------------
(* One message of the batch: the worker processes all of them concurrently. *)

At(m, pc) == worker.live /\ record[m].pc = pc
Goto(m, pc) == record' = [record EXCEPT ![m].pc = pc]
Finish(m, pc) == record' = [record EXCEPT ![m] = [NoRecord EXCEPT !.pc = pc]]

\* The eligibility read. A member who is inactive or has no target is dropped, and counted;
\* otherwise deliverChannelMessage starts and takes the time its claim will carry.
ReadEligibility(m) ==
    /\ At(m, "read")
    /\ \/ ~pageable /\ Finish(m, "ok") /\ gaveUp' = TRUE
       \/ /\ pageable /\ now - worker.start <= ClaimDelay
          /\ record' = [record EXCEPT ![m].pc = "claim", ![m].sentAt = now]
          /\ UNCHANGED gaveUp
    /\ UNCHANGED <<now, queue, worker, guard, pageable, accepted, faults>>

\* The conditional Put of the send guard.
ClaimAlways(m) ==   \* mutant: the Put without its condition
    /\ At(m, "claim")
    /\ guard' = [NoGuard EXCEPT !.state = "CLAIMED", !.sentAt = record[m].sentAt]
    /\ Goto(m, "send")
    /\ UNCHANGED <<now, queue, worker, pageable, accepted, gaveUp, faults>>
Claim(m) ==
    /\ At(m, "claim")
    /\ IF guard.state = "absent"
       THEN /\ guard' = [NoGuard EXCEPT !.state = "CLAIMED", !.sentAt = record[m].sentAt]
            /\ Goto(m, "send")
       ELSE Goto(m, "conflict") /\ UNCHANGED guard
    /\ UNCHANGED <<now, queue, worker, pageable, accepted, gaveUp, faults>>

\* No failure is recorded on the claim, but its worker can no longer be running.
NeverAbandoned(m) == FALSE   \* mutant: only a recorded failure is retried
ClaimAbandoned(m) == guard.state = "CLAIMED" /\ guard.sentAt < record[m].sentAt - Stale

\* reattemptClaimedFailure's consistent read: a fresh claim and a sent page are duplicates,
\* acknowledged without a send. (deliveredAt, read here too, is never set on this item.)
ReadGuard(m) ==
    /\ At(m, "conflict")
    /\ IF guard.failure \/ ClaimAbandoned(m)
       THEN record' = [record EXCEPT ![m].pc = "retake",
                          ![m].seenFailed = guard.failure, ![m].seenAt = guard.sentAt,
                          ![m].sends = guard.sends, ![m].attempts = guard.attempts]
       ELSE Finish(m, "ok")
    /\ UNCHANGED <<now, queue, worker, guard, pageable, accepted, gaveUp, faults>>

\* Its conditional update: the failure still recorded, or the same abandoned claim.
StillAnyClaim(m) ==   \* mutant: the observed time is not part of the condition
    IF record[m].seenFailed THEN guard.failure ELSE guard.state = "CLAIMED"
StillAsSeen(m) ==
    IF record[m].seenFailed THEN guard.failure
    ELSE guard.state = "CLAIMED" /\ guard.sentAt = record[m].seenAt

Retake(m) ==
    /\ At(m, "retake")
    /\ IF StillAsSeen(m)
       THEN /\ guard' = [guard EXCEPT !.state = "CLAIMED", !.sentAt = record[m].sentAt,
                                      !.failure = FALSE]
            /\ Goto(m, "send")
       ELSE Finish(m, "ok") /\ UNCHANGED guard
    /\ UNCHANGED <<now, queue, worker, pageable, accepted, gaveUp, faults>>

-----------------------------------------------------------------------------
(* deliverPushToDevices.                                                   *)

\* The devices without a final outcome are sent to, all at once.
Pending(m) == {d \in Devices : record[m].sends[d] \notin Final}

\* One gateway's answer. A transient error may hide an acceptance; a token the mass
\* invalidation guard holds valid leaves its device without an outcome.
SendToDevice(m, d) ==
    /\ At(m, "send") /\ d \in Pending(m) /\ record[m].answers[d] = "none"
    /\ \E answer \in Answers, hidden \in BOOLEAN :
          /\ hidden => answer = "transient" /\ faults < MaxFaults
          /\ record' = [record EXCEPT ![m].answers[d] = answer]
          /\ accepted' = IF answer = "sent" \/ hidden
                         THEN [accepted EXCEPT ![d] = @ + 1] ELSE accepted
          /\ faults' = IF hidden THEN faults + 1 ELSE faults
    /\ UNCHANGED <<now, queue, worker, guard, pageable, gaveUp>>

Answered(m, answer) == {d \in Pending(m) : record[m].answers[d] = answer}
NewAttempts(m) ==
    [d \in Devices |-> record[m].attempts[d] + (IF d \in Answered(m, "transient") THEN 1 ELSE 0)]
GivenUp(m)   == {d \in Answered(m, "transient") : NewAttempts(m)[d] >= MaxSends}
Retryable(m) == Answered(m, "transient") \ GivenUp(m)
Reached(m)   == Answered(m, "sent") \cup {d \in Devices : record[m].sends[d] = "SENT"}

NewSends(m) ==
    [d \in Devices |->
        CASE d \in Answered(m, "sent") -> "SENT"
          [] d \in Answered(m, "invalid") -> "INVALID"
          [] d \in Answered(m, "unavailable") -> "UNAVAILABLE"
          [] d \in GivenUp(m) \/ (d \in Retryable(m) /\ Reached(m) # {}) -> "FAILED"
          [] OTHER -> record[m].sends[d]]

\* Thrown, so that SQS redelivers: nobody was reached and something is worth another try.
Rethrown(m) == Reached(m) = {} /\ (Retryable(m) # {} \/ Answered(m, "held") # {})

\* Every answer is in: recordSent or recordClaimedFailure, whose failed write is only logged.
RecordOutcome(m) ==
    /\ At(m, "send") /\ \A d \in Pending(m) : record[m].answers[d] # "none"
    /\ \/ /\ guard' = [guard EXCEPT
                         !.state = IF Reached(m) # {} THEN "SENT" ELSE "FAILED",
                         !.failure = (@ \/ Reached(m) = {}),
                         !.sends = NewSends(m), !.attempts = NewAttempts(m)]
          /\ UNCHANGED faults
       \/ faults < MaxFaults /\ faults' = faults + 1 /\ UNCHANGED guard
    /\ gaveUp' = (gaveUp \/ (Reached(m) = {} /\ ~Rethrown(m)))
    /\ Finish(m, IF Rethrown(m) THEN "error" ELSE "ok")
    /\ UNCHANGED <<now, queue, worker, pageable, accepted>>

\* Any other call of the record throws: the eligibility read, the claim, the guard's read or
\* re-claim.
ThrowCall(m) ==
    /\ \E pc \in {"read", "claim", "conflict", "retake"} : At(m, pc)
    /\ Finish(m, "error")
    /\ UNCHANGED <<now, queue, worker, guard, pageable, accepted, gaveUp, faults>>

-----------------------------------------------------------------------------
(* The invocation as a whole.                                              *)

\* All records have settled: SQS deletes the batch but for the reported failures.
Return ==
    /\ worker.live
    /\ \A m \in Messages : record[m].pc \in {"none", "ok", "error"}
    /\ queue' = [m \in Messages |-> IF record[m].pc = "ok" THEN [queue[m] EXCEPT !.state = "acked"]
                                    ELSE queue[m]]
    /\ worker' = [worker EXCEPT !.live = FALSE]
    /\ record' = [m \in Messages |-> NoRecord]
    /\ UNCHANGED <<now, guard, pageable, accepted, gaveUp, faults>>

\* The invocation dies, at its timeout or earlier: no message of the batch is acknowledged.
Die ==
    /\ worker.live /\ faults < MaxFaults
    /\ worker' = [worker EXCEPT !.live = FALSE]
    /\ record' = [m \in Messages |-> NoRecord]
    /\ faults' = faults + 1
    /\ UNCHANGED <<now, queue, guard, pageable, accepted, gaveUp>>

-----------------------------------------------------------------------------
(* Outside the worker.                                                     *)

\* The member is set to LOA or RETIRED, or the last target goes, after the page was published.
Deactivate ==
    /\ pageable /\ pageable' = FALSE
    /\ UNCHANGED <<now, queue, worker, record, guard, accepted, gaveUp, faults>>

Next ==
    \/ Tick \/ Return \/ Die \/ Deactivate
    \/ \E batch \in SUBSET Messages : Receive(batch)
    \/ \E m \in Messages :
          \/ Publish(m) \/ Reappear(m) \/ ReadEligibility(m) \/ Claim(m) \/ ReadGuard(m)
          \/ Retake(m) \/ RecordOutcome(m) \/ ThrowCall(m)
          \/ \E d \in Devices : SendToDevice(m, d)

Spec == Init /\ [][Next]_vars
-----------------------------------------------------------------------------
Pcs == {"none", "read", "claim", "conflict", "retake", "send", "ok", "error"}

QueueType ==
    [state : {"unpublished", "queued", "inflight", "acked", "deadLettered"},
     receives : 0 .. MaxReceives, visibleAt : Nat]
RecordType ==
    [pc : Pcs, sentAt : Nat, seenFailed : BOOLEAN, seenAt : Nat,
     sends : [Devices -> DeviceStates], attempts : [Devices -> 0 .. MaxSends],
     answers : [Devices -> Answers \cup {"none"}]]
GuardType ==
    [state : {"absent", "CLAIMED", "SENT", "FAILED"}, sentAt : Nat, failure : BOOLEAN,
     sends : [Devices -> DeviceStates], attempts : [Devices -> 0 .. MaxSends]]

\* Every variable holds what the queue, the worker and the guard item can hold.
TypeOK ==
    /\ now \in Nat
    /\ queue \in [Messages -> QueueType]
    /\ worker \in [live : BOOLEAN, start : Nat]
    /\ record \in [Messages -> RecordType]
    /\ guard \in GuardType
    /\ pageable \in BOOLEAN /\ gaveUp \in BOOLEAN
    /\ accepted \in [Devices -> Nat]
    /\ faults \in Nat

\* Whatever is redelivered or published twice, one message at a time sends the page: no two
\* records are past the claim together, even within one concurrently processed batch.
OneSender ==
    \A m, n \in Messages : At(m, "send") /\ At(n, "send") => m = n

\* A device is paged twice only for a reason the queue cannot see: each repeat is paid for by a
\* dead worker, a lost outcome write or a gateway that accepted a send it answered with an error.
DuplicatesArePaidFor == \A d \in Devices : accepted[d] <= 1 + faults

\* A page is never lost in silence: when every message published for it has been acknowledged
\* by the worker, a device accepted it or a worker gave it up and counted that.
NoSilentLoss ==
    (\E m \in Messages : queue[m].state = "acked") /\
    (\A m \in Messages : queue[m].state \in {"unpublished", "acked"})
      => gaveUp \/ \E d \in Devices : accepted[d] > 0

\* Once the guard is SENT it stays SENT: no redelivery reopens a page that went out.
SentStaysSent == [][guard.state = "SENT" => guard'.state = "SENT"]_vars
=============================================================================
