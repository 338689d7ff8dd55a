------------------------- MODULE ChannelWorkerProofs -------------------------
(***************************************************************************)
(* For any number of twins, devices, faults and receives, and any clock:   *)
(* the variables keep their types, one message at a time sends the page,   *)
(* a sent page stays sent, a device that accepts a page twice has a fault  *)
(* to blame, and no page ends unsent and uncounted.                        *)
(*                                                                         *)
(* The premises on the deployment: a worker does not outlive the age at    *)
(* which its claim counts as abandoned (Timeout <= Stale), and, for the    *)
(* last theorem, a claim is that old when its message is visible again     *)
(* (ClaimDelay + Stale < Visibility).                                      *)
(***************************************************************************)
EXTENDS ChannelWorker, TLAPS

\* A device that may still be sent to has attempts left.
AttemptsLeft(r) == \A d \in Devices : r.sends[d] \notin Final => r.attempts[d] < MaxSends
Bounded == AttemptsLeft(guard) /\ \A m \in Messages : AttemptsLeft(record[m])

\* A message that may still be received has receives left.
ReceivesLeft ==
    \A m \in Messages :
       queue[m].state \in {"unpublished", "queued"} => queue[m].receives < MaxReceives

Typed == TypeOK /\ Bounded /\ ReceivesLeft

\* A live worker is within its timeout.
Alive == worker.live => worker.start <= now /\ now <= worker.start + Timeout

\* A record past the eligibility read carries a time of its own invocation.
ClaimTime(m) ==
    worker.live /\ record[m].pc \in {"claim", "conflict", "retake", "send"} =>
       worker.start <= record[m].sentAt /\ record[m].sentAt <= now

\* What a record saw of a claim it takes for abandoned is older than its own invocation.
SawAbandoned(m) ==
    At(m, "retake") /\ ~record[m].seenFailed => record[m].seenAt < worker.start

\* The guard of a sender is a claim of its own invocation, without a failure.
Claimed(m) ==
    At(m, "send") =>
       guard.state = "CLAIMED" /\ guard.failure = FALSE /\ worker.start <= guard.sentAt

Local == \A m \in Messages : ClaimTime(m) /\ SawAbandoned(m) /\ Claimed(m)

\* A sent page has no failure to retry.
SentIsFinal == guard.state = "SENT" => guard.failure = FALSE

\* The inductive invariant.
IInv == Typed /\ Alive /\ Local /\ OneSender /\ SentIsFinal

-----------------------------------------------------------------------------

\* The initial values of a page's devices are typed.
LEMMA FreshTyped ==
  /\ Fresh \in [Devices -> DeviceStates]
  /\ Fresh \in [Devices -> Answers \cup {"none"}]
  /\ Zero \in [Devices -> 0 .. MaxSends]
<1>1. Fresh \in [Devices -> DeviceStates]
  BY DEF Fresh, DeviceStates
<1>2. Fresh \in [Devices -> Answers \cup {"none"}]
  BY DEF Fresh
<1>3. Zero \in [Devices -> 0 .. MaxSends]
  BY WorkerConstants DEF Zero
<1> QED BY <1>1, <1>2, <1>3

\* A device no worker has sent to has all its attempts left.
LEMMA FreshLeft ==
  /\ NoRecord \in RecordType /\ AttemptsLeft(NoRecord)
  /\ NoGuard \in GuardType /\ AttemptsLeft(NoGuard)
<1>1. NoRecord \in RecordType
  BY FreshTyped DEF NoRecord, RecordType, Pcs
<1>2. NoGuard \in GuardType
  BY FreshTyped DEF NoGuard, GuardType
<1>3. \A d \in Devices : Zero[d] < MaxSends
  BY WorkerConstants DEF Zero
<1> QED BY <1>1, <1>2, <1>3 DEF NoRecord, NoGuard, AttemptsLeft

\* A processing record with one field replaced by a value of its type is typed.
LEMMA FieldTyped ==
  ASSUME NEW r \in RecordType
  PROVE  /\ \A x \in Pcs : [r EXCEPT !.pc = x] \in RecordType
         /\ \A x \in Nat : [r EXCEPT !.sentAt = x] \in RecordType
         /\ \A x \in BOOLEAN : [r EXCEPT !.seenFailed = x] \in RecordType
         /\ \A x \in Nat : [r EXCEPT !.seenAt = x] \in RecordType
         /\ \A x \in [Devices -> DeviceStates] : [r EXCEPT !.sends = x] \in RecordType
         /\ \A x \in [Devices -> 0 .. MaxSends] : [r EXCEPT !.attempts = x] \in RecordType
         /\ \A x \in [Devices -> Answers \cup {"none"}] : [r EXCEPT !.answers = x] \in RecordType
BY DEF RecordType

\* A worker's next program counter keeps its record typed and its devices as they were.
LEMMA GotoKeeps ==
  ASSUME TypeOK, Bounded, NEW m \in Messages, NEW pc \in Pcs, Goto(m, pc)
  PROVE  /\ record' \in [Messages -> RecordType]
         /\ \A n \in Messages : AttemptsLeft(record[n])'
         /\ record'[m] = [record[m] EXCEPT !.pc = pc]
         /\ \A n \in Messages \ {m} : record'[n] = record[n]
<1>1. record \in [Messages -> RecordType]
  BY DEF TypeOK
<1>2. [record[m] EXCEPT !.pc = pc] \in RecordType
  BY <1>1, FieldTyped
<1>3. /\ record'[m] = [record[m] EXCEPT !.pc = pc]
      /\ \A n \in Messages \ {m} : record'[n] = record[n]
  BY <1>1 DEF Goto
<1>4. record' \in [Messages -> RecordType]
  BY <1>1, <1>2 DEF Goto
<1>5. record'[m].sends = record[m].sends /\ record'[m].attempts = record[m].attempts
  BY <1>1, <1>3 DEF RecordType
<1>6. \A n \in Messages : AttemptsLeft(record[n])'
  BY <1>3, <1>5 DEF Bounded, AttemptsLeft
<1> QED BY <1>3, <1>4, <1>6

\* A record that has settled forgets what it read.
LEMMA FinishKeeps ==
  ASSUME TypeOK, Bounded, NEW m \in Messages, NEW pc \in Pcs, Finish(m, pc)
  PROVE  /\ record' \in [Messages -> RecordType]
         /\ \A n \in Messages : AttemptsLeft(record[n])'
         /\ record'[m].pc = pc
         /\ \A n \in Messages \ {m} : record'[n] = record[n]
<1>1. record \in [Messages -> RecordType]
  BY DEF TypeOK
<1>2. [NoRecord EXCEPT !.pc = pc] \in RecordType
  BY FreshLeft, FieldTyped
<1>3. /\ record'[m] = [NoRecord EXCEPT !.pc = pc]
      /\ \A n \in Messages \ {m} : record'[n] = record[n]
  BY <1>1 DEF Finish
<1>4. record' \in [Messages -> RecordType]
  BY <1>1, <1>2 DEF Finish
<1>5. /\ record'[m].sends = NoRecord.sends /\ record'[m].attempts = NoRecord.attempts
      /\ record'[m].pc = pc
  BY <1>3 DEF NoRecord
<1>6. \A n \in Messages : AttemptsLeft(record[n])'
  BY <1>3, <1>5, FreshLeft DEF Bounded, AttemptsLeft
<1> QED BY <1>3, <1>4, <1>5, <1>6

-----------------------------------------------------------------------------
(* Types and the bound on a device's sends.                                *)

\* What a worker records of its devices is typed, and keeps the bound.
LEMMA OutcomeTyped ==
  ASSUME TypeOK, Bounded, NEW m \in Messages
  PROVE  /\ NewSends(m) \in [Devices -> DeviceStates]
         /\ NewAttempts(m) \in [Devices -> 0 .. MaxSends]
         /\ \A d \in Devices : NewSends(m)[d] \notin Final => NewAttempts(m)[d] < MaxSends
<1>1. /\ record[m].sends \in [Devices -> DeviceStates]
      /\ record[m].attempts \in [Devices -> 0 .. MaxSends]
  BY DEF TypeOK, RecordType
<1>2. \A d \in Devices : record[m].sends[d] \notin Final => record[m].attempts[d] < MaxSends
  BY DEF Bounded, AttemptsLeft
<1>3. \A d \in Devices : d \in Answered(m, "transient") => record[m].attempts[d] < MaxSends
  BY <1>2 DEF Answered, Pending
<1>4. NewAttempts(m) \in [Devices -> 0 .. MaxSends]
  <2> SUFFICES ASSUME NEW d \in Devices
               PROVE  record[m].attempts[d] + (IF d \in Answered(m, "transient") THEN 1 ELSE 0)
                        \in 0 .. MaxSends
    BY DEF NewAttempts
  <2> QED BY <1>1, <1>3, WorkerConstants
<1>5. NewSends(m) \in [Devices -> DeviceStates]
  BY <1>1 DEF NewSends, DeviceStates, Final
<1>6. ASSUME NEW d \in Devices, NewSends(m)[d] \notin Final
      PROVE  NewAttempts(m)[d] < MaxSends
  <2>1. d \notin GivenUp(m) /\ NewSends(m)[d] = record[m].sends[d]
    BY <1>6 DEF NewSends, Final
  <2>2. CASE d \in Answered(m, "transient")
    BY <1>4, <2>1, <2>2, WorkerConstants DEF GivenUp
  <2>3. CASE d \notin Answered(m, "transient")
    <3>1. NewAttempts(m)[d] = record[m].attempts[d] + 0
      BY <2>3 DEF NewAttempts
    <3>2. record[m].attempts[d] < MaxSends
      BY <1>2, <1>6, <2>1
    <3> QED BY <1>1, <3>1, <3>2
  <2> QED BY <2>2, <2>3
<1> QED BY <1>4, <1>5, <1>6

\* The initial state.
LEMMA InitTyped == Init => Typed
<1> SUFFICES ASSUME Init PROVE Typed
  OBVIOUS
<1>1. queue \in [Messages -> QueueType]
  BY WorkerConstants DEF Init, QueueType
<1>2. record \in [Messages -> RecordType] /\ guard \in GuardType
  BY FreshLeft DEF Init
<1>3. accepted \in [Devices -> Nat]
  BY DEF Init, Zero
<1>4. worker \in [live : BOOLEAN, start : Nat]
  BY DEF Init
<1>5. Bounded
  BY FreshLeft DEF Init, Bounded
<1>6. ReceivesLeft
  BY WorkerConstants DEF Init, ReceivesLeft
<1> QED BY <1>1, <1>2, <1>3, <1>4, <1>5, <1>6 DEF Init, TypeOK, Typed

\* A re-claim or an outcome replaces fields of the guard.
LEMMA GuardTyped ==
  ASSUME NEW g \in GuardType, NEW state \in {"absent", "CLAIMED", "SENT", "FAILED"},
         NEW time \in Nat, NEW failure \in BOOLEAN, NEW sends \in [Devices -> DeviceStates],
         NEW attempts \in [Devices -> 0 .. MaxSends]
  PROVE  /\ [g EXCEPT !.state = state, !.sentAt = time, !.failure = failure] \in GuardType
         /\ [g EXCEPT !.state = state, !.sentAt = time] \in GuardType
         /\ [g EXCEPT !.state = state, !.failure = failure, !.sends = sends,
                      !.attempts = attempts] \in GuardType
BY DEF GuardType

\* The queue's steps, the clock and the member's own changes keep the types.
LEMMA QueueTyped ==
  ASSUME Typed,
         \/ Tick \/ Deactivate \/ Return \/ Die
         \/ \E batch \in SUBSET Messages : Receive(batch)
         \/ \E m \in Messages : Publish(m) \/ Reappear(m)
  PROVE  Typed'
<1> USE DEF Typed
<1>1. CASE Tick
  BY <1>1 DEF Tick, TypeOK, Bounded, AttemptsLeft, ReceivesLeft
<1>2. CASE Deactivate
  BY <1>2 DEF Deactivate, TypeOK, Bounded, AttemptsLeft, ReceivesLeft
<1>3. ASSUME record' = [m \in Messages |-> NoRecord], guard' = guard
      PROVE  record' \in [Messages -> RecordType] /\ Bounded'
  BY <1>3, FreshLeft DEF AttemptsLeft, Bounded
<1>4. CASE Return
  <2>1. ASSUME NEW m \in Messages
        PROVE  queue[m] \in QueueType /\ [queue[m] EXCEPT !.state = "acked"] \in QueueType
    BY DEF QueueType, TypeOK
  <2>2. queue' \in [Messages -> QueueType]
    BY <1>4, <2>1 DEF Return
  <2>3. ReceivesLeft'
    BY <1>4, <2>1 DEF Return, ReceivesLeft, QueueType
  <2>4. worker' \in [live : BOOLEAN, start : Nat]
    BY <1>4 DEF Return, TypeOK
  <2>5. record' = [m \in Messages |-> NoRecord] /\ guard' = guard
    BY <1>4 DEF Return
  <2> QED BY <1>3, <1>4, <2>2, <2>3, <2>4, <2>5 DEF Return, TypeOK
<1>5. CASE Die
  <2>1. worker' \in [live : BOOLEAN, start : Nat]
    BY <1>5 DEF Die, TypeOK
  <2>2. record' = [m \in Messages |-> NoRecord] /\ guard' = guard
    BY <1>5 DEF Die
  <2>3. faults' \in Nat
    BY <1>5 DEF Die, TypeOK
  <2> QED BY <1>3, <1>5, <2>1, <2>2, <2>3 DEF Die, TypeOK, ReceivesLeft
<1>6. ASSUME NEW batch \in SUBSET Messages, Receive(batch) PROVE Typed'
  <2> DEFINE received(m) == [state |-> "inflight", receives |-> queue[m].receives + 1,
                             visibleAt |-> now + Visibility]
  <2>1. ASSUME NEW m \in batch PROVE received(m) \in QueueType
    <3>1. queue[m] \in QueueType /\ queue[m].state = "queued"
      BY <1>6 DEF Receive, TypeOK
    <3>2. queue[m].receives < MaxReceives
      BY <3>1 DEF ReceivesLeft
    <3>3. queue[m].receives + 1 \in 0 .. MaxReceives
      BY <3>1, <3>2, WorkerConstants DEF QueueType
    <3>4. now + Visibility \in Nat
      BY WorkerConstants DEF TypeOK
    <3> QED BY <3>3, <3>4 DEF QueueType
  <2>2. queue' = [m \in Messages |-> IF m \in batch THEN received(m) ELSE queue[m]]
    BY <1>6 DEF Receive
  <2>3. queue' \in [Messages -> QueueType]
    BY <2>1, <2>2 DEF TypeOK
  <2>4. ReceivesLeft'
    BY <2>2 DEF ReceivesLeft
  <2>5. [NoRecord EXCEPT !.pc = "read"] \in RecordType
    BY FreshLeft, FieldTyped DEF Pcs
  <2>6. record' \in [Messages -> RecordType]
    BY <1>6, <2>5, FreshLeft DEF Receive
  <2>7. \A m \in Messages : /\ record'[m].sends = NoRecord.sends
                            /\ record'[m].attempts = NoRecord.attempts
    BY <1>6 DEF Receive, NoRecord
  <2>8. Bounded'
    BY <1>6, <2>7, FreshLeft DEF Receive, Bounded, AttemptsLeft
  <2>9. worker' \in [live : BOOLEAN, start : Nat]
    BY <1>6 DEF Receive, TypeOK
  <2> QED BY <1>6, <2>3, <2>4, <2>6, <2>8, <2>9 DEF Receive, TypeOK
<1>7. ASSUME NEW m \in Messages, Publish(m) PROVE Typed'
  <2>1. [queue[m] EXCEPT !.state = "queued"] \in QueueType
    BY DEF QueueType, TypeOK
  <2>2. queue' \in [Messages -> QueueType]
    BY <1>7, <2>1 DEF Publish, TypeOK
  <2>3. ReceivesLeft'
    BY <1>7 DEF Publish, ReceivesLeft, TypeOK, QueueType
  <2> QED BY <1>7, <2>2, <2>3 DEF Publish, TypeOK, Bounded, AttemptsLeft
<1>8. ASSUME NEW m \in Messages, Reappear(m) PROVE Typed'
  <2>1. /\ [queue[m] EXCEPT !.state = "queued"] \in QueueType
        /\ [queue[m] EXCEPT !.state = "deadLettered"] \in QueueType
    BY DEF QueueType, TypeOK
  <2>2. queue' \in [Messages -> QueueType]
    BY <1>8, <2>1 DEF Reappear, TypeOK
  <2>3. ReceivesLeft'
    BY <1>8 DEF Reappear, ReceivesLeft, TypeOK, QueueType
  <2> QED BY <1>8, <2>2, <2>3 DEF Reappear, TypeOK, Bounded, AttemptsLeft
<1> QED BY <1>1, <1>2, <1>4, <1>5, <1>6, <1>7, <1>8

\* A record's own steps keep the types.
LEMMA RecordTyped ==
  ASSUME Typed, NEW m \in Messages,
         \/ ReadEligibility(m) \/ Claim(m) \/ ReadGuard(m) \/ Retake(m)
         \/ RecordOutcome(m) \/ ThrowCall(m) \/ \E d \in Devices : SendToDevice(m, d)
  PROVE  Typed'
<1> USE DEF Typed
<1>0. record \in [Messages -> RecordType] /\ guard \in GuardType /\ now \in Nat
  BY DEF TypeOK
<1>1. CASE ReadEligibility(m)
  <2>1. CASE Finish(m, "ok") /\ gaveUp' = TRUE
    BY <1>1, <2>1, FinishKeeps DEF ReadEligibility, TypeOK, Bounded, AttemptsLeft, ReceivesLeft, Pcs
  <2>2. CASE record' = [record EXCEPT ![m].pc = "claim", ![m].sentAt = now] /\ gaveUp' = gaveUp
    <3> DEFINE r == [[record[m] EXCEPT !.pc = "claim"] EXCEPT !.sentAt = now]
    <3>1. [record[m] EXCEPT !.pc = "claim"] \in RecordType
      BY <1>0, FieldTyped DEF Pcs
    <3>2. r \in RecordType /\ r.sends = record[m].sends /\ r.attempts = record[m].attempts
      BY <1>0, <3>1, FieldTyped DEF RecordType
    <3>3. record' = [record EXCEPT ![m] = r]
      BY <1>0, <2>2
    <3> HIDE DEF r
    <3>4. record' \in [Messages -> RecordType]
      BY <1>0, <3>2, <3>3
    <3>5. Bounded'
      BY <1>0, <1>1, <3>2, <3>3 DEF ReadEligibility, Bounded, AttemptsLeft
    <3> QED BY <1>1, <2>2, <3>4, <3>5 DEF ReadEligibility, TypeOK, ReceivesLeft
  <2> QED BY <1>1, <2>1, <2>2 DEF ReadEligibility
<1>2. CASE Claim(m)
  <2>1. CASE guard.state = "absent"
    <3>1. /\ guard' = [NoGuard EXCEPT !.state = "CLAIMED", !.sentAt = record[m].sentAt]
          /\ Goto(m, "send")
      BY <1>2, <2>1 DEF Claim
    <3>2. guard' \in GuardType
      BY <1>0, <3>1, FreshLeft, GuardTyped DEF RecordType
    <3>3. guard'.sends = NoGuard.sends /\ guard'.attempts = NoGuard.attempts
      BY <3>1 DEF NoGuard
    <3>4. AttemptsLeft(guard)'
      BY <3>3, FreshLeft DEF AttemptsLeft
    <3> QED BY <1>2, <3>1, <3>2, <3>4, GotoKeeps DEF Claim, TypeOK, Bounded, ReceivesLeft, Pcs
  <2>2. CASE guard.state # "absent"
    BY <1>2, <2>2, GotoKeeps DEF Claim, TypeOK, Bounded, AttemptsLeft, ReceivesLeft, Pcs
  <2> QED BY <2>1, <2>2
<1>3. CASE ReadGuard(m)
  <2>1. CASE guard.failure \/ ClaimAbandoned(m)
    <3> DEFINE r == [pc |-> "retake", sentAt |-> record[m].sentAt,
                     seenFailed |-> guard.failure, seenAt |-> guard.sentAt,
                     sends |-> guard.sends, attempts |-> guard.attempts,
                     answers |-> record[m].answers]
    <3>1. record' = [record EXCEPT ![m] = r]
      BY <1>0, <1>3, <2>1 DEF ReadGuard, RecordType
    <3>2. r \in RecordType
      BY <1>0 DEF RecordType, GuardType, Pcs
    <3>3. r.sends = guard.sends /\ r.attempts = guard.attempts
      OBVIOUS
    <3> HIDE DEF r
    <3>4. record' \in [Messages -> RecordType]
      BY <1>0, <3>1, <3>2
    <3>5. Bounded'
      BY <1>0, <1>3, <3>1, <3>3 DEF ReadGuard, Bounded, AttemptsLeft
    <3> QED BY <1>3, <3>4, <3>5 DEF ReadGuard, TypeOK, ReceivesLeft
  <2>2. CASE ~(guard.failure \/ ClaimAbandoned(m))
    BY <1>3, <2>2, FinishKeeps DEF ReadGuard, TypeOK, Bounded, AttemptsLeft, ReceivesLeft, Pcs
  <2> QED BY <2>1, <2>2
<1>4. CASE Retake(m)
  <2>1. CASE StillAsSeen(m)
    <3>1. /\ guard' = [guard EXCEPT !.state = "CLAIMED", !.sentAt = record[m].sentAt,
                                    !.failure = FALSE]
          /\ Goto(m, "send")
      BY <1>4, <2>1 DEF Retake
    <3>2. record[m].sentAt \in Nat
      BY <1>0 DEF RecordType
    <3>3. guard' \in GuardType
      BY <1>0, <3>1, <3>2 DEF GuardType
    <3>4. guard'.sends = guard.sends /\ guard'.attempts = guard.attempts
      BY <1>0, <3>1 DEF GuardType
    <3>5. AttemptsLeft(guard)'
      BY <3>4 DEF AttemptsLeft, Bounded
    <3> QED BY <1>4, <3>1, <3>3, <3>5, GotoKeeps DEF Retake, TypeOK, Bounded, ReceivesLeft, Pcs
  <2>2. CASE ~StillAsSeen(m)
    BY <1>4, <2>2, FinishKeeps DEF Retake, TypeOK, Bounded, AttemptsLeft, ReceivesLeft, Pcs
  <2> QED BY <2>1, <2>2
<1>5. CASE RecordOutcome(m)
  <2>1. guard' \in GuardType /\ AttemptsLeft(guard)'
    <3>1. CASE guard' = guard
      BY <1>0, <3>1 DEF AttemptsLeft, Bounded
    <3>2. CASE guard' = [guard EXCEPT
                         !.state = IF Reached(m) # {} THEN "SENT" ELSE "FAILED",
                         !.failure = (@ \/ Reached(m) = {}),
                         !.sends = NewSends(m), !.attempts = NewAttempts(m)]
      <4>1. (guard.failure \/ Reached(m) = {}) \in BOOLEAN
        BY <1>0 DEF GuardType
      <4>2. guard' \in GuardType
        BY <1>0, <3>2, <4>1, OutcomeTyped DEF GuardType
      <4>3. guard'.sends = NewSends(m) /\ guard'.attempts = NewAttempts(m)
        BY <1>0, <3>2 DEF GuardType
      <4> QED BY <4>2, <4>3, OutcomeTyped DEF AttemptsLeft
    <3> QED BY <1>5, <3>1, <3>2 DEF RecordOutcome
  <2>2. \E pc \in {"error", "ok"} : Finish(m, pc)
    BY <1>5 DEF RecordOutcome
  <2>3. record' \in [Messages -> RecordType] /\ \A n \in Messages : AttemptsLeft(record[n])'
    BY <2>2, FinishKeeps DEF Pcs
  <2>4. gaveUp' \in BOOLEAN /\ faults' \in Nat
    BY <1>5 DEF RecordOutcome, TypeOK
  <2> QED BY <1>5, <2>1, <2>3, <2>4 DEF RecordOutcome, TypeOK, Bounded, ReceivesLeft
<1>6. CASE ThrowCall(m)
  BY <1>6, FinishKeeps DEF ThrowCall, TypeOK, Bounded, AttemptsLeft, ReceivesLeft, Pcs
<1>7. ASSUME NEW d \in Devices, SendToDevice(m, d) PROVE Typed'
  <2>1. PICK answer \in Answers, hidden \in BOOLEAN :
          /\ record' = [record EXCEPT ![m].answers[d] = answer]
          /\ accepted' = IF answer = "sent" \/ hidden
                         THEN [accepted EXCEPT ![d] = @ + 1] ELSE accepted
          /\ faults' = IF hidden THEN faults + 1 ELSE faults
    BY <1>7 DEF SendToDevice
  <2> DEFINE r == [record[m] EXCEPT !.answers = [record[m].answers EXCEPT ![d] = answer]]
  <2>2. record' = [record EXCEPT ![m] = r]
    BY <1>0, <2>1 DEF RecordType
  <2>3. r \in RecordType /\ r.sends = record[m].sends /\ r.attempts = record[m].attempts
    BY <1>0 DEF RecordType
  <2> HIDE DEF r
  <2>4. record' \in [Messages -> RecordType]
    BY <1>0, <2>2, <2>3
  <2>5. Bounded'
    BY <1>0, <1>7, <2>2, <2>3 DEF SendToDevice, Bounded, AttemptsLeft
  <2>6. accepted' \in [Devices -> Nat] /\ faults' \in Nat
    BY <2>1 DEF TypeOK
  <2> QED BY <1>7, <2>4, <2>5, <2>6 DEF SendToDevice, TypeOK, ReceivesLeft
<1> QED BY <1>1, <1>2, <1>3, <1>4, <1>5, <1>6, <1>7

\* Every step keeps the types.
LEMMA NextTyped == Typed /\ [Next]_vars => Typed'
<1> SUFFICES ASSUME Typed, [Next]_vars PROVE Typed'
  OBVIOUS
<1>1. CASE UNCHANGED vars
  BY <1>1 DEF vars, Typed, TypeOK, Bounded, AttemptsLeft, ReceivesLeft
<1> QED BY <1>1, QueueTyped, RecordTyped DEF Next

-----------------------------------------------------------------------------
(* One sender.                                                             *)

\* What a step of one record leaves of the others.
LEMMA OthersKeep ==
  ASSUME Local, NEW m \in Messages, \A n \in Messages \ {m} : record'[n] = record[n],
         worker' = worker, now' = now
  PROVE  \A n \in Messages \ {m} :
            /\ ClaimTime(n)' /\ SawAbandoned(n)'
            /\ guard' = guard => Claimed(n)'
            /\ At(n, "send")' <=> At(n, "send")
<1> SUFFICES ASSUME NEW n \in Messages \ {m}
             PROVE  /\ ClaimTime(n)' /\ SawAbandoned(n)'
                    /\ guard' = guard => Claimed(n)'
                    /\ At(n, "send")' <=> At(n, "send")
  OBVIOUS
<1>1. record'[n] = record[n] /\ ClaimTime(n) /\ SawAbandoned(n) /\ Claimed(n)
  BY DEF Local
<1>2. ClaimTime(n)'
  BY <1>1 DEF ClaimTime
<1>3. SawAbandoned(n)'
  BY <1>1 DEF SawAbandoned, At
<1>4. ASSUME guard' = guard PROVE Claimed(n)'
  BY <1>1, <1>4 DEF Claimed, At
<1>5. At(n, "send")' <=> At(n, "send")
  BY <1>1 DEF At
<1> QED BY <1>2, <1>3, <1>4, <1>5

\* A record that starts to send while no other does is the only sender.
LEMMA SenderStep ==
  ASSUME OneSender, NEW m \in Messages, worker' = worker,
         \A n \in Messages \ {m} : record'[n] = record[n],
         record'[m].pc = "send" =>
            \A n \in Messages \ {m} : ~(worker.live /\ record[n].pc = "send")
  PROVE  OneSender'
<1> SUFFICES ASSUME NEW k \in Messages, NEW n \in Messages, At(k, "send")', At(n, "send")'
             PROVE  k = n
  BY DEF OneSender
<1>1. CASE k = m
  BY <1>1 DEF At
<1>2. CASE n = m
  BY <1>2 DEF At
<1>3. CASE k # m /\ n # m
  BY <1>3 DEF OneSender, At
<1> QED BY <1>1, <1>2, <1>3

\* A record that settles leaves the rest as it was.
LEMMA SettledStep ==
  ASSUME IInv, NEW m \in Messages, NEW pc \in {"ok", "error"}, Finish(m, pc),
         worker' = worker, now' = now, guard' = guard
  PROVE  Alive' /\ Local' /\ OneSender' /\ SentIsFinal'
<1>1. /\ record'[m].pc = pc
      /\ \A n \in Messages \ {m} : record'[n] = record[n]
  BY FinishKeeps DEF IInv, Typed, Pcs
<1>2. \A n \in Messages \ {m} : /\ ClaimTime(n)' /\ SawAbandoned(n)' /\ Claimed(n)'
                                /\ At(n, "send")' <=> At(n, "send")
  BY <1>1, OthersKeep DEF IInv, ClaimTime, SawAbandoned, Claimed, At
<1>3. ClaimTime(m)' /\ SawAbandoned(m)' /\ Claimed(m)' /\ ~At(m, "send")'
  BY <1>1 DEF ClaimTime, SawAbandoned, Claimed, At
<1>4. SentIsFinal'
  BY DEF IInv, SentIsFinal
<1>5. Local'
  <2> SUFFICES ASSUME NEW n \in Messages PROVE ClaimTime(n)' /\ SawAbandoned(n)' /\ Claimed(n)'
    BY DEF Local
  <2>1. CASE n = m
    BY <1>3, <2>1
  <2>2. CASE n # m
    BY <1>2, <2>2 DEF ClaimTime, SawAbandoned, Claimed, At
  <2> QED BY <2>1, <2>2
<1>6. OneSender'
  BY <1>1, SenderStep DEF IInv, At
<1>7. Alive'
  BY DEF IInv, Alive
<1> QED BY <1>5, <1>6, <1>7, <1>4

\* A record that takes the claim finds no other sending, and is the only sender.
LEMMA ClaimedStep ==
  ASSUME IInv, NEW m \in Messages, Goto(m, "send"), At(m, "claim") \/ At(m, "retake"),
         worker' = worker, now' = now,
         \A n \in Messages : ~At(n, "send"),
         guard'.state = "CLAIMED", guard'.failure = FALSE, guard'.sentAt = record[m].sentAt
  PROVE  Alive' /\ Local' /\ OneSender' /\ SentIsFinal'
<1>1. /\ record'[m] = [record[m] EXCEPT !.pc = "send"]
      /\ \A n \in Messages \ {m} : record'[n] = record[n]
  BY GotoKeeps DEF IInv, Typed, Pcs
<1>2. record'[m].pc = "send" /\ record'[m].sentAt = record[m].sentAt
  BY <1>1 DEF IInv, Typed, TypeOK, RecordType
<1>3. \A n \in Messages \ {m} : /\ ClaimTime(n)' /\ SawAbandoned(n)'
                                /\ At(n, "send")' <=> At(n, "send")
  BY <1>1, OthersKeep DEF IInv, ClaimTime, SawAbandoned, Claimed, At
<1>4. \A n \in Messages \ {m} : ~At(n, "send")' /\ Claimed(n)'
  BY <1>3 DEF Claimed, At
<1>5. worker.start <= record[m].sentAt /\ record[m].sentAt <= now
  BY DEF IInv, Local, ClaimTime, At
<1>6. ClaimTime(m)' /\ SawAbandoned(m)' /\ Claimed(m)'
  BY <1>2, <1>5 DEF ClaimTime, SawAbandoned, Claimed, At
<1>7. SentIsFinal'
  BY DEF SentIsFinal
<1>8. Local'
  BY <1>3, <1>4, <1>6 DEF Local, ClaimTime, SawAbandoned, Claimed, At
<1>9. OneSender'
  BY <1>1, SenderStep DEF IInv, At
<1>10. Alive'
  BY DEF IInv, Alive
<1> QED BY <1>8, <1>9, <1>10, <1>7

\* A message's own steps keep one sender.
LEMMA RecordStep ==
  ASSUME IInv, NEW m \in Messages,
         \/ ReadEligibility(m) \/ Claim(m) \/ ReadGuard(m) \/ Retake(m)
         \/ RecordOutcome(m) \/ ThrowCall(m) \/ \E d \in Devices : SendToDevice(m, d)
  PROVE  Alive' /\ Local' /\ OneSender' /\ SentIsFinal'
<1>0. /\ record \in [Messages -> RecordType] /\ guard \in GuardType /\ now \in Nat
      /\ worker \in [live : BOOLEAN, start : Nat]
  BY DEF IInv, Typed, TypeOK
<1>1. CASE ReadEligibility(m)
  <2>1. CASE Finish(m, "ok")
    BY <1>1, <2>1, SettledStep DEF ReadEligibility
  <2>2. CASE record' = [record EXCEPT ![m].pc = "claim", ![m].sentAt = now]
    <3>1. /\ record'[m].pc = "claim" /\ record'[m].sentAt = now
          /\ \A n \in Messages \ {m} : record'[n] = record[n]
      BY <1>0, <2>2 DEF RecordType
    <3>2. \A n \in Messages \ {m} : /\ ClaimTime(n)' /\ SawAbandoned(n)' /\ Claimed(n)'
                                    /\ At(n, "send")' <=> At(n, "send")
      BY <1>1, <3>1, OthersKeep DEF IInv, ReadEligibility, ClaimTime, SawAbandoned, Claimed, At
    <3>3. ClaimTime(m)' /\ SawAbandoned(m)' /\ Claimed(m)' /\ ~At(m, "send")'
      BY <1>0, <1>1, <3>1 DEF ReadEligibility, IInv, Alive, ClaimTime, SawAbandoned, Claimed, At
    <3>4. worker' = worker /\ now' = now /\ SentIsFinal'
      BY <1>1 DEF ReadEligibility, IInv, SentIsFinal
    <3>5. Local'
      BY <3>2, <3>3 DEF Local, ClaimTime, SawAbandoned, Claimed, At
    <3>6. OneSender'
      BY <3>1, <3>4, SenderStep DEF IInv, At
    <3>7. Alive'
      BY <3>4 DEF IInv, Alive
    <3> QED BY <3>5, <3>6, <3>7, <3>4
  <2> QED BY <1>1, <2>1, <2>2 DEF ReadEligibility
<1>2. CASE Claim(m)
  <2>1. CASE guard.state = "absent"
    <3>1. \A n \in Messages : ~At(n, "send")
      BY <2>1 DEF IInv, Local, Claimed
    <3>2. guard'.state = "CLAIMED" /\ guard'.failure = FALSE /\ guard'.sentAt = record[m].sentAt
      BY <1>2, <2>1 DEF Claim, NoGuard
    <3> QED BY <1>2, <2>1, <3>1, <3>2, ClaimedStep DEF Claim
  <2>2. CASE guard.state # "absent"
    <3>1. Goto(m, "conflict") /\ guard' = guard /\ worker' = worker /\ now' = now
      BY <1>2, <2>2 DEF Claim
    <3>2. /\ record'[m].pc = "conflict" /\ record'[m].sentAt = record[m].sentAt
          /\ \A n \in Messages \ {m} : record'[n] = record[n]
      BY <1>0, <3>1 DEF Goto, RecordType
    <3>3. \A n \in Messages \ {m} : /\ ClaimTime(n)' /\ SawAbandoned(n)' /\ Claimed(n)'
                                    /\ At(n, "send")' <=> At(n, "send")
      BY <3>1, <3>2, OthersKeep DEF IInv, ClaimTime, SawAbandoned, Claimed, At
    <3>4. ClaimTime(m)' /\ SawAbandoned(m)' /\ Claimed(m)' /\ ~At(m, "send")'
      BY <1>2, <3>1, <3>2 DEF Claim, IInv, Local, ClaimTime, SawAbandoned, Claimed, At
    <3>5. SentIsFinal'
      BY <3>1 DEF IInv, SentIsFinal
    <3>6. Local'
      BY <3>3, <3>4 DEF Local, ClaimTime, SawAbandoned, Claimed, At
    <3>7. OneSender'
      BY <3>1, <3>2, SenderStep DEF IInv, At
    <3>8. Alive'
      BY <3>1 DEF IInv, Alive
    <3> QED BY <3>6, <3>7, <3>8, <3>5
  <2> QED BY <2>1, <2>2
<1>3. CASE ReadGuard(m)
  <2>1. CASE guard.failure \/ ClaimAbandoned(m)
    <3>1. /\ record'[m].pc = "retake" /\ record'[m].sentAt = record[m].sentAt
          /\ record'[m].seenFailed = guard.failure /\ record'[m].seenAt = guard.sentAt
          /\ \A n \in Messages \ {m} : record'[n] = record[n]
      BY <1>0, <1>3, <2>1 DEF ReadGuard, RecordType
    <3>2. guard' = guard /\ worker' = worker /\ now' = now
      BY <1>3 DEF ReadGuard
    <3>3. \A n \in Messages \ {m} : /\ ClaimTime(n)' /\ SawAbandoned(n)' /\ Claimed(n)'
                                    /\ At(n, "send")' <=> At(n, "send")
      BY <3>1, <3>2, OthersKeep DEF IInv, ClaimTime, SawAbandoned, Claimed, At
    <3>4. worker.start <= record[m].sentAt /\ record[m].sentAt <= now
          /\ now <= worker.start + Timeout
      BY <1>3 DEF ReadGuard, IInv, Local, Alive, ClaimTime, At
    <3>5. ClaimAbandoned(m) => guard.sentAt < worker.start
      <4>1. record[m].sentAt \in Nat /\ guard.sentAt \in Nat /\ worker.start \in Nat
        BY <1>0 DEF RecordType, GuardType
      <4> QED BY <1>0, <3>4, <4>1, WorkerConstants DEF ClaimAbandoned
    <3>6. ClaimTime(m)' /\ SawAbandoned(m)' /\ Claimed(m)' /\ ~At(m, "send")'
      BY <2>1, <3>1, <3>2, <3>4, <3>5 DEF ClaimTime, SawAbandoned, Claimed, At
    <3>7. SentIsFinal'
      BY <3>2 DEF IInv, SentIsFinal
    <3>8. Local'
      BY <3>3, <3>6 DEF Local, ClaimTime, SawAbandoned, Claimed, At
    <3>9. OneSender'
      BY <3>1, <3>2, SenderStep DEF IInv, At
    <3>10. Alive'
      BY <3>2 DEF IInv, Alive
    <3> QED BY <3>8, <3>9, <3>10, <3>7
  <2>2. CASE ~(guard.failure \/ ClaimAbandoned(m))
    BY <1>3, <2>2, SettledStep DEF ReadGuard
  <2> QED BY <2>1, <2>2
<1>4. CASE Retake(m)
  <2>1. CASE StillAsSeen(m)
    <3>1. \A n \in Messages : ~At(n, "send")
      <4> SUFFICES ASSUME NEW n \in Messages, At(n, "send") PROVE FALSE
        OBVIOUS
      <4>1. guard.state = "CLAIMED" /\ guard.failure = FALSE /\ worker.start <= guard.sentAt
        BY DEF IInv, Local, Claimed
      <4>2. ~record[m].seenFailed /\ guard.sentAt = record[m].seenAt
        BY <2>1, <4>1 DEF StillAsSeen
      <4>3. record[m].seenAt < worker.start
        BY <1>4, <4>2 DEF Retake, IInv, Local, SawAbandoned
      <4>4. guard.sentAt \in Nat /\ worker.start \in Nat
        BY <1>0 DEF GuardType
      <4> QED BY <4>1, <4>2, <4>3, <4>4
    <3>2. guard'.state = "CLAIMED" /\ guard'.failure = FALSE /\ guard'.sentAt = record[m].sentAt
      BY <1>0, <1>4, <2>1 DEF Retake, GuardType
    <3> QED BY <1>4, <2>1, <3>1, <3>2, ClaimedStep DEF Retake
  <2>2. CASE ~StillAsSeen(m)
    BY <1>4, <2>2, SettledStep DEF Retake
  <2> QED BY <2>1, <2>2
<1>5. CASE RecordOutcome(m)
  <2>1. At(m, "send") /\ worker' = worker /\ now' = now
    BY <1>5 DEF RecordOutcome
  <2>2. PICK pc \in {"error", "ok"} : Finish(m, pc)
    BY <1>5 DEF RecordOutcome
  <2>3. /\ record'[m].pc = pc
        /\ \A n \in Messages \ {m} : record'[n] = record[n]
    BY <2>2, FinishKeeps DEF IInv, Typed, Pcs
  <2>4. \A n \in Messages \ {m} : /\ ClaimTime(n)' /\ SawAbandoned(n)'
                                  /\ At(n, "send")' <=> At(n, "send")
    BY <2>1, <2>3, OthersKeep DEF IInv, ClaimTime, SawAbandoned, Claimed, At
  <2>5. \A n \in Messages : ~At(n, "send")'
    BY <2>1, <2>3, <2>4 DEF IInv, OneSender, At
  <2>6. ClaimTime(m)' /\ SawAbandoned(m)'
    BY <2>3 DEF ClaimTime, SawAbandoned, At
  <2>7. SentIsFinal'
    <3>1. guard.state = "CLAIMED" /\ guard.failure = FALSE
      BY <2>1 DEF IInv, Local, Claimed
    <3>2. CASE guard' = guard
      BY <3>1, <3>2 DEF SentIsFinal
    <3>3. CASE guard' = [guard EXCEPT
                         !.state = IF Reached(m) # {} THEN "SENT" ELSE "FAILED",
                         !.failure = (@ \/ Reached(m) = {}),
                         !.sends = NewSends(m), !.attempts = NewAttempts(m)]
      <4>1. /\ guard'.state = IF Reached(m) # {} THEN "SENT" ELSE "FAILED"
            /\ guard'.failure = (guard.failure \/ Reached(m) = {})
        BY <1>0, <3>3 DEF GuardType
      <4> QED BY <3>1, <4>1 DEF SentIsFinal
    <3> QED BY <1>5, <3>2, <3>3 DEF RecordOutcome
  <2>8. \A n \in Messages : Claimed(n)'
    BY <2>5 DEF Claimed
  <2>9. Local'
    BY <2>4, <2>6, <2>8 DEF Local, ClaimTime, SawAbandoned, Claimed, At
  <2>10. OneSender'
    BY <2>1, <2>3, SenderStep DEF IInv, At
  <2>11. Alive'
    BY <2>1 DEF IInv, Alive
  <2> QED BY <2>9, <2>10, <2>11, <2>7
<1>6. CASE ThrowCall(m)
  BY <1>6, SettledStep DEF ThrowCall
<1>7. ASSUME NEW d \in Devices, SendToDevice(m, d)
      PROVE  Alive' /\ Local' /\ OneSender' /\ SentIsFinal'
  <2>1. /\ worker' = worker /\ now' = now /\ guard' = guard
        /\ \E answer \in Answers : record' = [record EXCEPT ![m].answers[d] = answer]
    BY <1>7 DEF SendToDevice
  <2>2. /\ record'[m].pc = record[m].pc /\ record'[m].sentAt = record[m].sentAt
        /\ record'[m].seenFailed = record[m].seenFailed /\ record'[m].seenAt = record[m].seenAt
        /\ \A n \in Messages \ {m} : record'[n] = record[n]
    BY <1>0, <2>1 DEF RecordType
  <2> QED BY <2>1, <2>2 DEF IInv, Alive, Local, OneSender, SentIsFinal, ClaimTime, SawAbandoned,
                           Claimed, At
<1> QED BY <1>1, <1>2, <1>3, <1>4, <1>5, <1>6, <1>7

\* The queue, the clock and the ends of an invocation keep one sender.
LEMMA QueueStep ==
  ASSUME IInv,
         \/ Tick \/ Deactivate \/ Return \/ Die
         \/ \E batch \in SUBSET Messages : Receive(batch)
         \/ \E m \in Messages : Publish(m) \/ Reappear(m)
  PROVE  Alive' /\ Local' /\ OneSender' /\ SentIsFinal'
<1>0. /\ record \in [Messages -> RecordType] /\ now \in Nat
      /\ worker \in [live : BOOLEAN, start : Nat]
  BY DEF IInv, Typed, TypeOK
<1>1. CASE Tick
  <2>1. now' = now + 1 /\ UNCHANGED <<worker, record, guard>>
    BY <1>1 DEF Tick
  <2>2. Alive'
    BY <1>0, <1>1, <2>1, WorkerConstants DEF Tick, IInv, Alive
  <2>3. \A m \in Messages : ClaimTime(m)'
    BY <1>0, <2>1 DEF IInv, Local, ClaimTime, RecordType
  <2> QED BY <2>1, <2>2, <2>3 DEF IInv, Local, SawAbandoned, Claimed, OneSender, SentIsFinal, At
<1>2. CASE UNCHANGED <<now, worker, record, guard>>
  BY <1>2 DEF IInv, Alive, Local, ClaimTime, SawAbandoned, Claimed, OneSender, SentIsFinal, At
<1>3. CASE Return \/ Die
  <2>1. worker'.live = FALSE /\ guard' = guard
    BY <1>0, <1>3 DEF Return, Die
  <2> QED BY <2>1 DEF IInv, Alive, Local, ClaimTime, SawAbandoned, Claimed, OneSender, SentIsFinal,
                      At
<1>4. ASSUME NEW batch \in SUBSET Messages, Receive(batch)
      PROVE  Alive' /\ Local' /\ OneSender' /\ SentIsFinal'
  <2>1. worker'.start = now /\ now' = now /\ guard' = guard
    BY <1>4 DEF Receive
  <2>2. \A m \in Messages : record'[m].pc \in {"read", "none"}
    BY <1>4 DEF Receive, NoRecord
  <2>3. Alive'
    BY <1>0, <2>1, WorkerConstants DEF Alive
  <2> QED BY <2>1, <2>2, <2>3 DEF IInv, Local, ClaimTime, SawAbandoned, Claimed, OneSender,
                                  SentIsFinal, At
<1> QED BY <1>1, <1>2, <1>3, <1>4 DEF Deactivate, Publish, Reappear

\* The invariant holds at first.
LEMMA InitInductive == Init => IInv
BY InitTyped DEF Init, IInv, Alive, Local, ClaimTime, SawAbandoned, Claimed, OneSender,
                 SentIsFinal, At, NoGuard

\* Every step keeps it.
LEMMA StepInductive == IInv /\ [Next]_vars => IInv'
<1> SUFFICES ASSUME IInv, [Next]_vars PROVE IInv'
  OBVIOUS
<1>1. Typed'
  BY NextTyped DEF IInv
<1>2. CASE UNCHANGED vars
  BY <1>1, <1>2 DEF vars, IInv, Alive, Local, ClaimTime, SawAbandoned, Claimed, OneSender,
                    SentIsFinal, At
<1>3. CASE Next
  BY <1>1, <1>3, QueueStep, RecordStep DEF Next, IInv
<1> QED BY <1>2, <1>3

\* The invariant of the worker: types, the age of a live worker, what its records have read and
\* what a sender's guard holds.
THEOREM WorkerInductive == Spec => []IInv
BY InitInductive, StepInductive, PTL DEF Spec

\* Every variable of the worker keeps its type; no device is sent to more often than it may.
THEOREM WorkerTypeCorrect == Spec => []TypeOK
<1>1. IInv => TypeOK
  BY DEF IInv, Typed
<1> QED BY <1>1, WorkerInductive, PTL

\* One message at a time sends the page (deliverChannelMessage.ts:143-216, 602-666).
THEOREM OneMessageSends == Spec => []OneSender
<1>1. IInv => OneSender
  BY DEF IInv
<1> QED BY <1>1, WorkerInductive, PTL

\* No step takes a sent page's guard out of SENT.
LEMMA SentStep ==
  ASSUME IInv, [Next]_vars, guard.state = "SENT"
  PROVE  guard'.state = "SENT"
<1>1. ASSUME NEW m \in Messages, Claim(m) PROVE guard' = guard
  BY <1>1 DEF Claim
<1>2. ASSUME NEW m \in Messages, Retake(m) PROVE guard' = guard
  BY <1>2 DEF Retake, StillAsSeen, IInv, SentIsFinal
<1>3. ASSUME NEW m \in Messages PROVE ~RecordOutcome(m)
  BY <1>3 DEF RecordOutcome, IInv, Local, Claimed
<1>4. CASE UNCHANGED vars
  BY <1>4 DEF vars
<1>5. CASE Next
  BY <1>1, <1>2, <1>3, <1>5 DEF Next, Tick, Return, Die, Deactivate, Receive, Publish, Reappear,
                              ReadEligibility, ReadGuard, ThrowCall, SendToDevice
<1> QED BY <1>4, <1>5

\* No redelivery reopens a page that was sent (deliverChannelMessage.ts:628-666).
THEOREM SentPageStaysSent == Spec => SentStaysSent
<1>1. IInv /\ [Next]_vars => [guard.state = "SENT" => guard'.state = "SENT"]_vars
  BY SentStep
<1> QED BY <1>1, WorkerInductive, PTL DEF Spec, SentStaysSent

-----------------------------------------------------------------------------
(* Duplicates are paid for.                                                *)

\* A device has an answer only while its record sends, and only if it was due one.
Answering(m) ==
    \A d \in Devices : record[m].answers[d] # "none" => record[m].pc = "send" /\ d \in Pending(m)

\* A device's acceptance that no fault has paid for is on record, or about to be.
OnRecord(d) ==
    guard.state = "SENT" \/ \E m \in Messages : At(m, "send") /\ record[m].answers[d] = "sent"

Paid ==
    \A d \in Devices : /\ accepted[d] <= 1 + faults
                       /\ accepted[d] <= faults \/ OnRecord(d)

Accounted == (\A m \in Messages : Answering(m)) /\ Paid

\* A record that has read nothing of the guard and has no answer.
Blank(r) == \A d \in Devices : r.answers[d] = "none" /\ r.sends[d] = "none"

\* A record that has settled, or has just been received, is blank.
LEMMA BlankRecords ==
  /\ Blank(NoRecord)
  /\ \A pc \in Pcs : [NoRecord EXCEPT !.pc = pc].pc = pc /\ Blank([NoRecord EXCEPT !.pc = pc])
BY DEF NoRecord, Fresh, Blank

\* A message's own step leaves the queue, the clock and the other records, and happens only in a
\* live invocation to a record that has not settled.
LEMMA RecordMoves ==
  ASSUME IInv, NEW m \in Messages,
         \/ ReadEligibility(m) \/ Claim(m) \/ ReadGuard(m) \/ Retake(m)
         \/ RecordOutcome(m) \/ ThrowCall(m) \/ \E d \in Devices : SendToDevice(m, d)
  PROVE  /\ UNCHANGED <<now, queue, worker, pageable>>
         /\ worker.live /\ record[m].pc \notin {"none", "ok", "error"}
         /\ \A n \in Messages \ {m} : record'[n] = record[n]
<1>1. record \in [Messages -> RecordType]
  BY DEF IInv, Typed, TypeOK
<1>2. \A n \in Messages \ {m} : record'[n] = record[n]
  BY <1>1 DEF ReadEligibility, Claim, ReadGuard, Retake, RecordOutcome, ThrowCall, SendToDevice,
              Goto, Finish
<1>3. UNCHANGED <<now, queue, worker, pageable>>
  BY DEF ReadEligibility, Claim, ReadGuard, Retake, RecordOutcome, ThrowCall, SendToDevice
<1>4. worker.live /\ record[m].pc \notin {"none", "ok", "error"}
  BY DEF ReadEligibility, Claim, ReadGuard, Retake, RecordOutcome, ThrowCall, SendToDevice, At
<1> QED BY <1>2, <1>3, <1>4

\* A step of a record that does not send to a device keeps its answers, or drops them all.
LEMMA AnswersKept ==
  ASSUME IInv, NEW m \in Messages,
         \/ ReadEligibility(m) \/ Claim(m) \/ ReadGuard(m) \/ Retake(m)
         \/ RecordOutcome(m) \/ ThrowCall(m)
  PROVE  \/ record'[m].answers = record[m].answers /\ record[m].pc # "send"
         \/ Blank(record'[m]) /\ record'[m].pc \in {"ok", "error"}
<1>1. record \in [Messages -> RecordType]
  BY DEF IInv, Typed, TypeOK
<1>0. ASSUME NEW pc \in {"ok", "error"}, Finish(m, pc)
      PROVE  Blank(record'[m]) /\ record'[m].pc = pc
  BY <1>0, <1>1, BlankRecords DEF Finish, Pcs
<1>2. CASE ReadEligibility(m)
  BY <1>0, <1>1, <1>2 DEF ReadEligibility, At, RecordType
<1>3. CASE Claim(m)
  BY <1>1, <1>3 DEF Claim, Goto, At, RecordType
<1>4. CASE ReadGuard(m)
  BY <1>0, <1>1, <1>4 DEF ReadGuard, At, RecordType
<1>5. CASE Retake(m)
  BY <1>0, <1>1, <1>5 DEF Retake, Goto, At, RecordType
<1>6. CASE RecordOutcome(m) \/ ThrowCall(m)
  BY <1>0, <1>6 DEF RecordOutcome, ThrowCall
<1> QED BY <1>2, <1>3, <1>4, <1>5, <1>6

\* No step gives a device an answer it is not due.
LEMMA AnsweringKept ==
  ASSUME IInv, Accounted, [Next]_vars
  PROVE  \A m \in Messages : Answering(m)'
<1>1. record \in [Messages -> RecordType]
  BY DEF IInv, Typed, TypeOK
<1>2. CASE record' = record
  BY <1>2 DEF Accounted, Answering, Pending
<1>3. CASE \A m \in Messages : Blank(record'[m])
  BY <1>3 DEF Answering, Blank
<1>4. ASSUME NEW m \in Messages,
             \/ ReadEligibility(m) \/ Claim(m) \/ ReadGuard(m) \/ Retake(m)
             \/ RecordOutcome(m) \/ ThrowCall(m)
      PROVE  \A n \in Messages : Answering(n)'
  <2>1. \A n \in Messages \ {m} : Answering(n)'
    BY <1>4, RecordMoves DEF Accounted, Answering, Pending
  <2>2. Answering(m)'
    <3>1. CASE Blank(record'[m])
      BY <3>1 DEF Answering, Blank
    <3>2. CASE record'[m].answers = record[m].answers /\ record[m].pc # "send"
      BY <3>2 DEF Accounted, Answering
    <3> QED BY <1>4, <3>1, <3>2, AnswersKept
  <2> QED BY <2>1, <2>2
<1>5. ASSUME NEW m \in Messages, NEW d \in Devices, SendToDevice(m, d)
      PROVE  \A n \in Messages : Answering(n)'
  <2>1. \A n \in Messages \ {m} : Answering(n)'
    BY <1>5, RecordMoves DEF Accounted, Answering, Pending
  <2>2. PICK answer \in Answers : record' = [record EXCEPT ![m].answers[d] = answer]
    BY <1>5 DEF SendToDevice
  <2>3. /\ record'[m].pc = "send" /\ record'[m].sends = record[m].sends
        /\ \A e \in Devices \ {d} : record'[m].answers[e] = record[m].answers[e]
    BY <1>1, <1>5, <2>2 DEF SendToDevice, At, RecordType
  <2>4. d \in Pending(m)
    BY <1>5 DEF SendToDevice
  <2>5. Answering(m)'
    BY <2>3, <2>4 DEF Accounted, Answering, Pending
  <2> QED BY <2>1, <2>5
<1>6. ASSUME Return \/ Die \/ \E batch \in SUBSET Messages : Receive(batch)
      PROVE  \A m \in Messages : Blank(record'[m])
  BY <1>6, BlankRecords DEF Return, Die, Receive, Pcs
<1>7. CASE UNCHANGED vars
  BY <1>2, <1>7 DEF vars
<1>8. CASE Next
  BY <1>2, <1>3, <1>4, <1>5, <1>6, <1>8 DEF Next, Tick, Deactivate, Publish, Reappear
<1> QED BY <1>7, <1>8

\* What is on record stays there while no fault happens: a guard that says SENT stays, and a
\* sender's answers leave its record only for the guard.
LEMMA RecordStays ==
  ASSUME IInv, [Next]_vars, ~Die,
         \A m \in Messages : ~RecordOutcome(m) /\ \A e \in Devices : ~SendToDevice(m, e),
         NEW d \in Devices, OnRecord(d)
  PROVE  OnRecord(d)'
<1>1. CASE guard.state = "SENT"
  BY <1>1, SentStep DEF OnRecord
<1>2. ASSUME NEW m \in Messages, At(m, "send"), record[m].answers[d] = "sent"
      PROVE  At(m, "send")' /\ record'[m].answers[d] = "sent"
  <2>1. CASE UNCHANGED <<worker, record>>
    BY <1>2, <2>1 DEF At
  <2>2. ~Return /\ \A batch \in SUBSET Messages : ~Receive(batch)
    BY <1>2 DEF At, Return, Receive, GroupFree
  <2>3. ASSUME NEW n \in Messages,
               ReadEligibility(n) \/ Claim(n) \/ ReadGuard(n) \/ Retake(n) \/ ThrowCall(n)
        PROVE  At(m, "send")' /\ record'[m].answers[d] = "sent"
    <3>1. n # m
      BY <1>2, <2>3 DEF At, ReadEligibility, Claim, ReadGuard, Retake, ThrowCall
    <3> QED BY <1>2, <2>3, <3>1, RecordMoves DEF At
  <2> QED BY <2>1, <2>2, <2>3 DEF Next, vars, Tick, Deactivate, Publish, Reappear
<1> QED BY <1>1, <1>2 DEF OnRecord

\* Every acceptance but the first is paid for by a fault.
LEMMA PaidKept ==
  ASSUME IInv, Accounted, [Next]_vars
  PROVE  Paid'
<1>1. /\ record \in [Messages -> RecordType] /\ guard \in GuardType
      /\ accepted \in [Devices -> Nat] /\ faults \in Nat
  BY DEF IInv, Typed, TypeOK
<1>2. \A d \in Devices : accepted[d] <= 1 + faults /\ (accepted[d] <= faults \/ OnRecord(d))
  BY DEF Accounted, Paid
<1>3. CASE accepted' = accepted /\ faults' = faults + 1
  BY <1>1, <1>2, <1>3 DEF Paid
<1>4. ASSUME NEW m \in Messages, NEW e \in Devices, SendToDevice(m, e) PROVE Paid'
  <2>1. PICK answer \in Answers, hidden \in BOOLEAN :
          /\ record' = [record EXCEPT ![m].answers[e] = answer]
          /\ accepted' = IF answer = "sent" \/ hidden
                         THEN [accepted EXCEPT ![e] = @ + 1] ELSE accepted
          /\ faults' = IF hidden THEN faults + 1 ELSE faults
          /\ hidden => answer = "transient"
    BY <1>4 DEF SendToDevice
  <2>2. /\ At(m, "send") /\ record[m].answers[e] = "none"
        /\ worker' = worker /\ guard' = guard
    BY <1>4 DEF SendToDevice
  <2>3. /\ record'[m].pc = record[m].pc /\ record'[m].answers[e] = answer
        /\ \A f \in Devices \ {e} : record'[m].answers[f] = record[m].answers[f]
        /\ \A n \in Messages \ {m} : record'[n] = record[n]
    BY <1>1, <2>1 DEF RecordType
  <2>4. guard.state = "CLAIMED" /\ \A n \in Messages : At(n, "send") => n = m
    BY <2>2 DEF IInv, Local, Claimed, OneSender
  <2>5. accepted[e] <= faults
    BY <1>2, <2>2, <2>4 DEF OnRecord
  <2>6. ASSUME NEW d \in Devices \ {e}, OnRecord(d) PROVE OnRecord(d)'
    BY <2>2, <2>3, <2>6 DEF OnRecord, At
  <2>7. \A d \in Devices \ {e} : accepted'[d] = accepted[d]
    BY <1>1, <2>1
  <2>8. accepted'[e] <= 1 + faults' /\ (accepted'[e] <= faults' \/ OnRecord(e)')
    <3>1. CASE hidden
      BY <1>1, <2>1, <2>5, <3>1
    <3>2. CASE answer = "sent"
      <4>1. OnRecord(e)'
        BY <2>2, <2>3, <3>2 DEF OnRecord, At
      <4>2. accepted'[e] <= 1 + faults'
        BY <1>1, <2>1, <2>5, <3>2
      <4> QED BY <4>1, <4>2
    <3>3. CASE ~hidden /\ answer # "sent"
      BY <1>1, <2>1, <2>5, <3>3
    <3> QED BY <3>1, <3>2, <3>3
  <2> SUFFICES ASSUME NEW d \in Devices
               PROVE  accepted'[d] <= 1 + faults' /\ (accepted'[d] <= faults' \/ OnRecord(d)')
    BY DEF Paid
  <2>9. CASE d = e
    BY <2>8, <2>9
  <2>10. CASE d # e
    <3>1. OnRecord(d) => OnRecord(d)'
      BY <2>6, <2>10
    <3>2. accepted'[d] = accepted[d]
      BY <2>7, <2>10
    <3>3. faults <= faults' /\ faults' \in Nat
      BY <1>1, <2>1
    <3> QED BY <1>1, <1>2, <3>1, <3>2, <3>3
  <2> QED BY <2>9, <2>10
<1>5. ASSUME NEW m \in Messages, RecordOutcome(m) PROVE Paid'
  <2>1. CASE faults' = faults + 1
    BY <1>3, <1>5, <2>1 DEF RecordOutcome
  <2>2. CASE /\ guard' = [guard EXCEPT
                         !.state = IF Reached(m) # {} THEN "SENT" ELSE "FAILED",
                         !.failure = (@ \/ Reached(m) = {}),
                         !.sends = NewSends(m), !.attempts = NewAttempts(m)]
             /\ faults' = faults
    <3>1. accepted' = accepted /\ At(m, "send")
      BY <1>5 DEF RecordOutcome
    <3>2. guard.state = "CLAIMED" /\ \A n \in Messages : At(n, "send") => n = m
      BY <3>1 DEF IInv, Local, Claimed, OneSender
    <3>3. ASSUME NEW d \in Devices, OnRecord(d) PROVE OnRecord(d)'
      <4>1. record[m].answers[d] = "sent" /\ d \in Pending(m)
        BY <3>1, <3>2, <3>3 DEF OnRecord, Accounted, Answering
      <4>2. Reached(m) # {}
        BY <4>1 DEF Reached, Answered
      <4>3. guard'.state = "SENT"
        BY <1>1, <2>2, <4>2 DEF GuardType
      <4> QED BY <4>3 DEF OnRecord
    <3> QED BY <1>2, <2>2, <3>1, <3>3 DEF Paid
  <2> QED BY <1>5, <2>1, <2>2 DEF RecordOutcome
<1>6. CASE Die
  BY <1>3, <1>6 DEF Die
<1>7. CASE ~Die /\ \A m \in Messages : ~RecordOutcome(m) /\ \A e \in Devices : ~SendToDevice(m, e)
  <2>1. accepted' = accepted /\ faults' = faults
    BY <1>7 DEF Next, vars, Tick, Return, Deactivate, Receive, Publish, Reappear, ReadEligibility,
                Claim, ReadGuard, Retake, ThrowCall
  <2>2. \A d \in Devices : OnRecord(d) => OnRecord(d)'
    BY <1>7, RecordStays
  <2> QED BY <1>2, <2>1, <2>2 DEF Paid
<1> QED BY <1>4, <1>5, <1>6, <1>7

\* A device is paged twice only for a dead worker, a lost outcome write or a gateway that accepted
\* a send it answered with an error (deliverChannelMessage.ts, deliverPushToDevices).
THEOREM EveryDuplicateIsPaidFor == Spec => []DuplicatesArePaidFor
<1>1. Init => Accounted
  <2> SUFFICES ASSUME Init PROVE Accounted
    OBVIOUS
  <2>1. \A m \in Messages : Answering(m)
    BY BlankRecords DEF Init, Answering, Blank
  <2>2. Paid
    BY DEF Init, Paid, Zero
  <2> QED BY <2>1, <2>2 DEF Accounted
<1>2. IInv /\ Accounted /\ [Next]_vars => Accounted'
  BY AnsweringKept, PaidKept DEF Accounted
<1>3. Accounted => DuplicatesArePaidFor
  BY DEF Accounted, Paid, DuplicatesArePaidFor
<1> QED BY <1>1, <1>2, <1>3, WorkerInductive, PTL DEF Spec

-----------------------------------------------------------------------------
(* No page is lost in silence.  The premise is on the deployment: a claim  *)
(* is old enough to be taken over when its message is visible again.       *)

\* Somebody has the page, or the worker has said that nobody will.
Told == gaveUp \/ \E d \in Devices : accepted[d] > 0

\* A guard that says SENT, of the page or of a device, is right.
GuardTells ==
    /\ guard.state = "FAILED" <=> guard.failure
    /\ guard.state = "SENT" => Told
    /\ \A d \in Devices : guard.sends[d] = "SENT" => accepted[d] > 0

\* So is a record.
RecordTells(m) ==
    \A d \in Devices :
       record[m].sends[d] = "SENT" \/ record[m].answers[d] = "sent" => accepted[d] > 0

\* A record belongs to a live invocation, whose start its message's visibility counts from.
Received(m) ==
    record[m].pc # "none" =>
       /\ worker.live
       /\ queue[m].state = "inflight" /\ queue[m].visibleAt = worker.start + Visibility

\* A claim is taken early in its invocation.
EarlyClaim(m) ==
    /\ record[m].pc \in {"claim", "conflict", "retake", "send"} =>
          record[m].sentAt <= worker.start + ClaimDelay
    /\ record[m].pc = "send" => guard.sentAt <= worker.start + ClaimDelay

\* While there is no guard, nothing is acknowledged unless that was said.
GuardFirst(m) ==
    /\ record[m].pc \in {"conflict", "retake", "send"} => guard.state # "absent"
    /\ record[m].pc = "ok" \/ queue[m].state = "acked" => guard.state # "absent" \/ Told

Story == GuardTells /\ \A m \in Messages : /\ RecordTells(m) /\ Received(m)
                                          /\ EarlyClaim(m) /\ GuardFirst(m)

\* At this time the guard's claim counts as abandoned.
Outlived(time) == guard.sentAt + Stale < time

\* The message that took the guard last is still to be processed, by a record that will find the
\* claim abandoned or the failure recorded.
Owns(o) ==
    /\ record[o].pc # "ok"
    /\ \/ queue[o].state = "deadLettered"
       \/ queue[o].state = "queued" /\ Outlived(now)
       \/ queue[o].state = "inflight" /\ Outlived(queue[o].visibleAt)
    /\ record[o].pc = "read" => Outlived(worker.start)
    /\ record[o].pc \in {"claim", "conflict"} => Outlived(record[o].sentAt)
    /\ record[o].pc = "retake" => StillAsSeen(o)

Owned == Told \/ guard.state = "absent" \/ \E o \in Messages : Owns(o)

\* No acceptance is taken back, and nothing that was said.
LEMMA ToldStays ==
  ASSUME IInv, [Next]_vars
  PROVE  /\ \A d \in Devices : accepted[d] > 0 => accepted'[d] > 0
         /\ Told => Told'
<1>1. accepted \in [Devices -> Nat] /\ gaveUp \in BOOLEAN
  BY DEF IInv, Typed, TypeOK
<1>2. ASSUME NEW d \in Devices, accepted[d] > 0 PROVE accepted'[d] > 0
  <2>1. CASE accepted' = accepted
    BY <1>2, <2>1
  <2>2. ASSUME NEW m \in Messages, NEW e \in Devices, SendToDevice(m, e) PROVE accepted'[d] > 0
    BY <1>1, <1>2, <2>2 DEF SendToDevice
  <2> QED BY <2>1, <2>2 DEF Next, vars, Tick, Return, Die, Deactivate, Receive, Publish, Reappear,
                            ReadEligibility, Claim, ReadGuard, Retake, RecordOutcome, ThrowCall
<1>3. gaveUp => gaveUp'
  <2>1. CASE gaveUp' = gaveUp
    BY <2>1
  <2>2. CASE \E m \in Messages : ReadEligibility(m) \/ RecordOutcome(m)
    BY <2>2 DEF ReadEligibility, RecordOutcome
  <2> QED BY <2>1, <2>2 DEF Next, vars, Tick, Return, Die, Deactivate, Receive, Publish, Reappear,
                            Claim, ReadGuard, Retake, SendToDevice, ThrowCall
<1> QED BY <1>2, <1>3 DEF Told

\* Once taken, the guard is there for good.
LEMMA GuardStays ==
  ASSUME IInv, [Next]_vars, guard.state # "absent"
  PROVE  guard'.state # "absent"
<1>1. guard \in GuardType
  BY DEF IInv, Typed, TypeOK
<1>2. CASE guard' = guard
  BY <1>2
<1>3. ASSUME NEW m \in Messages, Claim(m) \/ Retake(m) \/ RecordOutcome(m)
      PROVE  guard'.state # "absent"
  BY <1>1, <1>3 DEF Claim, Retake, RecordOutcome, GuardType
<1> QED BY <1>2, <1>3 DEF Next, vars, Tick, Return, Die, Deactivate, Receive, Publish, Reappear,
                          ReadEligibility, ReadGuard, SendToDevice, ThrowCall

\* What the guard says stays right.
LEMMA GuardTellsKept ==
  ASSUME IInv, Story, [Next]_vars
  PROVE  GuardTells'
<1>1. guard \in GuardType /\ record \in [Messages -> RecordType] /\ accepted \in [Devices -> Nat]
  BY DEF IInv, Typed, TypeOK
<1>2. CASE guard' = guard
  BY <1>2, ToldStays DEF Story, GuardTells
<1>3. ASSUME NEW m \in Messages, Claim(m), guard.state = "absent" PROVE GuardTells'
  <2>1. guard' = [NoGuard EXCEPT !.state = "CLAIMED", !.sentAt = record[m].sentAt]
    BY <1>3 DEF Claim
  <2>2. /\ guard'.state = "CLAIMED" /\ guard'.failure = FALSE
        /\ \A d \in Devices : guard'.sends[d] = "none"
    BY <2>1 DEF NoGuard, Fresh
  <2> QED BY <2>2 DEF GuardTells
<1>4. ASSUME NEW m \in Messages, Retake(m), StillAsSeen(m) PROVE GuardTells'
  <2>1. /\ guard'.state = "CLAIMED" /\ guard'.failure = FALSE
        /\ guard'.sends = guard.sends
    BY <1>1, <1>4 DEF Retake, GuardType
  <2> QED BY <2>1, ToldStays DEF Story, GuardTells
<1>5. ASSUME NEW m \in Messages, RecordOutcome(m), guard' # guard PROVE GuardTells'
  <2>1. /\ guard' = [guard EXCEPT
                         !.state = IF Reached(m) # {} THEN "SENT" ELSE "FAILED",
                         !.failure = (@ \/ Reached(m) = {}),
                         !.sends = NewSends(m), !.attempts = NewAttempts(m)]
        /\ At(m, "send") /\ accepted' = accepted
    BY <1>5 DEF RecordOutcome
  <2>2. /\ guard'.state = IF Reached(m) # {} THEN "SENT" ELSE "FAILED"
        /\ guard'.failure = (guard.failure \/ Reached(m) = {})
        /\ guard'.sends = NewSends(m)
    BY <1>1, <2>1 DEF GuardType
  <2>3. guard.failure = FALSE
    BY <2>1 DEF IInv, Local, Claimed
  <2>4. \A d \in Reached(m) : d \in Devices /\ accepted[d] > 0
    BY DEF Reached, Answered, Pending, Story, RecordTells
  <2>5. guard'.state = "SENT" => Told'
    BY <2>1, <2>2, <2>4 DEF Told
  <2>6. ASSUME NEW d \in Devices, NewSends(m)[d] = "SENT" PROVE d \in Reached(m)
    BY <2>6 DEF NewSends, Reached
  <2>7. \A d \in Devices : guard'.sends[d] = "SENT" => accepted'[d] > 0
    BY <2>1, <2>2, <2>4, <2>6
  <2>8. guard'.state = "FAILED" <=> guard'.failure
    BY <2>2, <2>3
  <2> QED BY <2>5, <2>7, <2>8 DEF GuardTells
<1> QED BY <1>2, <1>3, <1>4, <1>5
        DEF Next, vars, Tick, Return, Die, Deactivate, Receive, Publish, Reappear, ReadEligibility,
            Claim, Retake, ReadGuard, SendToDevice, ThrowCall

\* What a record knows of acceptances stays right.
LEMMA RecordTellsKept ==
  ASSUME IInv, Story, [Next]_vars
  PROVE  \A m \in Messages : RecordTells(m)'
<1>1. /\ record \in [Messages -> RecordType] /\ accepted \in [Devices -> Nat]
      /\ \A m \in Messages : RecordTells(m)
  BY DEF IInv, Typed, TypeOK, Story
<1>2. \A m \in Messages : Blank(record'[m]) \/ record'[m] = record[m] => RecordTells(m)'
  BY <1>1, ToldStays DEF Blank, RecordTells
<1>3. CASE UNCHANGED record
  BY <1>2, <1>3
<1>4. ASSUME Return \/ Die \/ \E batch \in SUBSET Messages : Receive(batch)
      PROVE  \A m \in Messages : RecordTells(m)'
  <2>1. \A m \in Messages : Blank(record'[m])
    BY <1>4, BlankRecords DEF Return, Die, Receive, Pcs
  <2> QED BY <1>2, <2>1
<1>5. ASSUME NEW m \in Messages,
             \/ ReadEligibility(m) \/ Claim(m) \/ ReadGuard(m) \/ Retake(m)
             \/ RecordOutcome(m) \/ ThrowCall(m) \/ \E d \in Devices : SendToDevice(m, d)
      PROVE  \A n \in Messages : RecordTells(n)'
  <2>1. \A n \in Messages \ {m} : RecordTells(n)'
    BY <1>2, <1>5, RecordMoves
  <2>2. ASSUME NEW pc \in {"ok", "error"}, Finish(m, pc) PROVE RecordTells(m)'
    BY <1>1, <1>2, <2>2, BlankRecords DEF Finish, Pcs
  <2>3. ASSUME record'[m].sends = record[m].sends, record'[m].answers = record[m].answers
        PROVE  RecordTells(m)'
    BY <1>1, <2>3, ToldStays DEF RecordTells
  <2>4. ASSUME ReadEligibility(m) PROVE RecordTells(m)'
    BY <1>1, <2>2, <2>3, <2>4 DEF ReadEligibility, RecordType
  <2>5. ASSUME Claim(m) PROVE RecordTells(m)'
    BY <1>1, <2>3, <2>5 DEF Claim, Goto, RecordType
  <2>6. ASSUME ReadGuard(m) PROVE RecordTells(m)'
    <3>1. CASE guard.failure \/ ClaimAbandoned(m)
      <4>1. record'[m].sends = guard.sends /\ record'[m].answers = record[m].answers
        BY <1>1, <2>6, <3>1 DEF ReadGuard, RecordType
      <4> QED BY <1>1, <4>1, ToldStays DEF Story, GuardTells, RecordTells
    <3>2. CASE ~(guard.failure \/ ClaimAbandoned(m))
      BY <2>2, <2>6, <3>2 DEF ReadGuard
    <3> QED BY <3>1, <3>2
  <2>7. ASSUME Retake(m) PROVE RecordTells(m)'
    BY <1>1, <2>2, <2>3, <2>7 DEF Retake, Goto, RecordType
  <2>8. ASSUME RecordOutcome(m) \/ ThrowCall(m) PROVE RecordTells(m)'
    BY <2>2, <2>8 DEF RecordOutcome, ThrowCall
  <2>9. ASSUME NEW d \in Devices, SendToDevice(m, d) PROVE RecordTells(m)'
    <3>1. PICK answer \in Answers, hidden \in BOOLEAN :
            /\ record' = [record EXCEPT ![m].answers[d] = answer]
            /\ accepted' = IF answer = "sent" \/ hidden
                           THEN [accepted EXCEPT ![d] = @ + 1] ELSE accepted
      BY <2>9 DEF SendToDevice
    <3>2. /\ record'[m].sends = record[m].sends /\ record'[m].answers[d] = answer
          /\ \A e \in Devices \ {d} : record'[m].answers[e] = record[m].answers[e]
      BY <1>1, <3>1 DEF RecordType
    <3>3. answer = "sent" => accepted'[d] > 0
      BY <1>1, <3>1
    <3> QED BY <1>1, <3>2, <3>3, ToldStays DEF RecordTells
  <2>10. RecordTells(m)'
    BY <1>5, <2>4, <2>5, <2>6, <2>7, <2>8, <2>9
  <2> QED BY <2>1, <2>10
<1> QED BY <1>3, <1>4, <1>5 DEF Next, vars, Tick, Deactivate, Publish, Reappear

\* A live invocation's messages stay in flight until it has ended.
LEMMA ReceivedKept ==
  ASSUME IInv, Story, [Next]_vars
  PROVE  \A m \in Messages : Received(m)'
<1>1. /\ queue \in [Messages -> QueueType] /\ worker \in [live : BOOLEAN, start : Nat]
      /\ \A m \in Messages : Received(m)
  BY DEF IInv, Typed, TypeOK, Story
<1>2. CASE UNCHANGED <<queue, worker, record>>
  BY <1>1, <1>2 DEF Received
<1>3. ASSUME NEW m \in Messages,
             \/ ReadEligibility(m) \/ Claim(m) \/ ReadGuard(m) \/ Retake(m)
             \/ RecordOutcome(m) \/ ThrowCall(m) \/ \E d \in Devices : SendToDevice(m, d)
      PROVE  \A n \in Messages : Received(n)'
  BY <1>1, <1>3, RecordMoves DEF Received
<1>4. CASE Return \/ Die
  BY <1>4 DEF Return, Die, NoRecord, Received
<1>5. ASSUME NEW batch \in SUBSET Messages, Receive(batch)
      PROVE  \A m \in Messages : Received(m)'
  <2>1. worker' = [live |-> TRUE, start |-> now]
    BY <1>5 DEF Receive
  <2>2. \A m \in batch : queue'[m].state = "inflight" /\ queue'[m].visibleAt = now + Visibility
    BY <1>5 DEF Receive
  <2>3. \A m \in Messages \ batch : record'[m].pc = "none"
    BY <1>5 DEF Receive, NoRecord
  <2> QED BY <2>1, <2>2, <2>3 DEF Received
<1>6. ASSUME NEW m \in Messages, Publish(m) \/ Reappear(m)
      PROVE  \A n \in Messages : Received(n)'
  <2>1. record[m].pc = "none"
    BY <1>1, <1>6 DEF Publish, Reappear, Received
  <2>2. /\ worker' = worker /\ record' = record
        /\ \A n \in Messages \ {m} : queue'[n] = queue[n]
    BY <1>1, <1>6 DEF Publish, Reappear
  <2> QED BY <1>1, <2>1, <2>2 DEF Received
<1> QED BY <1>2, <1>3, <1>4, <1>5, <1>6 DEF Next, vars, Tick, Deactivate

\* A claim is still taken early, and is its own record's.
LEMMA EarlyClaimKept ==
  ASSUME IInv, Story, [Next]_vars
  PROVE  \A m \in Messages : EarlyClaim(m)'
<1>1. /\ record \in [Messages -> RecordType] /\ guard \in GuardType /\ now \in Nat
      /\ worker \in [live : BOOLEAN, start : Nat]
      /\ \A m \in Messages : EarlyClaim(m) /\ Received(m)
  BY DEF IInv, Typed, TypeOK, Story
<1>2. CASE UNCHANGED <<worker, record, guard>>
  BY <1>1, <1>2 DEF EarlyClaim
<1>3. ASSUME Return \/ Die \/ \E batch \in SUBSET Messages : Receive(batch)
      PROVE  \A m \in Messages : EarlyClaim(m)'
  <2>1. \A m \in Messages : record'[m].pc \in {"none", "read"}
    BY <1>3 DEF Return, Die, Receive, NoRecord
  <2> QED BY <2>1 DEF EarlyClaim
<1>4. ASSUME NEW m \in Messages,
             \/ ReadEligibility(m) \/ Claim(m) \/ ReadGuard(m) \/ Retake(m)
             \/ RecordOutcome(m) \/ ThrowCall(m) \/ \E d \in Devices : SendToDevice(m, d)
      PROVE  \A n \in Messages : EarlyClaim(n)'
  <2>1. worker' = worker /\ worker.live /\ \A n \in Messages \ {m} : record'[n] = record[n]
    BY <1>4, RecordMoves
  <2>2. ASSUME NEW n \in Messages \ {m}, record[n].pc = "send"
        PROVE  guard'.sentAt = guard.sentAt
    <3>1. guard.state = "CLAIMED" /\ guard.failure = FALSE
      BY <2>1, <2>2 DEF IInv, Local, Claimed, At
    <3>2. ~At(m, "send")
      BY <2>1, <2>2 DEF IInv, OneSender, At
    <3>3. ~RecordOutcome(m)
      BY <3>2 DEF RecordOutcome
    <3>4. Retake(m) => ~StillAsSeen(m)
      <4> SUFFICES ASSUME Retake(m), StillAsSeen(m) PROVE FALSE
        OBVIOUS
      <4>1. ~record[m].seenFailed /\ guard.sentAt = record[m].seenAt
        BY <3>1 DEF StillAsSeen
      <4>2. record[m].seenAt < worker.start /\ worker.start <= guard.sentAt
        BY <2>1, <2>2, <4>1 DEF Retake, IInv, Local, SawAbandoned, Claimed, At
      <4> QED BY <1>1, <4>1, <4>2 DEF GuardType
    <3> QED BY <1>4, <3>1, <3>3, <3>4
            DEF ReadEligibility, Claim, ReadGuard, Retake, ThrowCall, SendToDevice
  <2>3. \A n \in Messages \ {m} : EarlyClaim(n)'
    BY <1>1, <2>1, <2>2 DEF EarlyClaim
  <2>4. ASSUME NEW pc \in {"ok", "error"}, Finish(m, pc) PROVE EarlyClaim(m)'
    BY <1>1, <2>4, BlankRecords DEF Finish, Pcs, EarlyClaim
  <2>5. ASSUME ReadEligibility(m) PROVE EarlyClaim(m)'
    <3>1. CASE /\ record' = [record EXCEPT ![m].pc = "claim", ![m].sentAt = now]
               /\ now - worker.start <= ClaimDelay
      <4>1. record'[m].pc = "claim" /\ record'[m].sentAt = now
        BY <1>1, <3>1 DEF RecordType
      <4>2. now <= worker.start + ClaimDelay
        BY <1>1, <3>1, WorkerConstants
      <4> QED BY <2>1, <4>1, <4>2 DEF EarlyClaim
    <3>2. CASE Finish(m, "ok")
      BY <2>4, <3>2
    <3> QED BY <2>5, <3>1, <3>2 DEF ReadEligibility
  <2>6. ASSUME Claim(m) PROVE EarlyClaim(m)'
    <3>1. record'[m].pc \in {"send", "conflict"} /\ record'[m].sentAt = record[m].sentAt
      BY <1>1, <2>6 DEF Claim, Goto, RecordType
    <3>2. record'[m].pc = "send" => guard'.sentAt = record[m].sentAt
      BY <1>1, <2>6 DEF Claim, Goto, RecordType, NoGuard
    <3>3. record[m].sentAt <= worker.start + ClaimDelay
      BY <1>1, <2>6 DEF Claim, At, EarlyClaim
    <3> QED BY <2>1, <3>1, <3>2, <3>3 DEF EarlyClaim
  <2>7. ASSUME ReadGuard(m) PROVE EarlyClaim(m)'
    <3>1. CASE guard.failure \/ ClaimAbandoned(m)
      <4>1. record'[m].pc = "retake" /\ record'[m].sentAt = record[m].sentAt
        BY <1>1, <2>7, <3>1 DEF ReadGuard, RecordType
      <4>2. record[m].sentAt <= worker.start + ClaimDelay
        BY <1>1, <2>7 DEF ReadGuard, At, EarlyClaim
      <4> QED BY <2>1, <4>1, <4>2 DEF EarlyClaim
    <3>2. CASE ~(guard.failure \/ ClaimAbandoned(m))
      BY <2>4, <2>7, <3>2 DEF ReadGuard
    <3> QED BY <3>1, <3>2
  <2>8. ASSUME Retake(m) PROVE EarlyClaim(m)'
    <3>1. CASE StillAsSeen(m)
      <4>0. /\ record' = [record EXCEPT ![m].pc = "send"]
            /\ guard' = [guard EXCEPT !.state = "CLAIMED", !.sentAt = record[m].sentAt,
                                      !.failure = FALSE]
        BY <2>8, <3>1 DEF Retake, Goto
      <4>1. /\ record'[m].pc = "send" /\ record'[m].sentAt = record[m].sentAt
            /\ guard'.sentAt = record[m].sentAt
        BY <1>1, <4>0 DEF RecordType, GuardType
      <4>2. record[m].sentAt <= worker.start + ClaimDelay
        BY <1>1, <2>8 DEF Retake, At, EarlyClaim
      <4> QED BY <2>1, <4>1, <4>2 DEF EarlyClaim
    <3>2. CASE ~StillAsSeen(m)
      BY <2>4, <2>8, <3>2 DEF Retake
    <3> QED BY <3>1, <3>2
  <2>9. ASSUME RecordOutcome(m) \/ ThrowCall(m) PROVE EarlyClaim(m)'
    BY <2>4, <2>9 DEF RecordOutcome, ThrowCall
  <2>10. ASSUME NEW d \in Devices, SendToDevice(m, d) PROVE EarlyClaim(m)'
    <3>1. PICK answer \in Answers : record' = [record EXCEPT ![m].answers[d] = answer]
      BY <2>10 DEF SendToDevice
    <3>2. /\ record'[m].pc = record[m].pc /\ record'[m].sentAt = record[m].sentAt
          /\ guard' = guard
      BY <1>1, <2>10, <3>1 DEF SendToDevice, RecordType
    <3> QED BY <1>1, <2>1, <3>2 DEF EarlyClaim
  <2>11. EarlyClaim(m)'
    BY <1>4, <2>4, <2>5, <2>6, <2>7, <2>8, <2>9, <2>10
  <2> QED BY <2>3, <2>11
<1> QED BY <1>2, <1>3, <1>4 DEF Next, vars, Tick, Deactivate, Publish, Reappear

\* Before there is a guard, only what was said is acknowledged.
LEMMA GuardFirstKept ==
  ASSUME IInv, Story, [Next]_vars
  PROVE  \A m \in Messages : GuardFirst(m)'
<1>1. /\ record \in [Messages -> RecordType] /\ queue \in [Messages -> QueueType]
      /\ guard \in GuardType /\ \A m \in Messages : GuardFirst(m)
  BY DEF IInv, Typed, TypeOK, Story
<1>2. (guard.state # "absent" => guard'.state # "absent") /\ (Told => Told')
  BY GuardStays, ToldStays
<1>3. ASSUME NEW m \in Messages, record'[m] = record[m],
             queue'[m].state = "acked" => queue[m].state = "acked"
      PROVE  GuardFirst(m)'
  BY <1>1, <1>2, <1>3 DEF GuardFirst
<1>4. CASE record' = record /\ queue' = queue
  BY <1>3, <1>4
<1>5. ASSUME NEW m \in Messages, Publish(m) \/ Reappear(m)
      PROVE  \A n \in Messages : GuardFirst(n)'
  <2>1. record' = record
    BY <1>5 DEF Publish, Reappear
  <2>2. \A n \in Messages : queue'[n].state = "acked" => queue[n].state = "acked"
    BY <1>1, <1>5 DEF Publish, Reappear, QueueType
  <2> QED BY <1>3, <2>1, <2>2
<1>6. ASSUME NEW batch \in SUBSET Messages, Receive(batch)
      PROVE  \A m \in Messages : GuardFirst(m)'
  <2>1. \A m \in Messages : record'[m].pc \in {"none", "read"}
    BY <1>6 DEF Receive, NoRecord
  <2>2. \A m \in Messages : queue'[m].state = "acked" => queue[m].state = "acked"
    BY <1>6 DEF Receive
  <2> QED BY <1>1, <1>2, <2>1, <2>2 DEF GuardFirst
<1>7. CASE Return
  <2>1. \A m \in Messages : record'[m].pc = "none"
    BY <1>7 DEF Return, NoRecord
  <2>2. \A m \in Messages : queue'[m].state = "acked" =>
                               queue[m].state = "acked" \/ record[m].pc = "ok"
    BY <1>7 DEF Return
  <2> QED BY <1>1, <1>2, <2>1, <2>2 DEF GuardFirst
<1>8. CASE Die
  <2>1. queue' = queue /\ \A m \in Messages : record'[m].pc = "none"
    BY <1>8 DEF Die, NoRecord
  <2> QED BY <1>1, <1>2, <2>1 DEF GuardFirst
<1>9. ASSUME NEW m \in Messages,
             \/ ReadEligibility(m) \/ Claim(m) \/ ReadGuard(m) \/ Retake(m)
             \/ RecordOutcome(m) \/ ThrowCall(m) \/ \E d \in Devices : SendToDevice(m, d)
      PROVE  \A n \in Messages : GuardFirst(n)'
  <2>1. queue' = queue /\ \A n \in Messages \ {m} : record'[n] = record[n]
    BY <1>9, RecordMoves
  <2>2. GuardFirst(m)
    BY <1>1
  <2>3. ASSUME NEW pc \in {"ok", "error"}, Finish(m, pc) PROVE record'[m].pc = pc
    BY <1>1, <2>3, BlankRecords DEF Finish, Pcs
  <2>4. guard.state # "absent" => GuardFirst(m)'
    BY <1>2, <2>1 DEF GuardFirst
  <2>5. ASSUME ReadEligibility(m) PROVE GuardFirst(m)'
    <3>1. (record'[m].pc = "ok" /\ Told') \/ record'[m].pc = "claim"
      BY <1>1, <2>3, <2>5 DEF ReadEligibility, RecordType, Told
    <3> QED BY <1>2, <2>1, <2>2, <3>1 DEF GuardFirst
  <2>6. ASSUME Claim(m), guard.state = "absent" PROVE GuardFirst(m)'
    <3>1. record'[m].pc = "send" /\ guard'.state = "CLAIMED"
      BY <1>1, <2>6 DEF Claim, Goto, RecordType, NoGuard
    <3> QED BY <3>1 DEF GuardFirst
  <2>7. ASSUME ThrowCall(m) PROVE GuardFirst(m)'
    <3>1. record'[m].pc = "error"
      BY <2>3, <2>7 DEF ThrowCall
    <3> QED BY <1>2, <2>1, <2>2, <3>1 DEF GuardFirst
  <2>8. ReadGuard(m) \/ Retake(m) \/ RecordOutcome(m) \/ (\E d \in Devices : SendToDevice(m, d))
          => guard.state # "absent"
    BY <2>2 DEF ReadGuard, Retake, RecordOutcome, SendToDevice, At, GuardFirst
  <2>9. GuardFirst(m)'
    BY <1>9, <2>4, <2>5, <2>6, <2>7, <2>8
  <2> QED BY <1>3, <2>1, <2>9
<1> QED BY <1>4, <1>5, <1>6, <1>7, <1>8, <1>9 DEF Next, vars, Tick, Deactivate

\* A record that has the guard in its hand owns the page, and so does one that leaves it for a
\* redelivery.
LEMMA SenderOwns ==
  ASSUME ClaimDelay + Stale < Visibility, IInv', Story', NEW m \in Messages,
         record'[m].pc \in {"send", "error"}, guard'.sentAt <= worker'.start + ClaimDelay
  PROVE  Owns(m)'
<1>1. guard'.sentAt \in Nat /\ worker'.start \in Nat
  BY DEF IInv, Typed, TypeOK, GuardType
<1>2. queue'[m].state = "inflight" /\ queue'[m].visibleAt = worker'.start + Visibility
  BY DEF Story, Received
<1>3. guard'.sentAt + Stale < queue'[m].visibleAt
  BY <1>1, <1>2, WorkerConstants
<1> QED BY <1>2, <1>3 DEF Owns, Outlived

\* The queue, the clock and the ends of an invocation leave the owner its claim.
LEMMA QueueKeepsOwner ==
  ASSUME IInv, Story, NEW o \in Messages, Owns(o),
         \/ Tick \/ Deactivate \/ Return \/ Die
         \/ \E batch \in SUBSET Messages : Receive(batch)
         \/ \E m \in Messages : Publish(m) \/ Reappear(m)
  PROVE  Owns(o)'
<1>1. /\ record \in [Messages -> RecordType] /\ queue \in [Messages -> QueueType]
      /\ guard \in GuardType /\ now \in Nat /\ guard' = guard /\ Received(o)
  BY DEF IInv, Typed, TypeOK, Story, Tick, Deactivate, Return, Die, Receive, Publish, Reappear
<1>2. guard.sentAt \in Nat /\ queue[o].visibleAt \in Nat
  BY <1>1 DEF GuardType, QueueType
<1>3. ASSUME Tick PROVE Owns(o)'
  <2>1. now' = now + 1 /\ UNCHANGED <<queue, worker, record, guard>>
    BY <1>3 DEF Tick
  <2>2. Outlived(now) => Outlived(now)'
    BY <1>1, <1>2, <2>1, WorkerConstants DEF Outlived
  <2> QED BY <2>1, <2>2 DEF Owns, Outlived, StillAsSeen
<1>4. ASSUME Deactivate PROVE Owns(o)'
  BY <1>4 DEF Deactivate, Owns, Outlived, StillAsSeen
<1>5. ASSUME Return \/ Die PROVE Owns(o)'
  <2>1. record'[o].pc = "none" /\ queue'[o] = queue[o] /\ now' = now
    BY <1>5 DEF Return, Die, NoRecord, Owns
  <2> QED BY <1>1, <2>1 DEF Owns, Outlived
<1>6. ASSUME NEW batch \in SUBSET Messages, Receive(batch) PROVE Owns(o)'
  <2>1. now' = now /\ worker'.start = now
    BY <1>6 DEF Receive
  <2>2. CASE o \in batch
    <3>1. Outlived(now)
      BY <1>6, <2>2 DEF Receive, Owns
    <3>2. /\ queue'[o].state = "inflight" /\ queue'[o].visibleAt = now + Visibility
          /\ record'[o].pc = "read"
      BY <1>6, <2>2 DEF Receive, NoRecord
    <3>3. guard'.sentAt + Stale < now + Visibility
      BY <1>1, <1>2, <3>1, WorkerConstants DEF Outlived
    <3> QED BY <1>1, <2>1, <3>1, <3>2, <3>3 DEF Owns, Outlived
  <2>3. CASE o \notin batch
    <3>1. queue'[o] = queue[o] /\ record'[o].pc = "none"
      BY <1>6, <2>3 DEF Receive, NoRecord
    <3> QED BY <1>1, <2>1, <3>1 DEF Owns, Outlived
  <2> QED BY <2>2, <2>3
<1>7. ASSUME NEW m \in Messages, Publish(m) PROVE Owns(o)'
  <2>1. m # o
    BY <1>7 DEF Publish, Owns
  <2>2. queue'[o] = queue[o] /\ UNCHANGED <<now, worker, record, guard>>
    BY <1>1, <1>7, <2>1 DEF Publish
  <2> QED BY <2>2 DEF Owns, Outlived, StillAsSeen
<1>8. ASSUME NEW m \in Messages, Reappear(m) PROVE Owns(o)'
  <2>1. UNCHANGED <<now, worker, record, guard>>
    BY <1>8 DEF Reappear
  <2>2. CASE m # o
    <3>1. queue'[o] = queue[o]
      BY <1>1, <1>8, <2>2 DEF Reappear
    <3> QED BY <2>1, <3>1 DEF Owns, Outlived, StillAsSeen
  <2>3. CASE m = o
    <3>1. queue[o].state = "inflight" /\ now >= queue[o].visibleAt /\ record[o].pc = "none"
      BY <1>1, <1>8, <2>3 DEF Reappear, Received
    <3>2. Outlived(now)
      BY <1>1, <1>2, <3>1, WorkerConstants DEF Owns, Outlived
    <3>3. queue'[o].state \in {"queued", "deadLettered"}
      BY <1>1, <1>8, <2>3 DEF Reappear, QueueType
    <3> QED BY <2>1, <3>1, <3>2, <3>3 DEF Owns, Outlived
  <2> QED BY <2>2, <2>3
<1> QED BY <1>3, <1>4, <1>5, <1>6, <1>7, <1>8

\* A message's own steps leave the owner its claim, unless they take it over or the page is told.
LEMMA RecordKeepsOwner ==
  ASSUME IInv, Story, guard.state # "absent", ~Told, ~Told',
         NEW o \in Messages, Owns(o), guard' = guard, NEW m \in Messages,
         \/ ReadEligibility(m) \/ Claim(m) \/ ReadGuard(m) \/ (Retake(m) /\ ~StillAsSeen(m))
         \/ ThrowCall(m) \/ \E d \in Devices : SendToDevice(m, d)
  PROVE  Owns(o)'
<1>1. /\ record \in [Messages -> RecordType] /\ guard \in GuardType /\ now \in Nat
      /\ worker \in [live : BOOLEAN, start : Nat]
  BY DEF IInv, Typed, TypeOK
<1>2. /\ UNCHANGED <<now, queue, worker>> /\ worker.live
      /\ \A n \in Messages \ {m} : record'[n] = record[n]
      /\ record[m].pc \notin {"none", "ok", "error"}
  BY RecordMoves
<1>3. CASE m # o
  <2>1. record'[o] = record[o]
    BY <1>2, <1>3
  <2> QED BY <1>2, <2>1 DEF Owns, Outlived, StillAsSeen
<1>4. CASE m = o
  <2>1. queue[o].state = "inflight" /\ Outlived(queue[o].visibleAt)
    BY <1>2, <1>4 DEF Story, Received, Owns
  <2>2. ASSUME record'[o].pc \in {"send", "error"} PROVE Owns(o)'
    BY <1>2, <2>1, <2>2 DEF Owns, Outlived
  <2>3. ASSUME ReadEligibility(o) PROVE Owns(o)'
    <3>1. record' = [record EXCEPT ![o].pc = "claim", ![o].sentAt = now]
      BY <2>3 DEF ReadEligibility, Told
    <3>2. record'[o].pc = "claim" /\ record'[o].sentAt = now
      BY <1>1, <3>1 DEF RecordType
    <3>3. Outlived(worker.start) /\ worker.start <= now
      BY <1>2, <2>3 DEF ReadEligibility, At, Owns, IInv, Alive
    <3>4. guard.sentAt + Stale < now
      <4>1. guard.sentAt \in Nat /\ worker.start \in Nat
        BY <1>1 DEF GuardType
      <4> QED BY <1>1, <3>3, <4>1, WorkerConstants DEF Outlived
    <3> QED BY <1>2, <2>1, <3>2, <3>4 DEF Owns, Outlived
  <2>4. ASSUME Claim(o) PROVE Owns(o)'
    <3>1. record'[o].pc = "conflict" /\ record'[o].sentAt = record[o].sentAt
      BY <1>1, <2>4 DEF Claim, Goto, RecordType
    <3> QED BY <1>2, <2>1, <2>4, <3>1 DEF Claim, At, Owns, Outlived
  <2>5. ASSUME ReadGuard(o) PROVE Owns(o)'
    <3>1. record[o].pc = "conflict" /\ Outlived(record[o].sentAt)
      BY <2>5 DEF ReadGuard, At, Owns
    <3>2. guard.failure \/ ClaimAbandoned(o)
      <4>1. guard.state = "CLAIMED" \/ guard.failure
        BY <1>1 DEF Story, GuardTells, GuardType
      <4>2. guard.sentAt \in Nat /\ record[o].sentAt \in Nat
        BY <1>1 DEF GuardType, RecordType
      <4> QED BY <3>1, <4>1, <4>2, WorkerConstants DEF Outlived, ClaimAbandoned
    <3>3. /\ record'[o].pc = "retake"
          /\ record'[o].seenFailed = guard.failure /\ record'[o].seenAt = guard.sentAt
      BY <1>1, <2>5, <3>2 DEF ReadGuard, RecordType
    <3>4. StillAsSeen(o)'
      BY <3>2, <3>3 DEF StillAsSeen, ClaimAbandoned
    <3> QED BY <1>2, <2>1, <3>3, <3>4 DEF Owns, Outlived
  <2>6. ~(Retake(o) /\ ~StillAsSeen(o))
    BY DEF Retake, At, Owns
  <2>7. ASSUME ThrowCall(o) PROVE Owns(o)'
    <3>1. record'[o].pc = "error"
      BY <1>1, <2>7, BlankRecords DEF ThrowCall, Finish, Pcs
    <3> QED BY <2>2, <3>1
  <2>8. ASSUME NEW d \in Devices, SendToDevice(o, d) PROVE Owns(o)'
    <3>1. record'[o].pc = "send"
      BY <1>1, <2>8 DEF SendToDevice, At, RecordType
    <3> QED BY <2>2, <3>1
  <2> QED BY <1>4, <2>3, <2>4, <2>5, <2>6, <2>7, <2>8
<1> QED BY <1>3, <1>4

\* While the page is not told and the guard has been taken, some message owns it.
LEMMA OwnedKept ==
  ASSUME ClaimDelay + Stale < Visibility, IInv, IInv', Story, Story', Owned, [Next]_vars
  PROVE  Owned'
<1> SUFFICES ASSUME ~Told', guard'.state # "absent" PROVE \E o \in Messages : Owns(o)'
  BY DEF Owned
<1>1. /\ record \in [Messages -> RecordType] /\ guard \in GuardType
      /\ worker \in [live : BOOLEAN, start : Nat]
  BY DEF IInv, Typed, TypeOK
<1>2. ~Told
  BY ToldStays
<1>3. ASSUME NEW m \in Messages, Claim(m), guard.state = "absent" PROVE Owns(m)'
  <2>1. record'[m].pc = "send"
    BY <1>1, <1>3 DEF Claim, Goto, RecordType
  <2> QED BY <2>1, SenderOwns DEF Story, EarlyClaim
<1>4. ASSUME NEW m \in Messages, Retake(m), StillAsSeen(m) PROVE Owns(m)'
  <2>1. record'[m].pc = "send"
    BY <1>1, <1>4 DEF Retake, Goto, RecordType
  <2> QED BY <2>1, SenderOwns DEF Story, EarlyClaim
<1>5. ASSUME NEW m \in Messages, RecordOutcome(m) PROVE Owns(m)'
  <2>1. (Reached(m) = {} /\ Rethrown(m)) \/ Reached(m) # {}
    BY <1>5 DEF RecordOutcome, Told
  <2>2. \A d \in Reached(m) : d \in Devices /\ accepted[d] > 0
    BY DEF Reached, Answered, Pending, Story, RecordTells
  <2>3. Rethrown(m)
    BY <1>2, <2>1, <2>2 DEF Told
  <2>4. record'[m].pc = "error"
    BY <1>1, <1>5, <2>3, BlankRecords DEF RecordOutcome, Finish, Pcs
  <2>5. guard'.sentAt = guard.sentAt
    BY <1>1, <1>5 DEF RecordOutcome, GuardType
  <2>6. guard.sentAt <= worker.start + ClaimDelay /\ worker' = worker
    BY <1>5 DEF RecordOutcome, At, Story, EarlyClaim
  <2> QED BY <2>4, <2>5, <2>6, SenderOwns
<1>6. ASSUME guard.state # "absent" PROVE \E o \in Messages : Owns(o)
  BY <1>2, <1>6 DEF Owned
<1>7. ASSUME UNCHANGED vars PROVE \E o \in Messages : Owns(o)'
  <2>1. PICK o \in Messages : Owns(o)
    BY <1>6, <1>7 DEF vars
  <2> QED BY <1>7, <2>1 DEF vars, Owns, Outlived, StillAsSeen
<1>8. ASSUME \/ Tick \/ Deactivate \/ Return \/ Die
             \/ \E batch \in SUBSET Messages : Receive(batch)
             \/ \E m \in Messages : Publish(m) \/ Reappear(m)
      PROVE  \E o \in Messages : Owns(o)'
  <2>1. guard' = guard
    BY <1>8 DEF Tick, Deactivate, Return, Die, Receive, Publish, Reappear
  <2>2. PICK o \in Messages : Owns(o)
    BY <1>6, <2>1
  <2> QED BY <1>8, <2>2, QueueKeepsOwner
<1>9. ASSUME NEW m \in Messages,
             \/ ReadEligibility(m) \/ (Claim(m) /\ guard.state # "absent") \/ ReadGuard(m)
             \/ (Retake(m) /\ ~StillAsSeen(m))
             \/ ThrowCall(m) \/ \E d \in Devices : SendToDevice(m, d)
      PROVE  \E o \in Messages : Owns(o)'
  <2>1. guard' = guard
    BY <1>9 DEF ReadEligibility, Claim, ReadGuard, Retake, ThrowCall, SendToDevice
  <2>2. PICK o \in Messages : Owns(o)
    BY <1>6, <2>1
  <2>3. guard.state # "absent"
    BY <2>1
  <2>4. Owns(o)'
    BY <1>2, <1>9, <2>1, <2>2, <2>3, RecordKeepsOwner
  <2> QED BY <2>4
<1>10. ASSUME NEW m \in Messages,
              \/ ReadEligibility(m) \/ Claim(m) \/ ReadGuard(m) \/ Retake(m)
              \/ RecordOutcome(m) \/ ThrowCall(m) \/ \E d \in Devices : SendToDevice(m, d)
       PROVE  \E o \in Messages : Owns(o)'
  <2>1. CASE \/ (Claim(m) /\ guard.state = "absent") \/ (Retake(m) /\ StillAsSeen(m))
             \/ RecordOutcome(m)
    <3>1. Owns(m)'
      BY <1>3, <1>4, <1>5, <2>1
    <3> QED BY <3>1
  <2>2. CASE ~(\/ (Claim(m) /\ guard.state = "absent") \/ (Retake(m) /\ StillAsSeen(m))
               \/ RecordOutcome(m))
    <3>1. \/ ReadEligibility(m) \/ (Claim(m) /\ guard.state # "absent") \/ ReadGuard(m)
          \/ (Retake(m) /\ ~StillAsSeen(m))
          \/ ThrowCall(m) \/ \E d \in Devices : SendToDevice(m, d)
      BY <1>10, <2>2
    <3> QED BY <1>9, <3>1
  <2> QED BY <2>1, <2>2
<1>11. CASE Next
  BY <1>8, <1>10, <1>11 DEF Next
<1> QED BY <1>7, <1>11

\* A page is never lost in silence: if every message published for it has been acknowledged, a
\* device accepted it or the worker gave it up and counted that (deliverChannelMessage.ts:602-666).
\* The premise is deployed: a claim is written within ten seconds of its receive, counts as
\* abandoned after 20 s, and its message is visible again after 30 s.
THEOREM NoPageIsLost ==
  ASSUME ClaimDelay + Stale < Visibility
  PROVE  Spec => []NoSilentLoss
<1>1. Init => Story /\ Owned
  <2> SUFFICES ASSUME Init PROVE Story /\ Owned
    OBVIOUS
  <2>1. GuardTells
    BY DEF Init, GuardTells, NoGuard, Fresh
  <2>2. \A m \in Messages : record[m] = NoRecord /\ queue[m].state = "unpublished"
    BY DEF Init
  <2>3. \A m \in Messages : RecordTells(m) /\ Received(m) /\ EarlyClaim(m) /\ GuardFirst(m)
    BY <2>2 DEF NoRecord, Fresh, RecordTells, Received, EarlyClaim, GuardFirst
  <2>4. Owned
    BY DEF Init, NoGuard, Owned
  <2> QED BY <2>1, <2>3, <2>4 DEF Story
<1>2. IInv /\ IInv' /\ Story /\ Owned /\ [Next]_vars => Story' /\ Owned'
  <2> SUFFICES ASSUME IInv, IInv', Story, Owned, [Next]_vars PROVE Story' /\ Owned'
    OBVIOUS
  <2>1. Story'
    BY GuardTellsKept, RecordTellsKept, ReceivedKept, EarlyClaimKept, GuardFirstKept DEF Story
  <2> QED BY <2>1, OwnedKept
<1>3. Story /\ Owned => NoSilentLoss
  <2> SUFFICES ASSUME Story, Owned, ~Told, NEW m \in Messages, queue[m].state = "acked",
                      \A n \in Messages : queue[n].state \in {"unpublished", "acked"}
               PROVE  FALSE
    BY DEF NoSilentLoss, Told
  <2>1. guard.state # "absent"
    BY DEF Story, GuardFirst
  <2> QED BY <2>1 DEF Owned, Owns
<1> QED BY <1>1, <1>2, <1>3, WorkerInductive, PTL DEF Spec

=============================================================================
