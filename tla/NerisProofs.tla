---------------------------- MODULE NerisProofs ----------------------------
(***************************************************************************)
(* For any number of invocations, edits, requests, retries and faults, and *)
(* whatever content NERIS finds valid: the variables keep their types, the *)
(* record NERIS holds is one reviewed version of the report, a duplicate's *)
(* refusal is never recorded as a verdict on the report, and a record NERIS *)
(* holds is never unknown to the report.  The poller, the nightly          *)
(* reconciliation and what NERIS does to its record by itself leave all of *)
(* that true; what is recorded as accepted was reviewed, and only a record *)
(* whose id is known is counted as missing.                                *)
(***************************************************************************)
EXTENDS NerisSync, TLAPS

\* The row knows of a record, or of a create that may have made one.
Remembered == row.known \/ row.pending \/ row.previous

\* A locked report is locked at its own version, which an officer reviewed.
LockedAsReviewed == Locked => row.lockedVersion = row.version /\ row.version \in reviewed

\* The parts of a payload being built are no newer than the report, and read in order.
BuiltFromTheReport(w) ==
    /\ worker[w].pc \in {"read", "built"} => worker[w].payload[1] <= row.version
    /\ worker[w].pc = "built" => /\ worker[w].payload[1] <= worker[w].payload[2]
                                 /\ worker[w].payload[2] <= row.version

\* Past its check an invocation carries one reviewed version.
CarriesReviewed(w) ==
    worker[w].pc \in {"forget", "look", "mark", "post", "adopt", "put"} =>
       \E v \in reviewed : worker[w].payload = <<v, v>>

\* No create is sent before the row remembers it.
CreateIsMarked(w) == worker[w].pc = "post" => Remembered

\* A refused create is looked into only if the record exists or the content is invalid.
RefusalHasAReason(w) ==
    worker[w].pc = "adopt" /\ worker[w].outcome = "VALIDATION_ERROR" => neris.held \/ ~Valid(w)

VerdictIsNeris(w) ==
    worker[w].pc = "append" /\ worker[w].outcome = "VALIDATION_ERROR" => ~Valid(w)

InvocationInv(w) ==
    /\ BuiltFromTheReport(w) /\ CarriesReviewed(w) /\ CreateIsMarked(w)
    /\ RefusalHasAReason(w) /\ VerdictIsNeris(w)

\* The inductive invariant.
IInv ==
    /\ NerisTypeOK
    /\ LockedAsReviewed
    /\ \A w \in Workers : InvocationInv(w)
    /\ OnlyReviewedContentLeaves
    /\ LostCreateIsRemembered

\* What no step takes back.
Monotone ==
    /\ row.version <= row'.version
    /\ reviewed \subseteq reviewed'
    /\ Remembered => Remembered'
    /\ neris.held => neris'.held

-----------------------------------------------------------------------------
(* Types.                                                                  *)

\* An invocation that does not run is typed.
LEMMA IdleIsTyped == Idle \in Invocations /\ Idle.pc = "idle"
BY BoundsAssumption DEF Idle, Invocations, Payloads, Versions

\* An invocation's retry, payload and outcome are typed, and so is the next state GoOn gives it.
LEMMA GoOnTyped ==
  ASSUME NerisTypeOK, NEW w \in Workers,
         NEW pc \in {"forget", "look", "mark", "post", "adopt", "put", "append", "schedule"},
         NEW outcome \in {None, "SUCCESS", "RETRYABLE", "VALIDATION_ERROR", "CLIENT_ERROR",
                          "NOT_CONFIGURED"},
         GoOn(w, pc, outcome)
  PROVE  /\ worker' \in [Workers -> Invocations]
         /\ worker'[w].pc = pc
         /\ worker'[w].payload = worker[w].payload
         /\ worker'[w].outcome = outcome
         /\ \A u \in Workers \ {w} : worker'[u] = worker[u]
<1> DEFINE next == [Idle EXCEPT !.pc = pc, !.retry = worker[w].retry,
                                !.payload = worker[w].payload, !.outcome = outcome]
<1>1. worker \in [Workers -> Invocations]
  BY DEF NerisTypeOK
<1>2. worker[w].retry \in 0 .. MaxRetries /\ worker[w].payload \in Payloads
  BY <1>1 DEF Invocations
<1>3. Idle \in Invocations
  BY IdleIsTyped
<1>4. next \in Invocations
  BY <1>2, <1>3 DEF Invocations
<1>5. /\ next.pc = pc /\ next.payload = worker[w].payload /\ next.outcome = outcome
  BY <1>3 DEF Invocations
<1>6. worker' = [worker EXCEPT ![w] = next]
  BY DEF GoOn
<1> HIDE DEF next
<1>7. worker'[w] = next /\ \A u \in Workers \ {w} : worker'[u] = worker[u]
  BY <1>1, <1>6
<1>8. worker' \in [Workers -> Invocations]
  BY <1>1, <1>4, <1>6
<1> QED BY <1>5, <1>7, <1>8

\* An invocation that ends is idle, and the others are as they were.
LEMMA IdleTyped ==
  ASSUME NerisTypeOK, NEW w \in Workers, worker' = [worker EXCEPT ![w] = Idle]
  PROVE  /\ worker' \in [Workers -> Invocations]
         /\ worker'[w].pc = "idle"
         /\ \A u \in Workers \ {w} : worker'[u] = worker[u]
<1>1. Idle \in Invocations /\ Idle.pc = "idle"
  BY IdleIsTyped
<1>2. worker \in [Workers -> Invocations]
  BY DEF NerisTypeOK
<1> QED BY <1>1, <1>2

\* One more job of a retry count keeps the counts typed.
LEMMA JobsTyped ==
  ASSUME NerisTypeOK, NEW n \in 0 .. MaxRetries
  PROVE  /\ [jobs EXCEPT ![n] = @ + 1] \in [0 .. MaxRetries -> Nat]
         /\ jobs[n] > 0 => [jobs EXCEPT ![n] = @ - 1] \in [0 .. MaxRetries -> Nat]
BY DEF NerisTypeOK

\* A request keeps its counter within its bound.
LEMMA RequestTyped ==
  ASSUME NerisTypeOK, Request
  PROVE  requests' \in 0 .. MaxRequests /\ jobs' \in [0 .. MaxRetries -> Nat]
<1>1. 0 \in 0 .. MaxRetries
  BY BoundsAssumption
<1>2. jobs' \in [0 .. MaxRetries -> Nat]
  BY <1>1, JobsTyped DEF Request
<1>3. requests' \in 0 .. MaxRequests
  BY BoundsAssumption DEF Request, NerisTypeOK
<1> QED BY <1>2, <1>3

\* The rows a send leaves behind are typed.
LEMMA RowsTyped ==
  ASSUME NerisTypeOK, NEW w \in Workers
  PROVE  Accepted(w) \in Rows /\ Unaccepted(w) \in Rows /\ Queued("SUBMITTED") \in Rows
<1>1. row \in Rows /\ worker[w].payload \in Payloads
  BY DEF NerisTypeOK, Invocations
<1>2. Accepted(w) \in Rows
  BY <1>1 DEF Accepted, Rows, NerisStatuses
<1>3. Unaccepted(w) \in Rows
  <2>1. CASE worker[w].outcome = "VALIDATION_ERROR"
    BY <1>1, <2>1 DEF Unaccepted, Rows
  <2>2. CASE worker[w].outcome # "VALIDATION_ERROR"
    BY <1>1, <2>2 DEF Unaccepted, Rows
  <2> QED BY <2>1, <2>2
<1>4. Queued("SUBMITTED") \in Rows
  BY <1>1 DEF Queued, Rows
<1> QED BY <1>2, <1>3, <1>4

\* Officers' steps keep the row and the review history typed.
LEMMA OfficersTyped ==
  ASSUME NerisTypeOK,
         \/ Edit \/ Unlock \/ Submit \/ Resubmit \/ Retry \/ AnHourPasses
         \/ \E v \in 0 .. row.version, submit \in BOOLEAN : Lock(v, submit)
  PROVE  NerisTypeOK'
<1>1. row \in Rows
  BY DEF NerisTypeOK
<1>2. CASE Edit
  <2>1. row.version + 1 \in Versions
    BY <1>1, <1>2, BoundsAssumption DEF Edit, Rows, Versions
  <2>2. row' \in Rows
    BY <1>1, <1>2, <2>1 DEF Edit, Rows
  <2> QED BY <1>2, <2>2 DEF Edit, NerisTypeOK
<1>3. CASE Unlock
  <2>1. row' \in Rows
    BY <1>1, <1>3 DEF Unlock, Rows
  <2> QED BY <1>3, <2>1 DEF Unlock, NerisTypeOK
<1>4. CASE Submit
  <2>1. row' \in Rows
    BY <1>1, <1>4 DEF Submit, Queued, Rows
  <2> QED BY <1>4, <2>1, RequestTyped DEF Submit, NerisTypeOK
<1>5. CASE Resubmit
  <2>1. row' \in Rows
    BY <1>1, <1>5 DEF Resubmit, Queued, Rows
  <2> QED BY <1>5, <2>1, RequestTyped DEF Resubmit, NerisTypeOK
<1>6. CASE Retry
  <2>1. row' \in Rows
    BY <1>1, <1>6 DEF Retry, Rows
  <2> QED BY <1>6, <2>1, RequestTyped DEF Retry, NerisTypeOK
<1>7. CASE AnHourPasses
  <2>1. row' \in Rows
    BY <1>1, <1>7 DEF AnHourPasses, Rows
  <2> QED BY <1>7, <2>1 DEF AnHourPasses, NerisTypeOK
<1>8. CASE \E v \in 0 .. row.version, submit \in BOOLEAN : Lock(v, submit)
  <2>1. PICK v \in 0 .. row.version, submit \in BOOLEAN : Lock(v, submit)
    BY <1>8
  <2>2. v \in Versions
    BY <1>1, <2>1, BoundsAssumption DEF Rows, Versions
  <2>3. (row.quiet /\ ~submit) \in BOOLEAN
    OBVIOUS
  <2>4. row' \in Rows
    <3>1. CASE submit
      BY <1>1, <2>1, <2>2, <2>3, <3>1 DEF Lock, Rows
    <3>2. CASE ~submit
      BY <1>1, <2>1, <2>2, <2>3, <3>2 DEF Lock, Rows
    <3> QED BY <3>1, <3>2
  <2>5. reviewed' \subseteq Versions
    BY <2>1, <2>2 DEF Lock, NerisTypeOK
  <2>6. requests' \in 0 .. MaxRequests /\ jobs' \in [0 .. MaxRetries -> Nat]
    BY <2>1, RequestTyped DEF Lock, NerisTypeOK
  <2> QED BY <2>1, <2>4, <2>5, <2>6 DEF Lock, NerisTypeOK
<1> QED BY <1>2, <1>3, <1>4, <1>5, <1>6, <1>7, <1>8

\* An invocation's next call keeps every variable typed.
LEMMA StepTyped ==
  ASSUME NerisTypeOK, NEW w \in Workers, Receive(w) \/ Step(w) \/ Die(w)
  PROVE  NerisTypeOK'
<1>1. row \in Rows /\ worker \in [Workers -> Invocations] /\ worker[w] \in Invocations
  BY DEF NerisTypeOK
<1>2. CASE Receive(w)
  <2>1. PICK n \in 0 .. MaxRetries :
           /\ jobs[n] > 0
           /\ jobs' = [jobs EXCEPT ![n] = @ - 1]
           /\ worker' = [worker EXCEPT ![w] =
                  [Idle EXCEPT !.pc = "read", !.retry = n, !.payload = <<row.version, 0>>,
                               !.knew = row.known, !.pending = row.pending]]
    BY <1>2 DEF Receive
  <2>2. row.version \in Versions /\ 0 \in Versions /\ row.known \in BOOLEAN /\ row.pending \in BOOLEAN
    BY <1>1, BoundsAssumption DEF Rows, Versions
  <2>3. <<row.version, 0>> \in Payloads
    BY <2>2 DEF Payloads
  <2>4. [Idle EXCEPT !.pc = "read", !.retry = n, !.payload = <<row.version, 0>>,
                     !.knew = row.known, !.pending = row.pending] \in Invocations
    BY <2>2, <2>3, IdleIsTyped DEF Invocations
  <2>5. worker' \in [Workers -> Invocations]
    BY <1>1, <2>1, <2>4
  <2>6. jobs' \in [0 .. MaxRetries -> Nat]
    BY <2>1, JobsTyped
  <2> QED BY <1>2, <2>5, <2>6 DEF Receive, NerisTypeOK
<1>3. CASE Build(w)
  <2>1. CASE worker' = [worker EXCEPT ![w].pc = "built", ![w].payload = <<@[1], row.version>>]
    <3>1. <<worker[w].payload[1], row.version>> \in Payloads
      BY <1>1 DEF Rows, Invocations, Payloads
    <3>2. worker' \in [Workers -> Invocations]
      BY <1>1, <2>1, <3>1 DEF Invocations
    <3> QED BY <1>3, <3>2 DEF Build, NerisTypeOK
  <2>2. CASE Settle(w, "NOT_CONFIGURED")
    <3>1. worker' \in [Workers -> Invocations]
      BY <2>2, GoOnTyped DEF Settle
    <3> QED BY <1>3, <3>1 DEF Build, NerisTypeOK
  <2> QED BY <1>3, <2>1, <2>2 DEF Build
<1>4. CASE Check(w)
  <2>1. CASE MaySend(w)
    <3>1. PICK pc \in {"forget", "put", "look", "mark"} : Goto(w, pc)
      BY <1>4, <2>1 DEF Check
    <3>2. worker' \in [Workers -> Invocations]
      BY <3>1, GoOnTyped DEF Goto
    <3> QED BY <1>4, <3>2 DEF Check, NerisTypeOK
  <2>2. CASE ~MaySend(w)
    BY <1>4, <2>2, IdleTyped DEF Check, NerisTypeOK
  <2> QED BY <2>1, <2>2
<1>5. CASE Forget(w)
  <2>1. row' \in Rows
    <3>1. CASE row.known /\ row.missing
      <4>1. row' = [row EXCEPT !.known = FALSE, !.previous = TRUE, !.nerisStatus = None,
                               !.pending = FALSE, !.missing = FALSE, !.checks = 0]
        BY <1>5, <3>1 DEF Forget
      <4>2. None \in NerisStatuses
        BY DEF NerisStatuses
      <4> QED BY <1>1, <4>1, <4>2 DEF Rows
    <3>2. CASE ~(row.known /\ row.missing)
      BY <1>1, <1>5, <3>2 DEF Forget
    <3> QED BY <3>1, <3>2
  <2>2. worker' \in [Workers -> Invocations]
    BY <1>5, GoOnTyped DEF Forget, Goto
  <2> QED BY <1>5, <2>1, <2>2 DEF Forget, NerisTypeOK
<1>6. CASE Look(w)
  <2>1. worker' \in [Workers -> Invocations]
    BY <1>6, GoOnTyped DEF Look, Goto, Settle
  <2> QED BY <1>6, <2>1 DEF Look, NerisTypeOK
<1>7. CASE Mark(w)
  <2>1. row' \in Rows
    BY <1>1, <1>7 DEF Mark, Rows
  <2>2. worker' \in [Workers -> Invocations]
    BY <1>7, GoOnTyped DEF Mark, Goto, Settle
  <2> QED BY <1>7, <2>1, <2>2 DEF Mark, NerisTypeOK
<1>8. ASSUME Taken(w) PROVE neris' \in Records /\ worker' \in [Workers -> Invocations]
  <2>1. neris' \in Records
    BY <1>1, <1>8 DEF Taken, Records, Invocations, NerisStatuses
  <2>2. worker' \in [Workers -> Invocations]
    BY <1>8, GoOnTyped DEF Taken, Settle
  <2> QED BY <2>1, <2>2
<1>9. ASSUME Refused(w) PROVE neris' \in Records /\ worker' \in [Workers -> Invocations]
  BY <1>9, GoOnTyped DEF Refused, Settle, NerisTypeOK
<1>10. CASE Post(w)
  <2>1. CASE Taken(w)
    BY <1>8, <1>10, <2>1 DEF Post, NerisTypeOK
  <2>2. CASE Refused(w)
    BY <1>9, <1>10, <2>2 DEF Post, NerisTypeOK
  <2>3. CASE UNCHANGED neris /\ \E outcome \in {"VALIDATION_ERROR", "CLIENT_ERROR"} :
                                    GoOn(w, "adopt", outcome)
    <3>1. worker' \in [Workers -> Invocations]
      BY <2>3, GoOnTyped
    <3> QED BY <1>10, <2>3, <3>1 DEF Post, NerisTypeOK
  <2> QED BY <1>10, <2>1, <2>2, <2>3 DEF Post
<1>11. CASE Adopt(w)
  <2>1. worker[w].outcome \in {None, "SUCCESS", "RETRYABLE", "VALIDATION_ERROR", "CLIENT_ERROR",
                               "NOT_CONFIGURED"}
    BY <1>1 DEF Invocations
  <2>2. worker' \in [Workers -> Invocations]
    BY <1>11, <2>1, GoOnTyped DEF Adopt, Goto, Settle
  <2> QED BY <1>11, <2>2 DEF Adopt, NerisTypeOK
<1>12. CASE Put(w)
  <2>1. CASE Taken(w)
    BY <1>8, <1>12, <2>1 DEF Put, NerisTypeOK
  <2>2. CASE Refused(w)
    BY <1>9, <1>12, <2>2 DEF Put, NerisTypeOK
  <2>3. CASE UNCHANGED neris /\ Settle(w, "VALIDATION_ERROR")
    <3>1. worker' \in [Workers -> Invocations]
      BY <2>3, GoOnTyped DEF Settle
    <3> QED BY <1>12, <2>3, <3>1 DEF Put, NerisTypeOK
  <2> QED BY <1>12, <2>1, <2>2, <2>3 DEF Put
<1>13. CASE Append(w)
  <2>1. row' \in Rows /\ watched' \in BOOLEAN
    BY <1>1, <1>13, RowsTyped DEF Append, NerisTypeOK
  <2>2. worker' \in [Workers -> Invocations]
    BY <1>13, GoOnTyped, IdleTyped DEF Append, Goto
  <2> QED BY <1>13, <2>1, <2>2 DEF Append, NerisTypeOK
<1>14. CASE Schedule(w)
  <2>1. worker' \in [Workers -> Invocations]
    BY <1>14, IdleTyped DEF Schedule
  <2>2. jobs' \in [0 .. MaxRetries -> Nat]
    <3>1. PICK n : n = worker[w].retry + 1
      OBVIOUS
    <3>2. jobs' = [jobs EXCEPT ![n] = @ + 1] /\ jobs \in [0 .. MaxRetries -> Nat]
      BY <1>14, <3>1 DEF Schedule, NerisTypeOK
    <3>3. CASE n \in 0 .. MaxRetries
      BY <3>2, <3>3
    <3>4. CASE n \notin 0 .. MaxRetries
      BY <3>2, <3>4
    <3> QED BY <3>3, <3>4
  <2> QED BY <1>14, <2>1, <2>2 DEF Schedule, NerisTypeOK
<1>15. CASE Die(w)
  <2>1. worker' \in [Workers -> Invocations]
    BY <1>15, IdleTyped DEF Die
  <2>2. worker[w].retry \in 0 .. MaxRetries
    BY <1>1 DEF Invocations
  <2>3. jobs' \in [0 .. MaxRetries -> Nat]
    BY <1>15, <2>2, JobsTyped DEF Die, NerisTypeOK
  <2>4. faults' \in 0 .. MaxFaults
    BY <1>15, BoundsAssumption DEF Die, NerisTypeOK
  <2> QED BY <1>15, <2>1, <2>3, <2>4 DEF Die, NerisTypeOK
<1> QED BY <1>2, <1>3, <1>4, <1>5, <1>6, <1>7, <1>10, <1>11, <1>12, <1>13, <1>14, <1>15 DEF Step

\* The variables are typed after every step.
LEMMA TypePreserved == NerisTypeOK /\ [Next]_vars => NerisTypeOK'
<1> SUFFICES ASSUME NerisTypeOK, [Next]_vars PROVE NerisTypeOK'
  OBVIOUS
<1>1. CASE Repeat
  <2>1. jobs' \in [0 .. MaxRetries -> Nat]
    BY <1>1, JobsTyped DEF Repeat
  <2>2. faults' \in 0 .. MaxFaults
    BY <1>1, BoundsAssumption DEF Repeat, NerisTypeOK
  <2> QED BY <1>1, <2>1, <2>2 DEF Repeat, NerisTypeOK
<1>2. CASE RecordIsGivenUp
  <2>1. row' \in Rows
    BY <1>2 DEF RecordIsGivenUp, Rows, NerisStatuses, NerisTypeOK
  <2> QED BY <1>2, <2>1 DEF RecordIsGivenUp, NerisTypeOK
<1>3. CASE UNCHANGED vars
  BY <1>3 DEF vars, NerisTypeOK
<1> QED BY <1>1, <1>2, <1>3, OfficersTyped, StepTyped DEF Next, Sends

-----------------------------------------------------------------------------
(* Safety.                                                                 *)

\* No step lowers the version, forgets a review or a create, or takes a record from NERIS.
LEMMA StepsAreMonotone ==
  ASSUME NerisTypeOK, Next
  PROVE  Monotone
<1>1. row \in Rows /\ neris \in Records
  BY DEF NerisTypeOK
<1>2. CASE Edit
  <2>1. PICK status \in {row.status, "VALIDATED"} :
           row' = [row EXCEPT !.version = @ + 1, !.status = status]
    BY <1>2 DEF Edit
  <2>2. /\ row'.version = row.version + 1 /\ row'.known = row.known
        /\ row'.pending = row.pending /\ row'.previous = row.previous
    BY <1>1, <2>1 DEF Rows
  <2>3. row.version \in Nat
    BY <1>1, BoundsAssumption DEF Rows, Versions
  <2> QED BY <1>2, <2>2, <2>3 DEF Edit, Monotone, Remembered
<1>3. CASE Unlock \/ Retry \/ AnHourPasses \/ Repeat \/ RecordIsGivenUp
  <2>1. /\ row'.version = row.version /\ row'.known = row.known
        /\ row'.pending = row.pending /\ row'.previous = row.previous
    BY <1>1, <1>3 DEF Unlock, Retry, AnHourPasses, Repeat, RecordIsGivenUp, Rows
  <2>2. row.version \in Nat
    BY <1>1, BoundsAssumption DEF Rows, Versions
  <2> QED BY <1>3, <2>1, <2>2
         DEF Unlock, Retry, AnHourPasses, Repeat, RecordIsGivenUp, Monotone, Remembered
<1>4. CASE Submit \/ Resubmit
  <2>1. /\ row'.version = row.version /\ row'.known = row.known
        /\ row'.pending = row.pending /\ row'.previous = row.previous
    BY <1>1, <1>4 DEF Submit, Resubmit, Queued, Rows
  <2>2. row.version \in Nat
    BY <1>1, BoundsAssumption DEF Rows, Versions
  <2> QED BY <1>4, <2>1, <2>2 DEF Submit, Resubmit, Monotone, Remembered
<1>5. CASE \E v \in 0 .. row.version, submit \in BOOLEAN : Lock(v, submit)
  <2>1. PICK v \in 0 .. row.version, submit \in BOOLEAN : Lock(v, submit)
    BY <1>5
  <2>2. /\ row'.version = row.version /\ row'.known = row.known
        /\ row'.pending = row.pending /\ row'.previous = row.previous
    BY <1>1, <2>1 DEF Lock, Rows
  <2> QED BY <1>1, <2>1, <2>2, BoundsAssumption DEF Lock, Monotone, Remembered, Rows, Versions
<1>6. ASSUME NEW w \in Workers, Receive(w) \/ Step(w) \/ Die(w) PROVE Monotone
  <2>1. row'.version = row.version /\ (Remembered => Remembered')
    <3>1. CASE Forget(w)
      BY <1>1, <3>1 DEF Forget, Rows, Remembered
    <3>2. CASE Mark(w)
      BY <1>1, <3>2 DEF Mark, Rows, Remembered
    <3>3. CASE Append(w)
      <4>1. CASE row' = Accepted(w)
        BY <1>1, <4>1 DEF Accepted, Rows, Remembered
      <4>2. CASE row' = row
        BY <4>2 DEF Remembered
      <4>3. CASE row' = Unaccepted(w)
        BY <1>1, <4>3 DEF Unaccepted, Rows, Remembered
      <4> QED BY <3>3, <4>1, <4>2, <4>3 DEF Append
    <3>4. CASE UNCHANGED row
      BY <3>4 DEF Remembered
    <3> QED BY <1>6, <3>1, <3>2, <3>3, <3>4
            DEF Step, Receive, Die, Build, Check, Look, Post, Adopt, Put, Schedule
  <2>2. reviewed' = reviewed
    BY <1>6 DEF Step, Receive, Die, Build, Check, Forget, Look, Mark, Post, Adopt, Put, Append,
                Schedule
  <2>3. neris.held => neris'.held
    <3>1. CASE Taken(w)
      BY <3>1 DEF Taken
    <3>2. CASE UNCHANGED neris
      BY <3>2
    <3> QED BY <1>6, <3>1, <3>2
            DEF Step, Receive, Die, Build, Check, Forget, Look, Mark, Post, Adopt, Put, Append,
                Schedule, Refused
  <2>4. row.version \in Nat
    BY <1>1, BoundsAssumption DEF Rows, Versions
  <2> QED BY <2>1, <2>2, <2>3, <2>4 DEF Monotone
<1> QED BY <1>2, <1>3, <1>4, <1>5, <1>6 DEF Next, Sends

\* What no step takes back is all an invocation that does not move depends on.
LEMMA Frame ==
  ASSUME NerisTypeOK, NerisTypeOK', Monotone, NEW w \in Workers, InvocationInv(w),
         worker'[w] = worker[w]
  PROVE  InvocationInv(w)'
<1>1. /\ row.version \in Nat /\ row'.version \in Nat
      /\ worker[w].payload[1] \in Nat /\ worker[w].payload[2] \in Nat
  BY BoundsAssumption DEF NerisTypeOK, Rows, Invocations, Payloads, Versions
<1>2. BuiltFromTheReport(w)'
  BY <1>1 DEF InvocationInv, BuiltFromTheReport, Monotone
<1>3. CarriesReviewed(w)'
  BY DEF InvocationInv, CarriesReviewed, Monotone
<1>4. CreateIsMarked(w)' /\ RefusalHasAReason(w)' /\ VerdictIsNeris(w)'
  BY DEF InvocationInv, CreateIsMarked, RefusalHasAReason, VerdictIsNeris, Monotone, Valid
<1> QED BY <1>2, <1>3, <1>4 DEF InvocationInv

\* Officers and the reconciliation change no invocation and nothing NERIS holds, and officers lock
\* only what they reviewed.
LEMMA OfficersKeepInv ==
  ASSUME IInv, NerisTypeOK', Monotone,
         \/ Edit \/ Unlock \/ Submit \/ Resubmit \/ Retry \/ AnHourPasses \/ Repeat \/ RecordIsGivenUp
         \/ \E v \in 0 .. row.version, submit \in BOOLEAN : Lock(v, submit)
  PROVE  IInv'
<1>1. row \in Rows
  BY DEF IInv, NerisTypeOK
<1>2. worker' = worker /\ neris' = neris
  BY DEF Edit, Unlock, Submit, Resubmit, Retry, AnHourPasses, Repeat, RecordIsGivenUp, Lock
<1>3. LockedAsReviewed'
  <2>1. CASE Edit
    <3>1. row'.lockedVersion = None
      BY <1>1, <2>1 DEF Edit, Locked, Rows
    <3> QED BY <3>1 DEF LockedAsReviewed, Locked
  <2>2. CASE Unlock
    <3>1. row'.lockedVersion = None
      BY <1>1, <2>2 DEF Unlock, Rows
    <3> QED BY <3>1 DEF LockedAsReviewed, Locked
  <2>3. CASE Submit \/ Resubmit \/ Retry \/ AnHourPasses \/ Repeat \/ RecordIsGivenUp
    <3>1. /\ row'.lockedVersion = row.lockedVersion /\ row'.version = row.version
          /\ reviewed' = reviewed
      BY <1>1, <2>3 DEF Submit, Resubmit, Retry, AnHourPasses, Repeat, RecordIsGivenUp, Queued, Rows
    <3> QED BY <3>1 DEF IInv, LockedAsReviewed, Locked
  <2>4. CASE \E v \in 0 .. row.version, submit \in BOOLEAN : Lock(v, submit)
    <3>1. PICK v \in 0 .. row.version, submit \in BOOLEAN : Lock(v, submit)
      BY <2>4
    <3>2. /\ row'.lockedVersion = v /\ row'.version = row.version /\ row.version = v
          /\ v \in reviewed'
      BY <1>1, <3>1 DEF Lock, LockFree, Rows
    <3> QED BY <3>2 DEF LockedAsReviewed, Locked
  <2> QED BY <2>1, <2>2, <2>3, <2>4
<1>4. \A w \in Workers : InvocationInv(w)'
  BY <1>2, Frame DEF IInv
<1>5. OnlyReviewedContentLeaves' /\ LostCreateIsRemembered'
  BY <1>2 DEF IInv, OnlyReviewedContentLeaves, LostCreateIsRemembered, Monotone, Remembered
<1> QED BY <1>3, <1>4, <1>5 DEF IInv

\* An invocation changes neither the lock nor the version of its report, nor the reviews.
LEMMA InvocationsLeaveTheLock ==
  ASSUME NerisTypeOK, NEW w \in Workers, Receive(w) \/ Step(w) \/ Die(w)
  PROVE  /\ row'.lockedVersion = row.lockedVersion
         /\ row'.version = row.version
         /\ reviewed' = reviewed
<1>1. row \in Rows
  BY DEF NerisTypeOK
<1>2. CASE Forget(w) \/ Mark(w)
  BY <1>1, <1>2 DEF Forget, Mark, Rows
<1>3. CASE Append(w)
  <2>1. reviewed' = reviewed /\ (row' = Accepted(w) \/ row' = row \/ row' = Unaccepted(w))
    BY <1>3 DEF Append
  <2> QED BY <1>1, <2>1 DEF Accepted, Unaccepted, Rows
<1>4. CASE UNCHANGED <<row, reviewed>>
  BY <1>4
<1> QED BY <1>2, <1>3, <1>4
        DEF Step, Receive, Die, Build, Check, Look, Post, Adopt, Put, Schedule

\* Going on past the check keeps what the payload is; the new call's own conditions are given.
LEMMA GoOnKeepsInv ==
  ASSUME IInv, NEW w \in Workers, reviewed' = reviewed,
         NEW pc \in {"forget", "look", "mark", "post", "adopt", "put", "append", "schedule"},
         NEW outcome \in {None, "SUCCESS", "RETRYABLE", "VALIDATION_ERROR", "CLIENT_ERROR",
                          "NOT_CONFIGURED"},
         GoOn(w, pc, outcome),
         pc \notin {"append", "schedule"} => \E v \in reviewed : worker[w].payload = <<v, v>>,
         pc = "post" => Remembered',
         pc = "adopt" /\ outcome = "VALIDATION_ERROR" => neris'.held \/ ~Valid(w),
         pc = "append" /\ outcome = "VALIDATION_ERROR" => ~Valid(w)
  PROVE  InvocationInv(w)'
<1>1. /\ worker'[w].pc = pc
      /\ worker'[w].payload = worker[w].payload
      /\ worker'[w].outcome = outcome
  BY GoOnTyped DEF IInv
<1>2. BuiltFromTheReport(w)'
  BY <1>1 DEF BuiltFromTheReport
<1>3. CarriesReviewed(w)'
  BY <1>1 DEF CarriesReviewed
<1>4. CreateIsMarked(w)' /\ RefusalHasAReason(w)' /\ VerdictIsNeris(w)'
  BY <1>1 DEF CreateIsMarked, RefusalHasAReason, VerdictIsNeris, Valid
<1> QED BY <1>2, <1>3, <1>4 DEF InvocationInv

\* The invocation that moves keeps its own part of the invariant.
LEMMA MoverKeepsInv ==
  ASSUME IInv, NerisTypeOK', Monotone, NEW w \in Workers, Receive(w) \/ Step(w) \/ Die(w)
  PROVE  InvocationInv(w)'
<1>1. row \in Rows /\ worker \in [Workers -> Invocations] /\ worker[w] \in Invocations
  BY DEF IInv, NerisTypeOK
<1>2. InvocationInv(w) /\ NerisTypeOK
  BY DEF IInv
<1>3. /\ row'.version = row.version
      /\ reviewed' = reviewed
  BY <1>2, InvocationsLeaveTheLock
<1>4. /\ row.version \in Nat
      /\ worker[w].payload[1] \in Nat /\ worker[w].payload[2] \in Nat
      /\ worker[w].payload = <<worker[w].payload[1], worker[w].payload[2]>>
  BY <1>1, BoundsAssumption DEF Rows, Invocations, Payloads, Versions
<1>5. CASE worker' = [worker EXCEPT ![w] = Idle]
  <2>1. worker'[w].pc = "idle"
    BY <1>2, <1>5, IdleTyped
  <2> QED BY <2>1 DEF InvocationInv, BuiltFromTheReport, CarriesReviewed, CreateIsMarked,
                      RefusalHasAReason, VerdictIsNeris
<1>6. CASE Receive(w)
  <2>1. worker'[w].pc = "read" /\ worker'[w].payload = <<row.version, 0>>
    <3>1. PICK n \in 0 .. MaxRetries :
             worker' = [worker EXCEPT ![w] =
                [Idle EXCEPT !.pc = "read", !.retry = n, !.payload = <<row.version, 0>>,
                             !.knew = row.known, !.pending = row.pending]]
      BY <1>6 DEF Receive
    <3> QED BY <1>1, <3>1, IdleIsTyped DEF Invocations
  <2>2. worker'[w].payload[1] = row.version
    BY <2>1
  <2> QED BY <1>3, <1>4, <2>1, <2>2
          DEF InvocationInv, BuiltFromTheReport, CarriesReviewed, CreateIsMarked,
              RefusalHasAReason, VerdictIsNeris
<1>7. CASE Build(w)
  <2>1. CASE worker' = [worker EXCEPT ![w].pc = "built", ![w].payload = <<@[1], row.version>>]
    <3>1. /\ worker'[w].pc = "built"
          /\ worker'[w].payload = <<worker[w].payload[1], row.version>>
      BY <1>1, <2>1 DEF Invocations
    <3>2. worker'[w].payload[1] = worker[w].payload[1] /\ worker'[w].payload[2] = row.version
      BY <3>1
    <3>3. worker[w].payload[1] <= row.version
      BY <1>2, <1>7 DEF Build, InvocationInv, BuiltFromTheReport
    <3> QED BY <1>3, <1>4, <3>1, <3>2, <3>3
            DEF InvocationInv, BuiltFromTheReport, CarriesReviewed, CreateIsMarked,
                RefusalHasAReason, VerdictIsNeris
  <2>2. CASE Settle(w, "NOT_CONFIGURED")
    BY <1>3, <2>2, GoOnKeepsInv DEF Settle
  <2> QED BY <1>7, <2>1, <2>2 DEF Build
<1>8. CASE Check(w) /\ MaySend(w)
  <2>1. PICK pc \in {"forget", "put", "look", "mark"} : Goto(w, pc)
    BY <1>8 DEF Check
  <2>2. /\ worker[w].payload[1] = row.version
        /\ worker[w].payload[2] = row.version
    BY <1>2, <1>4, <1>8 DEF Check, MaySend, InvocationInv, BuiltFromTheReport
  <2>3. row.version \in reviewed
    BY <1>8 DEF MaySend, IInv, LockedAsReviewed
  <2>4. \E v \in reviewed : worker[w].payload = <<v, v>>
    BY <1>4, <2>2, <2>3
  <2> QED BY <1>3, <2>1, <2>4, GoOnKeepsInv DEF Goto
<1>9. ASSUME worker[w].pc \in {"forget", "look", "mark", "post", "adopt", "put"}
      PROVE  \E v \in reviewed : worker[w].payload = <<v, v>>
  BY <1>2, <1>9 DEF InvocationInv, CarriesReviewed
<1>10. CASE Forget(w)
  BY <1>3, <1>9, <1>10, GoOnKeepsInv DEF Forget, Goto
<1>11. CASE Look(w)
  BY <1>3, <1>9, <1>11, GoOnKeepsInv DEF Look, Goto, Settle
<1>12. CASE Mark(w)
  <2>1. CASE Goto(w, "post") /\ row' = [row EXCEPT !.pending = TRUE]
    <3>1. Remembered'
      BY <1>1, <2>1 DEF Remembered, Rows
    <3> QED BY <1>3, <1>9, <1>12, <2>1, <3>1, GoOnKeepsInv DEF Mark, Goto
  <2>2. CASE Settle(w, "RETRYABLE")
    BY <1>3, <2>2, GoOnKeepsInv DEF Settle
  <2> QED BY <1>12, <2>1, <2>2 DEF Mark
<1>13. CASE Post(w)
  <2>1. CASE Taken(w) \/ Refused(w)
    BY <1>3, <2>1, GoOnKeepsInv DEF Taken, Refused, Settle
  <2>2. CASE /\ neris.held \/ ~Valid(w)
             /\ UNCHANGED neris
             /\ \E outcome \in {"VALIDATION_ERROR", "CLIENT_ERROR"} : GoOn(w, "adopt", outcome)
    BY <1>3, <1>9, <1>13, <2>2, GoOnKeepsInv DEF Post
  <2> QED BY <1>13, <2>1, <2>2 DEF Post
<1>14. CASE Adopt(w)
  <2>1. worker[w].outcome \in {None, "SUCCESS", "RETRYABLE", "VALIDATION_ERROR", "CLIENT_ERROR",
                               "NOT_CONFIGURED"}
    BY <1>1 DEF Invocations
  <2>2. CASE Goto(w, "put")
    BY <1>3, <1>9, <1>14, <2>2, GoOnKeepsInv DEF Adopt, Goto
  <2>3. CASE ~neris.held /\ Settle(w, worker[w].outcome)
    <3>1. worker[w].outcome = "VALIDATION_ERROR" => ~Valid(w)
      BY <1>2, <1>14, <2>3 DEF Adopt, InvocationInv, RefusalHasAReason
    <3> QED BY <1>3, <2>1, <2>3, <3>1, GoOnKeepsInv DEF Settle
  <2>4. CASE \E outcome \in {"RETRYABLE", "CLIENT_ERROR"} : Settle(w, outcome)
    BY <1>3, <2>4, GoOnKeepsInv DEF Settle
  <2> QED BY <1>14, <2>2, <2>3, <2>4 DEF Adopt
<1>15. CASE Put(w)
  <2>1. CASE Taken(w) \/ Refused(w)
    BY <1>3, <2>1, GoOnKeepsInv DEF Taken, Refused, Settle
  <2>2. CASE ~Valid(w) /\ Settle(w, "VALIDATION_ERROR")
    BY <1>3, <2>2, GoOnKeepsInv DEF Settle
  <2> QED BY <1>15, <2>1, <2>2 DEF Put
<1>16. CASE Append(w) /\ Goto(w, "schedule")
  BY <1>3, <1>16, GoOnKeepsInv DEF Goto
<1> QED BY <1>5, <1>6, <1>7, <1>8, <1>10, <1>11, <1>12, <1>13, <1>14, <1>15, <1>16
        DEF Step, Check, Append, Schedule, Die

\* An invocation keeps the invariant.
LEMMA InvocationsKeepInv ==
  ASSUME IInv, NerisTypeOK', Monotone, NEW w \in Workers, Receive(w) \/ Step(w) \/ Die(w)
  PROVE  IInv'
<1>1. NerisTypeOK /\ worker \in [Workers -> Invocations]
  BY DEF IInv, NerisTypeOK
<1>2. LockedAsReviewed'
  BY <1>1, InvocationsLeaveTheLock DEF IInv, LockedAsReviewed, Locked
<1>3. ASSUME NEW u \in Workers PROVE InvocationInv(u)'
  <2>1. CASE u = w
    BY <2>1, MoverKeepsInv
  <2>2. CASE u # w
    <3>1. worker'[u] = worker[u]
      BY <1>1, <2>2 DEF Step, Receive, Build, Check, Forget, Look, Mark, Post, Adopt, Put, Append,
                        Schedule, Die, Taken, Refused, Settle, Goto, GoOn
    <3> QED BY <1>1, <3>1, Frame DEF IInv
  <2> QED BY <2>1, <2>2
<1>4. CASE Taken(w) /\ (Post(w) \/ Put(w))
  <2>1. neris'.held /\ neris'.content = worker[w].payload
    BY <1>4 DEF Taken
  <2>2. \E v \in reviewed : worker[w].payload = <<v, v>>
    BY <1>4 DEF Post, Put, IInv, InvocationInv, CarriesReviewed
  <2>3. reviewed' = reviewed
    BY <1>1, InvocationsLeaveTheLock
  <2>4. OnlyReviewedContentLeaves'
    BY <2>1, <2>2, <2>3 DEF OnlyReviewedContentLeaves
  <2>5. Remembered
    BY <1>4 DEF Post, Put, Refused, Settle, IInv, InvocationInv, CreateIsMarked,
                LostCreateIsRemembered, Remembered, Taken
  <2>6. LostCreateIsRemembered'
    BY <2>5 DEF Monotone, LostCreateIsRemembered, Remembered
  <2> QED BY <1>2, <1>3, <2>4, <2>6 DEF IInv
<1>5. CASE UNCHANGED neris
  <2>1. reviewed' = reviewed
    BY <1>1, InvocationsLeaveTheLock
  <2>2. OnlyReviewedContentLeaves' /\ LostCreateIsRemembered'
    BY <1>5, <2>1 DEF IInv, OnlyReviewedContentLeaves, LostCreateIsRemembered, Monotone,
                      Remembered
  <2> QED BY <1>2, <1>3, <2>2 DEF IInv
<1> QED BY <1>4, <1>5 DEF Step, Receive, Build, Check, Forget, Look, Mark, Post, Adopt, Put,
                         Append, Schedule, Die, Refused

\* The invariant holds of a report just created, and every step of an officer, an invocation or
\* a delivery keeps it.
THEOREM NerisInductive == (Init => IInv) /\ (IInv /\ [Next]_vars => IInv')
<1>1. Init => IInv
  <2> SUFFICES ASSUME Init PROVE IInv
    OBVIOUS
  <2>1. 0 \in Versions
    BY BoundsAssumption DEF Versions
  <2>2. row \in Rows
    BY <2>1 DEF Init, Rows, NerisStatuses
  <2>3. worker \in [Workers -> Invocations] /\ \A w \in Workers : worker[w].pc = "idle"
    BY IdleIsTyped DEF Init
  <2>4. neris \in Records
    BY DEF Init, Records, NerisStatuses
  <2>5. NerisTypeOK
    <3>1. jobs \in [0 .. MaxRetries -> Nat]
      BY DEF Init
    <3>2. watched \in BOOLEAN /\ reviewed \subseteq Versions
      BY DEF Init
    <3>3. requests \in 0 .. MaxRequests /\ faults \in 0 .. MaxFaults
      BY BoundsAssumption DEF Init
    <3> QED BY <2>2, <2>3, <2>4, <3>1, <3>2, <3>3 DEF NerisTypeOK
  <2>6. LockedAsReviewed
    BY DEF Init, LockedAsReviewed, Locked
  <2>7. \A w \in Workers : InvocationInv(w)
    BY <2>3 DEF InvocationInv, BuiltFromTheReport, CarriesReviewed, CreateIsMarked,
                RefusalHasAReason, VerdictIsNeris
  <2>8. OnlyReviewedContentLeaves /\ LostCreateIsRemembered
    BY DEF Init, OnlyReviewedContentLeaves, LostCreateIsRemembered
  <2> QED BY <2>5, <2>6, <2>7, <2>8 DEF IInv
<1>2. IInv /\ [Next]_vars => IInv'
  <2> SUFFICES ASSUME IInv, [Next]_vars PROVE IInv'
    OBVIOUS
  <2>1. NerisTypeOK /\ NerisTypeOK'
    BY TypePreserved DEF IInv
  <2>2. CASE Next
    <3>1. Monotone
      BY <2>1, <2>2, StepsAreMonotone
    <3> QED BY <2>1, <2>2, <3>1, OfficersKeepInv, InvocationsKeepInv DEF Next, Sends
  <2>3. CASE UNCHANGED vars
    <3>1. Monotone
      <4>1. row.version \in Nat
        BY <2>1, BoundsAssumption DEF NerisTypeOK, Rows, Versions
      <4> QED BY <2>3, <4>1 DEF vars, Monotone, Remembered
    <3>2. \A w \in Workers : InvocationInv(w)'
      BY <2>1, <2>3, <3>1, Frame DEF vars, IInv
    <3>3. LockedAsReviewed' /\ OnlyReviewedContentLeaves' /\ LostCreateIsRemembered'
      BY <2>3 DEF vars, IInv, LockedAsReviewed, Locked, OnlyReviewedContentLeaves,
                  LostCreateIsRemembered
    <3> QED BY <2>1, <3>2, <3>3 DEF IInv
  <2> QED BY <2>2, <2>3
<1> QED BY <1>1, <1>2

\* The invariant holds in every reachable state.
LEMMA InvHolds == Spec => []IInv
BY NerisInductive, PTL DEF Spec

\* Every variable of a report, its invocations and NERIS's record keeps its type.
THEOREM NerisTypeCorrect == Spec => []NerisTypeOK
<1>1. IInv => NerisTypeOK
  BY DEF IInv
<1> QED BY <1>1, InvHolds, PTL

\* What NERIS holds is one version of the report, units and all, that an officer reviewed,
\* whoever edits, unlocks, locks and sends it meanwhile.
THEOREM ReviewedContentLeaves == Spec => []OnlyReviewedContentLeaves
<1>1. IInv => OnlyReviewedContentLeaves
  BY DEF IInv
<1> QED BY <1>1, InvHolds, PTL

\* A verdict on the report is only ever recorded of content NERIS finds invalid.
THEOREM VerdictsAreNeris == Spec => []RejectedForItsContent
<1>1. IInv => RejectedForItsContent
  BY DEF IInv, InvocationInv, VerdictIsNeris, RejectedForItsContent
<1> QED BY <1>1, InvHolds, PTL

\* A create whose answer was lost stays on record, whatever follows it.
THEOREM CreateIsRemembered == Spec => []LostCreateIsRemembered
<1>1. IInv => LostCreateIsRemembered
  BY DEF IInv
<1> QED BY <1>1, InvHolds, PTL

-----------------------------------------------------------------------------
(* What comes back from NERIS.                                             *)

\* What the report records as accepted is one reviewed version of it, so an officer is told that
\* a report is unchanged only of content an officer reviewed.
AcceptedIsReviewed == row.accepted # None => \E v \in reviewed : row.accepted = <<v, v>>

\* Only a reviewed version is about to be recorded as accepted.
SuccessIsReviewed(w) ==
    worker[w].pc = "append" /\ worker[w].outcome = "SUCCESS" =>
       \E v \in reviewed : worker[w].payload = <<v, v>>

\* Nights are counted, and a record given up on, only for a report that knows its record's id.
OnlyKnownGoMissing == row.missing \/ row.checks > 0 => row.known

Polls == [pc : {"idle", "metadata", "apply", "reschedule"}, status : NerisStatuses,
          previous : NerisStatuses]

Nights == [pc : {"day", "list", "mismatch", "apply", "missing", "requeue", "give up", "found"},
           status : NerisStatuses, counted : BOOLEAN, givenUp : BOOLEAN,
           listing : NerisStatuses, found : BOOLEAN]

SyncTypes == poll \in Polls /\ night \in Nights /\ moves \in 0 .. MaxMoves

\* The inductive invariant of the sends beside the poller, the reconciliation and NERIS.
SyncInv ==
    /\ IInv
    /\ SyncTypes
    /\ AcceptedIsReviewed
    /\ \A w \in Workers : SuccessIsReviewed(w)
    /\ OnlyKnownGoMissing

\* What the poller and the reconciliation write: nothing an officer or an invocation wrote about
\* the report's content, its lock, its record's id or what was accepted.
StatusWrite ==
    /\ row' \in Rows
    /\ row'.version = row.version /\ row'.lockedVersion = row.lockedVersion
    /\ row'.known = row.known /\ row'.pending = row.pending /\ row'.previous = row.previous
    /\ row'.accepted = row.accepted
    /\ row'.missing \/ row'.checks > 0 => row.known
    /\ watched' \in BOOLEAN
    /\ faults' \in 0 .. MaxFaults
    /\ UNCHANGED <<reviewed, jobs, worker, neris, requests>>

\* Such a write keeps the invariant.
LEMMA StatusWriteKeepsInv ==
  ASSUME SyncInv, StatusWrite, SyncTypes'
  PROVE  SyncInv'
<1>1. IInv /\ NerisTypeOK
  BY DEF SyncInv, IInv
<1>2. NerisTypeOK'
  BY <1>1 DEF StatusWrite, NerisTypeOK
<1>3. Monotone
  <2>1. row.version \in Nat
    BY <1>1, BoundsAssumption DEF NerisTypeOK, Rows, Versions
  <2> QED BY <2>1 DEF StatusWrite, Monotone, Remembered
<1>4. LockedAsReviewed'
  BY <1>1 DEF IInv, LockedAsReviewed, Locked, StatusWrite
<1>5. \A w \in Workers : InvocationInv(w)'
  BY <1>1, <1>2, <1>3, Frame DEF IInv, StatusWrite
<1>6. OnlyReviewedContentLeaves' /\ LostCreateIsRemembered'
  BY <1>1 DEF IInv, OnlyReviewedContentLeaves, LostCreateIsRemembered, StatusWrite
<1>7. IInv'
  BY <1>2, <1>4, <1>5, <1>6 DEF IInv
<1>8. AcceptedIsReviewed' /\ OnlyKnownGoMissing' /\ \A w \in Workers : SuccessIsReviewed(w)'
  BY DEF SyncInv, AcceptedIsReviewed, OnlyKnownGoMissing, SuccessIsReviewed, StatusWrite
<1> QED BY <1>7, <1>8 DEF SyncInv

\* NERIS changes the status of its record, whether it lists it, or drops it; and it drops none
\* while an invocation looks into a refusal.
LEMMA MoveKeepsInv ==
  ASSUME SyncInv, Move
  PROVE  SyncInv'
<1>1. IInv /\ NerisTypeOK /\ neris \in Records
  BY DEF SyncInv, IInv, NerisTypeOK
<1>2. /\ neris' \in Records
      /\ \/ neris'.held /\ neris'.content = neris.content
         \/ ~neris'.held /\ \A w \in Workers : worker[w].pc # "adopt"
  <2>1. CASE \E status \in NerisStatuses : neris' = [neris EXCEPT !.status = status]
    BY <1>1, <2>1 DEF Move, Records
  <2>2. CASE neris' = [neris EXCEPT !.listed = ~@]
    <3>1. (~neris.listed) \in BOOLEAN
      OBVIOUS
    <3> QED BY <1>1, <2>2, <3>1 DEF Move, Records
  <2>3. CASE /\ \A w \in Workers : worker[w].pc # "adopt"
             /\ neris' = [held |-> FALSE, listed |-> FALSE, content |-> None, status |-> None]
    BY <2>3 DEF Records, NerisStatuses
  <2> QED BY <2>1, <2>2, <2>3 DEF Move, NerisStatuses
<1>3. SyncTypes'
  BY SyncAssumption DEF Move, SyncInv, SyncTypes
<1>4. NerisTypeOK'
  BY <1>1, <1>2 DEF Move, NerisTypeOK
<1>5. LockedAsReviewed'
  BY <1>1 DEF Move, IInv, LockedAsReviewed, Locked
<1>6. OnlyReviewedContentLeaves' /\ LostCreateIsRemembered'
  BY <1>1, <1>2 DEF Move, IInv, OnlyReviewedContentLeaves, LostCreateIsRemembered
<1>7. ASSUME NEW w \in Workers PROVE InvocationInv(w)'
  BY <1>1, <1>2, <1>7 DEF Move, IInv, InvocationInv, BuiltFromTheReport, CarriesReviewed,
     CreateIsMarked, RefusalHasAReason, VerdictIsNeris, Remembered, Valid
<1>8. AcceptedIsReviewed' /\ OnlyKnownGoMissing' /\ \A w \in Workers : SuccessIsReviewed(w)'
  BY DEF Move, SyncInv, AcceptedIsReviewed, OnlyKnownGoMissing, SuccessIsReviewed
<1> QED BY <1>3, <1>4, <1>5, <1>6, <1>7, <1>8 DEF SyncInv, IInv

\* Showing a status over the one the row had changes nothing else of a known report.
LEMMA ShowingIsAStatusWrite ==
  ASSUME NerisTypeOK, NEW previous, NEW status \in NerisStatuses, Applies(previous),
         row' = Shown(status)
  PROVE  /\ row' \in Rows
         /\ row'.version = row.version /\ row'.lockedVersion = row.lockedVersion
         /\ row'.known = row.known /\ row'.pending = row.pending
         /\ row'.previous = row.previous /\ row'.accepted = row.accepted
         /\ row.known
<1>1. row \in Rows
  BY DEF NerisTypeOK
<1>2. (row.missing \/ status = "DELETED") \in BOOLEAN
  OBVIOUS
<1>3. PICK shown \in {row.status, "ACCEPTED", "REJECTED"} :
         row' = [row EXCEPT !.nerisStatus = status, !.status = shown,
                            !.missing = row.missing \/ status = "DELETED"]
  BY DEF Shown
<1>4. shown \in {"DRAFT", "VALIDATED", "SUBMITTED", "ACCEPTED", "REJECTED"}
  BY <1>1, <1>3 DEF Rows
<1> QED BY <1>1, <1>2, <1>3, <1>4 DEF Rows, Applies

\* The poller writes only statuses.
LEMMA PollKeepsInv ==
  ASSUME SyncInv, PollStep
  PROVE  SyncInv'
<1>1. NerisTypeOK /\ row \in Rows /\ neris \in Records /\ poll \in Polls
  BY DEF SyncInv, IInv, NerisTypeOK, SyncTypes
<1>2. Asleep \in Polls
  BY DEF Asleep, Polls, NerisStatuses
<1>3. row.nerisStatus \in NerisStatuses /\ neris.status \in NerisStatuses
  BY <1>1 DEF Rows, Records
<1>4. watched \in BOOLEAN /\ faults \in 0 .. MaxFaults
  BY <1>1 DEF NerisTypeOK
<1>5. SyncTypes'
  <2>1. poll' \in Polls
    <3>1. CASE PollHistory
      BY <1>1, <1>2, <1>3, <3>1 DEF PollHistory, Polls
    <3>2. CASE PollMetadata
      BY <1>1, <1>2, <1>3, <3>2 DEF PollMetadata, Polls
    <3>3. CASE PollApply \/ PollReschedule
      BY <1>2, <3>3 DEF PollApply, PollReschedule, Polls
    <3> QED BY <3>1, <3>2, <3>3 DEF PollStep
  <2> QED BY <2>1 DEF PollStep, PollHistory, PollMetadata, PollApply, PollReschedule, SyncInv,
                      SyncTypes
<1>6. CASE UNCHANGED row
  <2>1. watched' \in BOOLEAN
    BY <1>4 DEF PollStep, PollHistory, PollMetadata, PollApply, PollReschedule
  <2>2. StatusWrite
    BY <1>1, <1>4, <1>6, <2>1
       DEF PollStep, PollHistory, PollMetadata, PollApply, PollReschedule, StatusWrite, SyncInv,
           OnlyKnownGoMissing
  <2> QED BY <1>5, <2>2, StatusWriteKeepsInv
<1>7. CASE PollApply /\ Applies(poll.previous)
  <2>1. row' = Shown(poll.status) /\ poll.status \in NerisStatuses
    BY <1>1, <1>7 DEF PollApply, Polls
  <2>2. watched' \in BOOLEAN
    BY <1>7, <1>4 DEF PollApply
  <2>3. StatusWrite
    BY <1>1, <1>4, <1>7, <2>1, <2>2, ShowingIsAStatusWrite DEF PollApply, StatusWrite
  <2> QED BY <1>5, <2>3, StatusWriteKeepsInv
<1> QED BY <1>6, <1>7 DEF PollStep, PollHistory, PollMetadata, PollApply, PollReschedule

NightStep == NightBegins \/ NightLists \/ NightFails \/ NightWork

\* The reconciliation writes statuses, counts nights and gives records up, of known reports only.
LEMMA NightKeepsInv ==
  ASSUME SyncInv, NightStep
  PROVE  SyncInv'
<1>1. /\ NerisTypeOK /\ row \in Rows /\ neris \in Records /\ night \in Nights
      /\ OnlyKnownGoMissing
  BY DEF SyncInv, IInv, NerisTypeOK, SyncTypes
<1>2. Day \in Nights
  BY DEF Day, Nights, NerisStatuses
<1>3. row.nerisStatus \in NerisStatuses /\ neris.status \in NerisStatuses /\ row.missing \in BOOLEAN
  BY <1>1 DEF Rows, Records
<1>4. watched \in BOOLEAN /\ faults \in 0 .. MaxFaults
  BY <1>1 DEF NerisTypeOK
<1>5. UNCHANGED <<reviewed, jobs, worker, neris, requests, faults, poll, moves>>
  BY DEF NightStep, NightBegins, NightLists, NightFails, NightWork, NightMetadata, NightApply,
         NightCounts, NightRequeues, NightGivesUp, NightEnds
<1>6. night' \in Nights
  <2>1. CASE NightBegins
    <3>1. (row.checks > 0) \in BOOLEAN
      OBVIOUS
    <3> QED BY <1>2, <1>3, <2>1, <3>1 DEF NightBegins, Nights
  <2>2. CASE NightLists
    <3>1. PICK pc \in {"mismatch", "missing", "found"}, listing \in {neris.status, None},
               again \in BOOLEAN :
             night' = [Day EXCEPT !.pc = pc, !.listing = listing, !.found = again]
      <4> DEFINE pc == CASE Differs -> "mismatch"
                         [] ~Listed /\ ~night.givenUp -> "missing"
                         [] OTHER -> "found"
                 listing == IF Differs THEN neris.status ELSE None
                 again == /\ Listed /\ neris.status # "DELETED"
                          /\ night.counted \/ night.givenUp
      <4>1. pc \in {"mismatch", "missing", "found"}
        OBVIOUS
      <4>2. listing \in {neris.status, None}
        OBVIOUS
      <4>3. again \in BOOLEAN
        OBVIOUS
      <4>4. night' = [Day EXCEPT !.pc = pc, !.listing = listing, !.found = again]
        BY <2>2 DEF NightLists
      <4> QED BY <4>1, <4>2, <4>3, <4>4
    <3>2. listing \in NerisStatuses
      BY <1>3 DEF NerisStatuses
    <3> QED BY <1>2, <3>1, <3>2 DEF Nights
  <2>3. CASE NightFails \/ NightEnds
    BY <1>2, <2>3 DEF NightFails, NightEnds
  <2>4. CASE NightMetadata
    BY <1>1, <1>3, <2>4 DEF NightMetadata, Nights
  <2>5. CASE NightApply
    BY <1>1, <1>2, <2>5 DEF NightApply, Nights
  <2>6. CASE NightCounts \/ NightRequeues \/ NightGivesUp
    BY <1>1, <2>6 DEF NightCounts, NightRequeues, NightGivesUp, Nights
  <2> QED BY <2>1, <2>2, <2>3, <2>4, <2>5, <2>6 DEF NightStep, NightWork
<1>7. SyncTypes'
  BY <1>5, <1>6 DEF SyncInv, SyncTypes
<1>8. watched' \in BOOLEAN
  <2>1. CASE NightApply
    <3>1. (night.listing \in Open) \in BOOLEAN
      OBVIOUS
    <3> QED BY <1>4, <2>1, <3>1 DEF NightApply
  <2>2. CASE ~NightApply
    BY <1>4, <2>2 DEF NightStep, NightBegins, NightLists, NightFails, NightWork, NightMetadata,
                      NightCounts, NightRequeues, NightGivesUp, NightEnds
  <2> QED BY <2>1, <2>2
<1>9. /\ row' \in Rows
      /\ row'.version = row.version /\ row'.lockedVersion = row.lockedVersion
      /\ row'.known = row.known /\ row'.pending = row.pending
      /\ row'.previous = row.previous /\ row'.accepted = row.accepted
      /\ row'.missing \/ row'.checks > 0 => row.known
  <2>1. CASE UNCHANGED row
    BY <1>1, <2>1 DEF OnlyKnownGoMissing
  <2>2. CASE NightApply /\ Applies(night.status)
    <3>1. row' = Shown(night.listing) /\ night.listing \in NerisStatuses
      BY <1>1, <2>2 DEF NightApply, Nights
    <3> QED BY <1>1, <2>2, <3>1, ShowingIsAStatusWrite
  <2>3. CASE NightCounts /\ row.known /\ ~row.missing
    <3>1. row' = [row EXCEPT !.checks = @ + 1]
      BY <2>3 DEF NightCounts
    <3>2. row.checks + 1 \in Nat
      BY <1>1 DEF Rows
    <3> QED BY <1>1, <2>3, <3>1, <3>2 DEF Rows
  <2>4. CASE NightGivesUp /\ row.known /\ ~row.missing
    <3>1. row' = [row EXCEPT !.missing = TRUE]
      BY <2>4 DEF NightGivesUp
    <3> QED BY <1>1, <2>4, <3>1 DEF Rows
  <2>5. CASE NightEnds /\ night.found /\ row.known
    <3>1. row' = [row EXCEPT !.checks = 0, !.missing = FALSE]
      BY <2>5 DEF NightEnds
    <3> QED BY <1>1, <2>5, <3>1 DEF Rows
  <2> QED BY <2>1, <2>2, <2>3, <2>4, <2>5
         DEF NightStep, NightBegins, NightLists, NightFails, NightWork, NightMetadata, NightApply,
             NightCounts, NightRequeues, NightGivesUp, NightEnds
<1>10. StatusWrite
  BY <1>4, <1>5, <1>8, <1>9 DEF StatusWrite
<1> QED BY <1>7, <1>10, StatusWriteKeepsInv

\* A job that is cut off, or a repair that fails, writes nothing.
LEMMA FailureKeepsInv ==
  ASSUME SyncInv, JobDies \/ RepairFails
  PROVE  SyncInv'
<1>1. NerisTypeOK /\ row \in Rows /\ poll \in Polls /\ night \in Nights
  BY DEF SyncInv, IInv, NerisTypeOK, SyncTypes
<1>2. Asleep \in Polls /\ Day \in Nights
  BY DEF Asleep, Polls, Day, Nights, NerisStatuses
<1>3. night.found \in BOOLEAN
  BY <1>1 DEF Nights
<1>4. SyncTypes'
  BY <1>1, <1>2, <1>3 DEF JobDies, RepairFails, SyncInv, SyncTypes, Nights
<1>5. faults' \in 0 .. MaxFaults
  <2>1. faults \in 0 .. MaxFaults /\ faults < MaxFaults /\ faults' = faults + 1
    BY <1>1 DEF JobDies, RepairFails, NerisTypeOK
  <2> QED BY <2>1, BoundsAssumption
<1>6. StatusWrite
  BY <1>1, <1>5 DEF JobDies, RepairFails, StatusWrite, NerisTypeOK, SyncInv, OnlyKnownGoMissing
<1> QED BY <1>4, <1>6, StatusWriteKeepsInv

\* Past its check an invocation's steps keep its payload.
LEMMA GoOnKeepsThePayload ==
  ASSUME NerisTypeOK, NEW w \in Workers, Step(w),
         worker[w].pc \in {"forget", "look", "mark", "post", "adopt", "put"}
  PROVE  worker'[w].payload = worker[w].payload
<1>1. worker[w].outcome \in {None, "SUCCESS", "RETRYABLE", "VALIDATION_ERROR", "CLIENT_ERROR",
                             "NOT_CONFIGURED"}
  BY DEF NerisTypeOK, Invocations
<1>2. PICK pc \in {"forget", "look", "mark", "post", "adopt", "put", "append", "schedule"},
           outcome \in {None, "SUCCESS", "RETRYABLE", "VALIDATION_ERROR", "CLIENT_ERROR",
                        "NOT_CONFIGURED"} : GoOn(w, pc, outcome)
  BY <1>1 DEF Step, Build, Check, Forget, Look, Mark, Post, Adopt, Put, Append, Schedule, Taken,
              Refused, Settle, Goto
<1> QED BY <1>2, GoOnTyped

\* Officers and invocations record as accepted only what was sent, and forget the missing nights
\* with the id.
LEMMA SendsKeepInv ==
  ASSUME SyncInv, Sends, UNCHANGED syncVars
  PROVE  SyncInv'
<1>1. IInv /\ NerisTypeOK /\ row \in Rows /\ worker \in [Workers -> Invocations]
  BY DEF SyncInv, IInv, NerisTypeOK
<1>2. IInv'
  BY <1>1, NerisInductive DEF Next
<1>3. SyncTypes'
  BY DEF syncVars, SyncInv, SyncTypes
<1>4. Monotone
  BY <1>1, StepsAreMonotone DEF Next
<1>5. reviewed \subseteq reviewed'
  BY <1>4 DEF Monotone
<1>6. CASE \/ Edit \/ Unlock \/ Submit \/ Resubmit \/ Retry \/ AnHourPasses \/ Repeat
           \/ \E v \in 0 .. row.version, submit \in BOOLEAN : Lock(v, submit)
  <2>1. worker' = worker
    BY <1>6 DEF Edit, Unlock, Submit, Resubmit, Retry, AnHourPasses, Repeat, Lock
  <2>2. /\ row'.accepted = row.accepted /\ row'.missing = row.missing
        /\ row'.checks = row.checks /\ row'.known = row.known
    <3>1. CASE Edit \/ Unlock \/ Retry \/ AnHourPasses \/ Repeat
      BY <1>1, <3>1 DEF Edit, Unlock, Retry, AnHourPasses, Repeat, Rows
    <3>2. CASE Submit \/ Resubmit
      BY <1>1, <3>2 DEF Submit, Resubmit, Queued, Rows
    <3>3. CASE \E v \in 0 .. row.version, submit \in BOOLEAN : Lock(v, submit)
      BY <1>1, <3>3 DEF Lock, Rows
    <3> QED BY <1>6, <3>1, <3>2, <3>3
  <2>3. AcceptedIsReviewed' /\ OnlyKnownGoMissing' /\ \A w \in Workers : SuccessIsReviewed(w)'
    BY <1>5, <2>1, <2>2 DEF SyncInv, AcceptedIsReviewed, OnlyKnownGoMissing, SuccessIsReviewed
  <2> QED BY <1>2, <1>3, <2>3 DEF SyncInv
<1>7. ASSUME NEW w \in Workers, Receive(w) \/ Step(w) \/ Die(w) PROVE SyncInv'
  <2>1. InvocationInv(w) /\ SuccessIsReviewed(w)
    BY <1>1 DEF SyncInv, IInv
  <2>2. AcceptedIsReviewed' /\ OnlyKnownGoMissing'
    <3>1. CASE Forget(w)
      <4>1. CASE row.known /\ row.missing
        <5>1. row' = [row EXCEPT !.known = FALSE, !.previous = TRUE, !.nerisStatus = None,
                                 !.pending = FALSE, !.missing = FALSE, !.checks = 0]
          BY <3>1, <4>1 DEF Forget
        <5>2. row'.accepted = row.accepted /\ ~row'.missing /\ row'.checks = 0
          BY <1>1, <5>1 DEF Rows
        <5> QED BY <1>5, <5>2 DEF SyncInv, AcceptedIsReviewed, OnlyKnownGoMissing
      <4>2. CASE row' = row
        BY <1>5, <4>2 DEF SyncInv, AcceptedIsReviewed, OnlyKnownGoMissing
      <4> QED BY <3>1, <4>1, <4>2 DEF Forget
    <3>2. CASE Mark(w)
      BY <1>1, <1>5, <3>2 DEF Mark, Rows, SyncInv, AcceptedIsReviewed, OnlyKnownGoMissing
    <3>3. CASE Append(w) /\ worker[w].outcome = "SUCCESS"
      <4>1. row' = Accepted(w)
        BY <3>3 DEF Append
      <4>2. row'.accepted = worker[w].payload /\ row'.known
        BY <1>1, <4>1 DEF Accepted, Rows
      <4>3. \E v \in reviewed : worker[w].payload = <<v, v>>
        BY <2>1, <3>3 DEF Append, SuccessIsReviewed
      <4> QED BY <1>5, <4>2, <4>3 DEF AcceptedIsReviewed, OnlyKnownGoMissing
    <3>4. CASE Append(w) /\ worker[w].outcome # "SUCCESS"
      <4>1. row' = row \/ row' = Unaccepted(w)
        BY <3>4 DEF Append
      <4>2. /\ row'.accepted = row.accepted /\ row'.missing = row.missing
            /\ row'.checks = row.checks /\ row'.known = row.known
        BY <1>1, <4>1 DEF Unaccepted, Rows
      <4> QED BY <1>5, <4>2 DEF SyncInv, AcceptedIsReviewed, OnlyKnownGoMissing
    <3>5. CASE UNCHANGED row
      BY <1>5, <3>5 DEF SyncInv, AcceptedIsReviewed, OnlyKnownGoMissing
    <3> QED BY <1>7, <3>1, <3>2, <3>3, <3>4, <3>5
            DEF Step, Receive, Die, Build, Check, Look, Post, Adopt, Put, Schedule
  <2>3. SuccessIsReviewed(w)'
    <3>1. CASE worker[w].pc \in {"forget", "look", "mark", "post", "adopt", "put"} /\ Step(w)
      <4>1. \E v \in reviewed : worker[w].payload = <<v, v>>
        BY <2>1, <3>1 DEF InvocationInv, CarriesReviewed
      <4>2. worker'[w].payload = worker[w].payload
        BY <1>1, <3>1, GoOnKeepsThePayload
      <4> QED BY <1>5, <4>1, <4>2 DEF SuccessIsReviewed
    <3>2. CASE Build(w)
      <4>1. CASE worker' = [worker EXCEPT ![w].pc = "built", ![w].payload = <<@[1], row.version>>]
        <5>1. worker'[w].pc = "built"
          BY <1>1, <4>1 DEF Invocations
        <5> QED BY <5>1 DEF SuccessIsReviewed
      <4>2. CASE Settle(w, "NOT_CONFIGURED")
        <5>1. worker'[w].outcome = "NOT_CONFIGURED"
          BY <1>1, <4>2, GoOnTyped DEF Settle
        <5> QED BY <5>1 DEF SuccessIsReviewed
      <4> QED BY <3>2, <4>1, <4>2 DEF Build
    <3>3. CASE worker' = [worker EXCEPT ![w] = Idle]
      <4>1. worker'[w].pc = "idle"
        BY <1>1, <3>3, IdleTyped
      <4> QED BY <4>1 DEF SuccessIsReviewed
    <3>4. CASE Receive(w)
      <4>1. worker'[w].pc = "read"
        <5>1. PICK n \in 0 .. MaxRetries :
                 worker' = [worker EXCEPT ![w] =
                    [Idle EXCEPT !.pc = "read", !.retry = n, !.payload = <<row.version, 0>>,
                                 !.knew = row.known, !.pending = row.pending]]
          BY <3>4 DEF Receive
        <5> QED BY <1>1, <5>1, IdleIsTyped DEF Invocations
      <4> QED BY <4>1 DEF SuccessIsReviewed
    <3>5. CASE \E pc \in {"forget", "put", "look", "mark", "schedule"} : Goto(w, pc)
      <4>1. worker'[w].pc # "append"
        BY <1>1, <3>5, GoOnTyped DEF Goto
      <4> QED BY <4>1 DEF SuccessIsReviewed
    <3> QED BY <1>7, <3>1, <3>2, <3>3, <3>4, <3>5
            DEF Step, Check, Forget, Look, Mark, Post, Adopt, Put, Append, Schedule, Die
  <2>4. ASSUME NEW u \in Workers, u # w PROVE SuccessIsReviewed(u)'
    <3>1. worker'[u] = worker[u]
      BY <1>1, <1>7, <2>4 DEF Step, Receive, Build, Check, Forget, Look, Mark, Post, Adopt, Put,
                             Append, Schedule, Die, Taken, Refused, Settle, Goto, GoOn
    <3> QED BY <1>5, <3>1 DEF SyncInv, SuccessIsReviewed
  <2> QED BY <1>2, <1>3, <2>2, <2>3, <2>4 DEF SyncInv
<1> QED BY <1>6, <1>7 DEF Sends

\* The invariant holds of a report just created, and every step of an officer, an invocation, the
\* poller, the reconciliation and NERIS keeps it.
THEOREM SyncInductive == (SyncInit => SyncInv) /\ (SyncInv /\ [SyncNext]_allVars => SyncInv')
<1>1. SyncInit => SyncInv
  <2> SUFFICES ASSUME SyncInit PROVE SyncInv
    OBVIOUS
  <2>1. IInv
    BY NerisInductive DEF SyncInit
  <2>2. SyncTypes
    BY SyncAssumption DEF SyncInit, SyncTypes, Asleep, Polls, Day, Nights, NerisStatuses
  <2>3. AcceptedIsReviewed /\ OnlyKnownGoMissing
    BY DEF SyncInit, Init, AcceptedIsReviewed, OnlyKnownGoMissing
  <2>4. \A w \in Workers : SuccessIsReviewed(w)
    BY DEF SyncInit, Init, Idle, SuccessIsReviewed
  <2> QED BY <2>1, <2>2, <2>3, <2>4 DEF SyncInv
<1>2. SyncInv /\ [SyncNext]_allVars => SyncInv'
  <2> SUFFICES ASSUME SyncInv, [SyncNext]_allVars PROVE SyncInv'
    OBVIOUS
  <2>1. CASE Sends /\ UNCHANGED syncVars
    BY <2>1, SendsKeepInv
  <2>2. CASE Move
    BY <2>2, MoveKeepsInv
  <2>3. CASE PollStep
    BY <2>3, PollKeepsInv
  <2>4. CASE NightStep
    BY <2>4, NightKeepsInv
  <2>5. CASE JobDies \/ RepairFails
    BY <2>5, FailureKeepsInv
  <2>6. CASE UNCHANGED allVars
    <3>1. IInv'
      <4>1. [Next]_vars
        BY <2>6 DEF allVars, vars
      <4> QED BY <4>1, NerisInductive DEF SyncInv
    <3>2. SyncTypes' /\ AcceptedIsReviewed' /\ OnlyKnownGoMissing'
      BY <2>6 DEF allVars, SyncInv, SyncTypes, AcceptedIsReviewed, OnlyKnownGoMissing
    <3>3. \A w \in Workers : SuccessIsReviewed(w)'
      BY <2>6 DEF allVars, SyncInv, SuccessIsReviewed
    <3> QED BY <3>1, <3>2, <3>3 DEF SyncInv
  <2> QED BY <2>1, <2>2, <2>3, <2>4, <2>5, <2>6 DEF SyncNext, NightStep
<1> QED BY <1>1, <1>2

\* The invariant holds in every reachable state beside the poller and the reconciliation.
LEMMA SyncInvHolds == SyncSpec => []SyncInv
BY SyncInductive, PTL DEF SyncSpec

\* Neither the poller, the reconciliation nor NERIS's own changes let content out that no officer
\* reviewed, record a verdict NERIS did not give, or lose the trace of a create.
THEOREM SyncKeepsTheSendsSafe ==
  SyncSpec => /\ []OnlyReviewedContentLeaves
              /\ []RejectedForItsContent
              /\ []LostCreateIsRemembered
<1>1. SyncInv => OnlyReviewedContentLeaves /\ RejectedForItsContent /\ LostCreateIsRemembered
  BY DEF SyncInv, IInv, InvocationInv, VerdictIsNeris, RejectedForItsContent
<1> QED BY <1>1, SyncInvHolds, PTL

\* What a report records as accepted, and tells an officer is unchanged, is a version an officer
\* reviewed, whatever was edited, unlocked or given up on meanwhile.
THEOREM AcceptanceIsOfReviewedContent == SyncSpec => []AcceptedIsReviewed
<1>1. SyncInv => AcceptedIsReviewed
  BY DEF SyncInv
<1> QED BY <1>1, SyncInvHolds, PTL

\* A record is counted as missing, or given up on, only while the report knows its id: a night
\* that overlaps an invocation forgetting the record leaves no count behind.
THEOREM MissingIsOfAKnownRecord == SyncSpec => []OnlyKnownGoMissing
<1>1. SyncInv => OnlyKnownGoMissing
  BY DEF SyncInv
<1> QED BY <1>1, SyncInvHolds, PTL
=============================================================================
