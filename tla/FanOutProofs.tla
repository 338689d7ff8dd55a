----------------------------- MODULE FanOutProofs -----------------------------
(***************************************************************************)
(* For any audience, any number of attempts and eligibility changes, and   *)
(* whatever fails: the fan-out keeps its types, succeeds only when the     *)
(* whole audience is paged and scheduled, stamps only after its pages,     *)
(* schedules the ladder last and raises no false alarm of a pre-empted     *)
(* page.  The facts are those of one step, so that module CadUpdatesProofs *)
(* can use them of the composed specification.                             *)
(***************************************************************************)
EXTENDS FanOut, TLAPS

\* The attempts counted on the dispatch are those the stream has made.
AttemptsCounted ==
    /\ dispatch.attempts <= fan.attempt
    /\ fan.pc \in {"waiting", "audience", "count"} => dispatch.attempts < fan.attempt

\* Pages are being sent only by an attempt that is paging.
TasksArePaging ==
    fan.pc # "page" => \A m \in Members : fan.task[m] \in {"none", "done", "failed"}

\* Before the first attempt is counted there is no receipt, and what the first pass has not claimed
\* yet nobody else has.
FirstPassIsFresh ==
    /\ dispatch.attempts = 0 =>
          /\ fan.pc \in {"waiting", "audience", "count", "givenUp"}
          /\ \A m \in Members : receipt[m] = "none"
    /\ \A m \in Members : fan.firstPass /\ fan.task[m] = "claim" => receipt[m] = "none"

\* A page is accepted before its receipt says so, and claimed before it is accepted.
PageBeforeReceipt ==
    \A m \in Members :
       /\ fan.task[m] \in {"publish", "mark"} => receipt[m] # "none"
       /\ fan.task[m] = "mark" => page[m] # NoPage
       /\ fan.task[m] = "done" => receipt[m] = "sent"
       /\ receipt[m] = "sent" => page[m] # NoPage
       /\ page[m] # NoPage => receipt[m] # "none"

\* An attempt has a page for every reachable member of the audience it read, and for nobody else.
TasksOfTheAudience ==
    fan.pc \in {"page", "schedule"} =>
       \A m \in Members : fan.task[m] # "none" <=> m \in fan.audience \cap Reachable

\* Until a member's scheduling fails, everybody already scheduled has a voice escalation.
ScheduledSoFar ==
    /\ voice \subseteq rostered
    /\ fan.pc = "schedule" =>
          fan.scheduleFailed \/ \A m \in fan.audience \ fan.unscheduled : m \in voice

\* The inductive invariant.
FInv ==
    /\ FanOutTypeOK /\ AttemptsCounted /\ TasksArePaging /\ FirstPassIsFresh
    /\ PageBeforeReceipt /\ TasksOfTheAudience /\ ScheduledSoFar
    /\ SuccessMeansComplete /\ PreemptionAlarmIsTrue

-----------------------------------------------------------------------------
\* What a task's progress leaves of the invocation.
LEMMA TaskStep ==
  ASSUME fan \in FanType, NEW m \in Members, NEW s \in Tasks, Task(m, s)
  PROVE  /\ fan' \in FanType
         /\ fan'.pc = fan.pc /\ fan'.attempt = fan.attempt /\ fan'.audience = fan.audience
         /\ fan'.firstPass = fan.firstPass /\ fan'.unscheduled = fan.unscheduled
         /\ fan'.scheduleFailed = fan.scheduleFailed /\ fan'.revision = fan.revision
         /\ fan'.task = [fan.task EXCEPT ![m] = s]
         /\ fan'.task[m] = s
         /\ \A n \in Members \ {m} : fan'.task[n] = fan.task[n]
<1>1. fan.task \in [Members -> Tasks]
  BY DEF FanType
<1>2. [fan.task EXCEPT ![m] = s] \in [Members -> Tasks]
  BY <1>1
<1>3. fan' = [fan EXCEPT !.task = [fan.task EXCEPT ![m] = s]]
  BY DEF Task, FanType
<1> QED BY <1>1, <1>2, <1>3 DEF FanType

\* What a failed attempt leaves of the invocation.
LEMMA RetriedStep ==
  ASSUME fan \in FanType
  PROVE  /\ Retried \in FanType /\ Retried.task = NoTasks
         /\ Retried.pc \in {"audience", "givenUp"}
         /\ Retried.pc = "audience" => Retried.attempt = fan.attempt + 1
         /\ Retried.pc = "givenUp" => Retried.attempt = fan.attempt
         /\ Retried.audience = fan.audience
<1>1. NoTasks \in [Members -> Tasks]
  BY DEF NoTasks, Tasks
<1>2. fan.attempt \in 1 .. MaxAttempts
  BY DEF FanType
<1>3. CASE fan.attempt < MaxAttempts
  <2>1. Retried = [fan EXCEPT !.pc = "audience", !.attempt = @ + 1, !.task = NoTasks,
                              !.unscheduled = {}, !.scheduleFailed = FALSE]
    BY <1>3 DEF Retried
  <2>2. fan.attempt + 1 \in 1 .. MaxAttempts
    BY <1>2, <1>3, FanOutConstants
  <2> QED BY <1>1, <2>1, <2>2 DEF FanType
<1>4. CASE ~(fan.attempt < MaxAttempts)
  <2>1. Retried = [fan EXCEPT !.pc = "givenUp", !.task = NoTasks]
    BY <1>4 DEF Retried
  <2> QED BY <1>1, <2>1 DEF FanType
<1> QED BY <1>3, <1>4

\* The invariant holds at first.
LEMMA FanOutInitInductive == FanOutInit => FInv
<1> SUFFICES ASSUME FanOutInit PROVE FInv
  OBVIOUS
<1> USE FanOutConstants DEF FanOutInit
<1>1. NoTasks \in [Members -> Tasks]
  BY DEF NoTasks, Tasks
<1>2. \A m \in Members : NoTasks[m] = "none"
  BY DEF NoTasks
<1>3. FanOutTypeOK
  <2>1. fan \in FanType
    BY <1>1 DEF FanType
  <2>2. dispatch \in [attempts : 0 .. MaxAttempts, completed : BOOLEAN, revision : Nat]
    OBVIOUS
  <2>3. page \in [Members -> Nat \cup {NoPage}]
    OBVIOUS
  <2>4. receipt \in [Members -> {"none", "claimed", "sent"}]
    OBVIOUS
  <2>5. /\ eligible \subseteq Members /\ changes \in 0 .. MaxChanges
        /\ rostered \subseteq Members /\ voice \subseteq Members /\ tones \subseteq {2, 3}
    OBVIOUS
  <2>6. preempted \in BOOLEAN
    OBVIOUS
  <2>7. lostStamps \in 0 .. MaxLostStamps
    OBVIOUS
  <2> HIDE DEF FanOutInit
  <2> QED BY <2>1, <2>2, <2>3, <2>4, <2>5, <2>6, <2>7 DEF FanOutTypeOK
<1>4. AttemptsCounted /\ ScheduledSoFar /\ SuccessMeansComplete /\ PreemptionAlarmIsTrue
  BY DEF AttemptsCounted, ScheduledSoFar, SuccessMeansComplete, PreemptionAlarmIsTrue
<1>5. TasksArePaging /\ FirstPassIsFresh /\ PageBeforeReceipt /\ TasksOfTheAudience
  BY <1>2 DEF TasksArePaging, FirstPassIsFresh, PageBeforeReceipt, TasksOfTheAudience
<1> QED BY <1>3, <1>4, <1>5 DEF FInv

\* A record that arrives disturbs nothing.
LEMMA ArrivesKeeps ==
  ASSUME FInv, RecordArrives,
         UNCHANGED <<dispatch, eligible, changes, receipt, page, rostered, voice, tones,
                     preempted, lostStamps>>
  PROVE  FInv'
<1>1. fan' \in FanType /\ fan' = [fan EXCEPT !.pc = "audience"]
  BY DEF RecordArrives, FInv, FanOutTypeOK, FanType
<1>2. /\ fan'.pc = "audience" /\ fan.pc = "waiting" /\ fan'.task = fan.task
      /\ fan'.attempt = fan.attempt /\ fan'.firstPass = fan.firstPass
  BY <1>1 DEF RecordArrives, FInv, FanOutTypeOK, FanType
<1>3. FanOutTypeOK'
  BY <1>1 DEF FInv, FanOutTypeOK
<1> QED BY <1>2, <1>3 DEF FInv, AttemptsCounted, TasksArePaging, FirstPassIsFresh,
                         PageBeforeReceipt, TasksOfTheAudience, ScheduledSoFar,
                         SuccessMeansComplete, PreemptionAlarmIsTrue

\* Nor does a change of the snapshot.
LEMMA ChangeKeeps ==
  ASSUME FInv, NEW m \in Members, ChangeEligibility(m)
  PROVE  FInv'
<1>1. FanOutTypeOK'
  BY FanOutConstants DEF FInv, FanOutTypeOK, ChangeEligibility
<1> QED BY <1>1 DEF ChangeEligibility, FInv, AttemptsCounted, TasksArePaging, FirstPassIsFresh,
                    PageBeforeReceipt, TasksOfTheAudience, ScheduledSoFar,
                    SuccessMeansComplete, PreemptionAlarmIsTrue

\* A failed attempt leaves the items as they are and starts again without tasks.
LEMMA RetryKeeps ==
  ASSUME FInv, fan.pc \in {"audience", "count", "page", "schedule"}, fan' = Retried,
         dispatch' = dispatch, receipt' = receipt, page' = page, eligible' = eligible,
         changes' = changes, rostered' = rostered, voice' = voice, preempted' = preempted,
         lostStamps' = lostStamps, tones' \subseteq {2, 3}
  PROVE  FInv'
<1>1. fan \in FanType
  BY DEF FInv, FanOutTypeOK
<1>2. /\ fan' \in FanType /\ fan'.task = NoTasks /\ fan'.pc \in {"audience", "givenUp"}
      /\ fan'.pc = "audience" => fan'.attempt = fan.attempt + 1
      /\ fan'.pc = "givenUp" => fan'.attempt = fan.attempt
  BY <1>1, RetriedStep
<1>3. \A m \in Members : fan'.task[m] = "none"
  BY <1>2 DEF NoTasks
<1>4. FanOutTypeOK'
  BY <1>2 DEF FInv, FanOutTypeOK
<1>5. AttemptsCounted'
  BY <1>1, <1>2 DEF FInv, FanOutTypeOK, AttemptsCounted, FanType
<1>6. TasksArePaging' /\ TasksOfTheAudience' /\ ScheduledSoFar' /\ SuccessMeansComplete'
  BY <1>2, <1>3 DEF FInv, TasksArePaging, TasksOfTheAudience, ScheduledSoFar,
                    SuccessMeansComplete
<1>7. FirstPassIsFresh'
  BY <1>2, <1>3 DEF FInv, FirstPassIsFresh
<1>8. PageBeforeReceipt'
  BY <1>3 DEF FInv, PageBeforeReceipt
<1> QED BY <1>4, <1>5, <1>6, <1>7, <1>8 DEF FInv, PreemptionAlarmIsTrue

-----------------------------------------------------------------------------
(* The steps of an attempt.                                                *)

LEMMA AudienceKeeps ==
  ASSUME FInv, ResolveAudience
  PROVE  FInv'
<1>1. fan \in FanType /\ eligible \subseteq Members
  BY DEF FInv, FanOutTypeOK
<1>2. /\ fan' \in FanType /\ fan'.pc = "count" /\ fan.pc = "audience"
      /\ fan'.task = fan.task /\ fan'.attempt = fan.attempt /\ fan'.firstPass = fan.firstPass
  BY <1>1 DEF ResolveAudience, FanType
<1>3. FanOutTypeOK'
  BY <1>2 DEF FInv, FanOutTypeOK, ResolveAudience
<1> QED BY <1>2, <1>3 DEF ResolveAudience, FInv, AttemptsCounted, TasksArePaging,
                         FirstPassIsFresh, PageBeforeReceipt, TasksOfTheAudience,
                         ScheduledSoFar, SuccessMeansComplete, PreemptionAlarmIsTrue

\* The first attempt to be counted finds no receipt.
LEMMA StartKeeps ==
  ASSUME FInv, StartAttempt
  PROVE  FInv'
<1> DEFINE task == [m \in Members |-> IF m \in fan.audience \cap Reachable
                                      THEN "claim" ELSE "none"]
<1>1. /\ fan \in FanType
      /\ dispatch \in [attempts : 0 .. MaxAttempts, completed : BOOLEAN, revision : Nat]
      /\ fan.pc = "count"
  BY DEF FInv, FanOutTypeOK, StartAttempt
<1>2. task \in [Members -> Tasks]
  BY DEF Tasks
<1>3. IsFirstPass \in BOOLEAN
  BY DEF IsFirstPass
<1>4. /\ fan' = [fan EXCEPT !.pc = "page", !.firstPass = IsFirstPass,
                            !.revision = dispatch.revision, !.task = task]
      /\ dispatch' = [dispatch EXCEPT !.attempts = @ + 1]
  BY DEF StartAttempt
<1> HIDE DEF task
<1>5. /\ fan' \in FanType /\ fan'.pc = "page" /\ fan'.task = task
      /\ fan'.attempt = fan.attempt /\ fan'.audience = fan.audience
      /\ fan'.scheduleFailed = fan.scheduleFailed /\ fan'.firstPass = IsFirstPass
  BY <1>1, <1>2, <1>3, <1>4 DEF FanType
<1>6. dispatch.attempts < fan.attempt
  BY <1>1 DEF FInv, AttemptsCounted
<1>7. /\ dispatch' \in [attempts : 0 .. MaxAttempts, completed : BOOLEAN, revision : Nat]
      /\ dispatch'.attempts = dispatch.attempts + 1
  BY <1>1, <1>4, <1>6, FanOutConstants DEF FanType
<1>8. FanOutTypeOK'
  BY <1>5, <1>7 DEF FInv, FanOutTypeOK, StartAttempt
<1>9. AttemptsCounted'
  BY <1>1, <1>5, <1>6, <1>7 DEF AttemptsCounted, FanType
<1>10. \A m \in Members : task[m] = IF m \in fan.audience \cap Reachable
                                     THEN "claim" ELSE "none"
  BY DEF task
<1>11. FirstPassIsFresh'
  <2>1. dispatch'.attempts # 0 /\ receipt' = receipt
    BY <1>1, <1>7 DEF StartAttempt
  <2>2. IsFirstPass => \A m \in Members : receipt[m] = "none"
    BY DEF FInv, FirstPassIsFresh, IsFirstPass
  <2> QED BY <1>5, <2>1, <2>2 DEF FirstPassIsFresh
<1>12. TasksArePaging' /\ TasksOfTheAudience' /\ PageBeforeReceipt'
  BY <1>5, <1>10 DEF FInv, TasksArePaging, TasksOfTheAudience, PageBeforeReceipt, StartAttempt
<1>13. ScheduledSoFar' /\ SuccessMeansComplete' /\ PreemptionAlarmIsTrue'
  BY <1>5 DEF FInv, ScheduledSoFar, SuccessMeansComplete, PreemptionAlarmIsTrue, StartAttempt
<1> QED BY <1>8, <1>9, <1>11, <1>12, <1>13 DEF FInv

\* A task that changes the item of its own member only, in the order claim, publish, mark.
LEMMA TaskKeeps ==
  ASSUME FInv, NEW m \in Members, NEW s \in Tasks \ {"none"}, Task(m, s),
         fan.task[m] \in {"claim", "publish", "mark"},
         dispatch' = dispatch, eligible' = eligible, changes' = changes, rostered' = rostered,
         voice' = voice, tones' = tones, lostStamps' = lostStamps, preempted' = preempted,
         receipt' \in [Members -> {"none", "claimed", "sent"}],
         page' \in [Members -> Nat \cup {NoPage}],
         \A n \in Members \ {m} : receipt'[n] = receipt[n] /\ page'[n] = page[n],
         s # "claim",
         s \in {"publish", "mark"} => receipt'[m] # "none",
         s = "mark" => page'[m] # NoPage,
         s = "done" => receipt'[m] = "sent",
         receipt'[m] = "sent" => page'[m] # NoPage,
         page'[m] # NoPage => receipt'[m] # "none"
  PROVE  FInv'
<1>1. fan \in FanType /\ fan.task[m] \notin {"none", "done", "failed"}
  BY DEF FInv, FanOutTypeOK
<1>2. fan.pc = "page"
  BY <1>1 DEF FInv, TasksArePaging
<1>3. /\ fan' \in FanType /\ fan'.pc = "page" /\ fan'.attempt = fan.attempt
      /\ fan'.audience = fan.audience /\ fan'.firstPass = fan.firstPass
      /\ fan'.task[m] = s /\ \A n \in Members \ {m} : fan'.task[n] = fan.task[n]
  BY <1>1, <1>2, TaskStep
<1>4. FanOutTypeOK'
  BY <1>3 DEF FInv, FanOutTypeOK
<1>5. AttemptsCounted' /\ ScheduledSoFar' /\ SuccessMeansComplete' /\ PreemptionAlarmIsTrue'
  BY <1>2, <1>3 DEF FInv, AttemptsCounted, ScheduledSoFar, SuccessMeansComplete,
                    PreemptionAlarmIsTrue
<1>6. dispatch.attempts # 0
  BY <1>2 DEF FInv, FirstPassIsFresh
<1>7. FirstPassIsFresh'
  BY <1>3, <1>6 DEF FInv, FirstPassIsFresh
<1>8. TasksArePaging'
  BY <1>3 DEF TasksArePaging
<1>9. TasksOfTheAudience'
  BY <1>1, <1>2, <1>3 DEF FInv, TasksOfTheAudience
<1>10. PageBeforeReceipt'
  BY <1>3 DEF FInv, PageBeforeReceipt
<1> QED BY <1>4, <1>5, <1>7, <1>8, <1>9, <1>10 DEF FInv

\* What the first pass claims nobody has sent: the alarm stays silent.
LEMMA ClaimKeeps ==
  ASSUME FInv, NEW m \in Members, ClaimReceipt(m)
  PROVE  FInv'
<1>1. /\ receipt \in [Members -> {"none", "claimed", "sent"}]
      /\ page \in [Members -> Nat \cup {NoPage}] /\ page' = page
      /\ fan.task[m] = "claim" /\ fan.firstPass \in BOOLEAN
  BY DEF FInv, FanOutTypeOK, FanType, ClaimReceipt
<1>2. CASE receipt[m] = "sent"
  <2>1. Task(m, "done") /\ receipt' = receipt
    BY <1>2 DEF ClaimReceipt
  <2>2. ~fan.firstPass
    BY <1>1, <1>2 DEF FInv, FirstPassIsFresh
  <2>3. preempted = FALSE
    BY DEF FInv, FanOutTypeOK, PreemptionAlarmIsTrue
  <2>4. preempted' = (preempted \/ fan.firstPass)
    BY <1>2 DEF ClaimReceipt
  <2>5. preempted' = preempted
    BY <2>2, <2>3, <2>4, <1>1
  <2>6. page[m] # NoPage
    BY <1>2 DEF FInv, PageBeforeReceipt
  <2>7. "done" \in Tasks \ {"none"}
    BY DEF Tasks
  <2> QED BY <1>1, <1>2, <2>1, <2>5, <2>6, <2>7, TaskKeeps DEF ClaimReceipt
<1>3. CASE receipt[m] # "sent"
  <2>1. Task(m, "publish") /\ receipt' = [receipt EXCEPT ![m] = "claimed"]
        /\ preempted' = preempted
    BY <1>3 DEF ClaimReceipt
  <2>2. /\ receipt' \in [Members -> {"none", "claimed", "sent"}] /\ receipt'[m] = "claimed"
        /\ \A n \in Members \ {m} : receipt'[n] = receipt[n]
    BY <1>1, <2>1
  <2>3. "publish" \in Tasks \ {"none"}
    BY DEF Tasks
  <2> QED BY <1>1, <2>1, <2>2, <2>3, TaskKeeps DEF ClaimReceipt
<1> QED BY <1>2, <1>3

LEMMA PublishKeeps ==
  ASSUME FInv, NEW m \in Members, PublishPage(m)
  PROVE  FInv'
<1>1. /\ receipt \in [Members -> {"none", "claimed", "sent"}] /\ receipt' = receipt
      /\ page \in [Members -> Nat \cup {NoPage}] /\ fan.task[m] = "publish"
      /\ receipt[m] # "none" /\ fan.revision \in Nat
      /\ receipt[m] = "sent" => page[m] # NoPage
  BY DEF FInv, FanOutTypeOK, FanType, PublishPage, PageBeforeReceipt
<1>2. {"mark", "failed"} \subseteq Tasks \ {"none"}
  BY DEF Tasks
<1>3. CASE Task(m, "failed") /\ UNCHANGED page
  BY <1>1, <1>2, <1>3, TaskKeeps DEF PublishPage
<1>4. CASE /\ page' = IF page[m] = NoPage THEN [page EXCEPT ![m] = fan.revision] ELSE page
           /\ Task(m, "mark")
  <2>1. /\ page' \in [Members -> Nat \cup {NoPage}] /\ page'[m] # NoPage
        /\ \A n \in Members \ {m} : page'[n] = page[n]
    BY <1>1, <1>4 DEF NoPage
  <2> QED BY <1>1, <1>2, <1>4, <2>1, TaskKeeps DEF PublishPage
<1> QED BY <1>3, <1>4 DEF PublishPage

LEMMA MarkKeeps ==
  ASSUME FInv, NEW m \in Members, MarkSent(m)
  PROVE  FInv'
<1>1. /\ receipt \in [Members -> {"none", "claimed", "sent"}] /\ page' = page
      /\ receipt' = [receipt EXCEPT ![m] = "sent"] /\ Task(m, "done")
      /\ page \in [Members -> Nat \cup {NoPage}] /\ fan.task[m] = "mark" /\ page[m] # NoPage
  BY DEF FInv, FanOutTypeOK, MarkSent, PageBeforeReceipt
<1>2. "done" \in Tasks \ {"none"}
  BY DEF Tasks
<1>3. /\ receipt' \in [Members -> {"none", "claimed", "sent"}] /\ receipt'[m] = "sent"
      /\ \A n \in Members \ {m} : receipt'[n] = receipt[n]
  BY <1>1
<1> QED BY <1>1, <1>2, <1>3, TaskKeeps DEF MarkSent

LEMMA TaskFailureKeeps ==
  ASSUME FInv, NEW m \in Members, TaskFails(m)
  PROVE  FInv'
<1>1. /\ receipt \in [Members -> {"none", "claimed", "sent"}] /\ receipt' = receipt
      /\ page \in [Members -> Nat \cup {NoPage}] /\ page' = page
      /\ fan.task[m] \in {"claim", "mark"} /\ Task(m, "failed")
      /\ receipt[m] = "sent" => page[m] # NoPage
      /\ page[m] # NoPage => receipt[m] # "none"
  BY DEF FInv, FanOutTypeOK, TaskFails, PageBeforeReceipt
<1>2. "failed" \in Tasks \ {"none"}
  BY DEF Tasks
<1> QED BY <1>1, <1>2, TaskKeeps DEF TaskFails

-----------------------------------------------------------------------------
(* The end of an attempt.                                                  *)

\* When all pages have settled without a failure, the whole audience is paged.
LEMMA SettledPages ==
  ASSUME FInv, fan.pc \in {"page", "schedule"}, ~PagesFailed,
         \A m \in Members : fan.task[m] \in {"none", "done", "failed"}
  PROVE  \A m \in fan.audience \cap Reachable : receipt[m] = "sent" /\ page[m] # NoPage
<1>1. fan.audience \subseteq Members
  BY DEF FInv, FanOutTypeOK, FanType
<1>2. \A m \in fan.audience \cap Reachable : fan.task[m] = "done"
  BY <1>1 DEF FInv, TasksOfTheAudience, PagesFailed
<1> QED BY <1>1, <1>2 DEF FInv, PageBeforeReceipt

LEMMA SettleKeeps ==
  ASSUME FInv, PagesSettled
  PROVE  FInv'
<1>1. /\ fan \in FanType /\ fan.pc = "page"
      /\ dispatch \in [attempts : 0 .. MaxAttempts, completed : BOOLEAN, revision : Nat]
  BY DEF FInv, FanOutTypeOK, PagesSettled
<1> DEFINE pc == IF fan.audience = {} THEN "done" ELSE "schedule"
<1>2. fan' = [fan EXCEPT !.pc = pc, !.unscheduled = fan.audience]
  BY DEF PagesSettled
<1>3. /\ fan' \in FanType /\ fan'.task = fan.task /\ fan'.attempt = fan.attempt
      /\ fan'.audience = fan.audience /\ fan'.firstPass = fan.firstPass
      /\ fan'.unscheduled = fan.audience
      /\ fan'.pc = IF fan.audience = {} THEN "done" ELSE "schedule"
  BY <1>1, <1>2 DEF FanType
<1>4. /\ dispatch' \in [attempts : 0 .. MaxAttempts, completed : BOOLEAN, revision : Nat]
      /\ dispatch'.attempts = dispatch.attempts
  BY <1>1 DEF PagesSettled
<1>5. lostStamps' \in 0 .. MaxLostStamps
  BY FanOutConstants DEF FInv, FanOutTypeOK, PagesSettled
<1>6. FanOutTypeOK'
  BY <1>3, <1>4, <1>5 DEF FInv, FanOutTypeOK, PagesSettled
<1>7. AttemptsCounted' /\ FirstPassIsFresh'
  BY <1>1, <1>3, <1>4 DEF FInv, AttemptsCounted, FirstPassIsFresh, PagesSettled
<1>8. TasksArePaging' /\ PageBeforeReceipt' /\ TasksOfTheAudience'
  BY <1>1, <1>3 DEF FInv, TasksArePaging, PageBeforeReceipt, TasksOfTheAudience, PagesSettled
<1>9. ScheduledSoFar' /\ SuccessMeansComplete' /\ PreemptionAlarmIsTrue'
  BY <1>3 DEF FInv, ScheduledSoFar, SuccessMeansComplete, PreemptionAlarmIsTrue, PagesSettled
<1> QED BY <1>6, <1>7, <1>8, <1>9 DEF FInv

LEMMA ScheduleMemberKeeps ==
  ASSUME FInv, NEW m \in Members, ScheduleMember(m)
  PROVE  FInv'
<1>1. /\ fan \in FanType /\ fan.pc = "schedule" /\ m \in fan.unscheduled
      /\ rostered \subseteq Members /\ voice \subseteq Members
  BY DEF FInv, FanOutTypeOK, ScheduleMember
<1>2. PICK seeded \in BOOLEAN, scheduled \in BOOLEAN :
          /\ scheduled => seeded
          /\ rostered' = IF seeded THEN rostered \cup {m} ELSE rostered
          /\ voice' = IF scheduled THEN voice \cup {m} ELSE voice
          /\ fan' = [fan EXCEPT !.unscheduled = @ \ {m}, !.scheduleFailed = @ \/ ~scheduled]
  BY DEF ScheduleMember
<1>3. (fan.scheduleFailed \/ ~scheduled) \in BOOLEAN
  OBVIOUS
<1>4. fan' = [fan EXCEPT !.unscheduled = fan.unscheduled \ {m},
                         !.scheduleFailed = fan.scheduleFailed \/ ~scheduled]
  BY <1>1, <1>2 DEF FanType
<1>5. /\ fan' \in FanType /\ fan'.task = fan.task /\ fan'.attempt = fan.attempt
      /\ fan'.audience = fan.audience /\ fan'.firstPass = fan.firstPass
      /\ fan'.unscheduled = fan.unscheduled \ {m} /\ fan'.pc = "schedule"
      /\ fan'.scheduleFailed = (fan.scheduleFailed \/ ~scheduled)
  BY <1>1, <1>3, <1>4 DEF FanType
<1>6. rostered' \subseteq Members /\ voice' \subseteq Members
  BY <1>1, <1>2
<1>7. FanOutTypeOK'
  BY <1>5, <1>6 DEF FInv, FanOutTypeOK, ScheduleMember
<1>8. voice' \subseteq rostered'
  BY <1>2 DEF FInv, ScheduledSoFar
<1>9. ~fan'.scheduleFailed => \A n \in fan'.audience \ fan'.unscheduled : n \in voice'
  <2> SUFFICES ASSUME ~fan'.scheduleFailed, NEW n \in fan.audience \ (fan.unscheduled \ {m})
               PROVE  n \in voice'
    BY <1>5
  <2>1. scheduled /\ ~fan.scheduleFailed
    BY <1>5
  <2>2. n = m \/ n \in voice
    BY <1>1, <2>1 DEF FInv, ScheduledSoFar
  <2> QED BY <1>2, <2>1, <2>2
<1>10. ScheduledSoFar'
  BY <1>5, <1>8, <1>9 DEF ScheduledSoFar
<1>11. SuccessMeansComplete'
  BY <1>5 DEF SuccessMeansComplete
<1> QED BY <1>1, <1>5, <1>7, <1>10, <1>11 DEF ScheduleMember, FInv, AttemptsCounted,
       TasksArePaging, FirstPassIsFresh, PageBeforeReceipt, TasksOfTheAudience,
       PreemptionAlarmIsTrue

\* The ladder is created only when no member's scheduling failed.
LEMMA LadderAfterMembers ==
  ASSUME FInv, ScheduleLadder, NEW created \in LadderCreated, created # {}
  PROVE  fan.audience \subseteq rostered \cap voice
<1>1. /\ fan.pc = "schedule" /\ fan.unscheduled = {} /\ ~fan.scheduleFailed
  BY DEF ScheduleLadder, LadderCreated
<1> QED BY <1>1 DEF FInv, ScheduledSoFar

LEMMA ScheduleLadderKeeps ==
  ASSUME FInv, ScheduleLadder
  PROVE  FInv'
<1>1. PICK created \in LadderCreated :
          /\ tones' = tones \cup created
          /\ fan' = IF Fails(fan.scheduleFailed \/ created # {2, 3})
                    THEN Retried ELSE [fan EXCEPT !.pc = "done"]
  BY DEF ScheduleLadder
<1>2. /\ fan \in FanType /\ tones \subseteq {2, 3} /\ fan.pc = "schedule"
  BY DEF FInv, FanOutTypeOK, ScheduleLadder
<1>3. created \subseteq {2, 3}
  BY DEF LadderCreated
<1>4. CASE Fails(fan.scheduleFailed \/ created # {2, 3})
  BY <1>1, <1>2, <1>3, <1>4, RetryKeeps DEF ScheduleLadder
<1>5. CASE ~Fails(fan.scheduleFailed \/ created # {2, 3})
  <2>1. ~PagesFailed /\ ~fan.scheduleFailed /\ created = {2, 3}
    BY <1>5 DEF Fails
  <2>2. fan' = [fan EXCEPT !.pc = "done"] /\ tones' = {2, 3}
    BY <1>1, <1>2, <1>5, <2>1
  <2>3. /\ fan' \in FanType /\ fan'.pc = "done" /\ fan'.task = fan.task
        /\ fan'.attempt = fan.attempt /\ fan'.audience = fan.audience
        /\ fan'.firstPass = fan.firstPass
    BY <1>2, <2>2 DEF FanType
  <2>4. \A m \in Members : fan.task[m] \in {"none", "done", "failed"}
    BY <1>2 DEF FInv, TasksArePaging
  <2>5. \A m \in fan.audience \cap Reachable : receipt[m] = "sent" /\ page[m] # NoPage
    BY <1>2, <2>1, <2>4, SettledPages
  <2>6. fan.audience \subseteq rostered \cap voice
    BY <2>1, LadderAfterMembers
  <2>7. SuccessMeansComplete'
    BY <2>2, <2>3, <2>5, <2>6 DEF SuccessMeansComplete, ScheduleLadder
  <2>8. FanOutTypeOK'
    BY <2>2, <2>3 DEF FInv, FanOutTypeOK, ScheduleLadder
  <2> QED BY <1>2, <2>3, <2>7, <2>8 DEF ScheduleLadder, FInv, AttemptsCounted, TasksArePaging,
         FirstPassIsFresh, PageBeforeReceipt, TasksOfTheAudience, ScheduledSoFar,
         PreemptionAlarmIsTrue
<1> QED BY <1>4, <1>5

-----------------------------------------------------------------------------
\* Every step of the fan-out keeps the invariant.
LEMMA FanOutStepKeeps ==
  ASSUME FInv, FanOutStep \/ FanOutFault \/ \E m \in Members : ChangeEligibility(m)
  PROVE  FInv'
<1>1. CASE FanOutThrows
  BY <1>1, RetryKeeps DEF FanOutThrows, FInv, FanOutTypeOK
<1>2. CASE FanOutStep
  BY <1>2, AudienceKeeps, StartKeeps, SettleKeeps, ScheduleLadderKeeps, ClaimKeeps, PublishKeeps,
     MarkKeeps, ScheduleMemberKeeps DEF FanOutStep
<1> QED BY <1>1, <1>2, TaskFailureKeeps, ChangeKeeps DEF FanOutFault

LEMMA FanOutInductive == FInv /\ [FanOutNext]_fanOutVars => FInv'
<1> SUFFICES ASSUME FInv, [FanOutNext]_fanOutVars PROVE FInv'
  OBVIOUS
<1>1. CASE UNCHANGED fanOutVars
  BY <1>1 DEF fanOutVars, FInv, FanOutTypeOK, AttemptsCounted, TasksArePaging, FirstPassIsFresh,
         PageBeforeReceipt, TasksOfTheAudience, ScheduledSoFar, SuccessMeansComplete,
         PreemptionAlarmIsTrue
<1>2. CASE FanOutNext
  BY <1>2, ArrivesKeeps, FanOutStepKeeps DEF FanOutNext
<1> QED BY <1>1, <1>2

\* The step that stamps fanOutCompletedAt has paged everybody it read.
LEMMA StampStep ==
  ASSUME FInv, FanOutStep \/ FanOutFault \/ \E m \in Members : ChangeEligibility(m),
         dispatch'.completed, ~dispatch.completed
  PROVE  /\ \A m \in fan.audience \cap Reachable : receipt[m] = "sent" /\ page[m] # NoPage
         /\ PagesSettled
<1>1. dispatch' # dispatch
  OBVIOUS
<1>2. ~StartAttempt
  <2> SUFFICES ASSUME StartAttempt PROVE FALSE
    OBVIOUS
  <2> QED BY DEF StartAttempt, FInv, FanOutTypeOK
<1>3. PagesSettled
  BY <1>1, <1>2 DEF FanOutStep, FanOutFault, ChangeEligibility, ResolveAudience, ScheduleLadder,
                    ClaimReceipt, PublishPage, MarkSent, ScheduleMember, FanOutThrows, TaskFails
<1>4. MayStamp
  BY <1>1, <1>3 DEF PagesSettled
<1> QED BY <1>3, <1>4, SettledPages DEF MayStamp, PagesSettled

\* The step that schedules a tone follows the scheduling of everybody.
LEMMA LadderStep ==
  ASSUME FInv, FanOutStep \/ FanOutFault \/ \E m \in Members : ChangeEligibility(m),
         tones' # tones
  PROVE  fan.audience \subseteq rostered \cap voice
<1>1. ScheduleLadder
  BY DEF FanOutStep, FanOutFault, ChangeEligibility, ResolveAudience, StartAttempt, PagesSettled,
         ClaimReceipt, PublishPage, MarkSent, ScheduleMember, FanOutThrows, TaskFails
<1>2. PICK created \in LadderCreated : tones' = tones \cup created
  BY <1>1 DEF ScheduleLadder
<1> QED BY <1>1, <1>2, LadderAfterMembers

THEOREM FanOutInvariant == FanOutSpec => []FInv
BY FanOutInitInductive, FanOutInductive, PTL DEF FanOutSpec

\* Every variable of the fan-out keeps its type; in particular the stream makes no more attempts
\* than it may (fanout/handler.ts:637-664).
THEOREM FanOutTypeCorrect == FanOutSpec => []FanOutTypeOK
<1>1. FInv => FanOutTypeOK
  BY DEF FInv
<1> QED BY <1>1, FanOutInvariant, PTL

\* The alarm for a pre-empted tone-1 page is never raised by the fan-out itself
\* (fanout/handler.ts:281-319, 464-486).
THEOREM PreemptionAlarmRingsTrue == FanOutSpec => []PreemptionAlarmIsTrue
<1>1. FInv => PreemptionAlarmIsTrue
  BY DEF FInv
<1> QED BY <1>1, FanOutInvariant, PTL

\* The tones are scheduled after everybody of the audience that schedules them is on the roster
\* with a voice escalation (fanout/fanOut.ts:52-126).
THEOREM LadderIsScheduledLast == FanOutSpec => LadderSeesItsRoster
<1>1. FInv /\ [FanOutNext]_fanOutVars =>
        [tones' # tones => fan.audience \subseteq rostered \cap voice]_fanOutVars
  BY LadderStep DEF FanOutNext, fanOutVars
<1> QED BY <1>1, FanOutInvariant, PTL DEF FanOutSpec, LadderSeesItsRoster
=============================================================================
