--------------------------- MODULE ToneLadderProofs ---------------------------
(***************************************************************************)
(* The safety of the tone ladder, for every roster, number of deliveries,  *)
(* officers' requests and bound on attempts.                               *)
(*                                                                         *)
(* One inductive invariant, IInv, carries all theorems: it adds to the     *)
(* checked properties what each invocation knows while it runs (how far    *)
(* its pages have come, what it decided, what it owes), which is what its  *)
(* commit relies on.  Those of fires that started and of mutual aid that   *)
(* is due hold of a schedule that is delivered once (OneDelivery).         *)
(***************************************************************************)
EXTENDS ToneLadder, TLAPS

\* The invocations alone are typed.
EvalTyped == eval \in [Evals -> EvalType]
\* Everything but the invocations is typed.
Items ==
  /\ metadata \in MetadataType
  /\ guard \in [Tones -> {"none", "skipped", "fired"}]
  /\ pending \in [Tones -> BOOLEAN]
  /\ marker \in [Tones -> {"none", "due", "notDue"}]
  /\ audit \subseteq AuditType
  /\ aid \in {"none", "TONE_3_PREDICATE_UNMET", "MANUAL"}
  /\ prompts \in SUBSET Officers /\ heard \in SUBSET Officers
  /\ pages \in [Tones -> SUBSET Members]
  /\ responding \in SUBSET Members /\ answers \in 0 .. MaxAnswers
  /\ halt \in [Halts -> HaltType]
  /\ trigger \in [Triggers -> {"idle", "prompt", "done", "failed"}]

-----------------------------------------------------------------------------
(* The inductive invariant.                                                *)

\* An invocation on its way to record a skip.
Skipping(e) == eval[e].pc \in {"skip", "skipGuard"}
Firing(e) ==
    \/ eval[e].pc \in {"mark", "page", "commit", "commitGuard"}
    \/ eval[e].pc \in {"aid", "prompt"} /\ ~eval[e].rerun
\* Every member is marked paged for tone t.
AllPaged(t) == Members \subseteq pages[t]

\* What an invocation decided stays with it until it commits.
Decided(e) ==
    /\ eval[e].pc = "tone3" =>
          eval[e].tone = 2 /\ eval[e].outcome \in FireOutcomes \cup {"SKIPPED_PREDICATE_MET"}
    /\ Skipping(e) => eval[e].outcome = "SKIPPED_PREDICATE_MET"
    /\ Firing(e) => eval[e].outcome \in FireOutcomes
    /\ Manual(e) /\ (Skipping(e) \/ eval[e].pc = "tone3") =>
          eval[e].outcome # "SKIPPED_PREDICATE_MET"
    /\ eval[e].tone = 3 /\ (Skipping(e) \/ Firing(e)) => eval[e].next = 0

\* Where in its run an invocation can know of a prompt failure, or be a re-run of the prompts.
Carries(e) ==
    /\ eval[e].aidFailed => eval[e].pc \in {"commit", "commitGuard", "pending"}
    /\ eval[e].rerun => eval[e].pc \in {"aid", "prompt", "clear", "return"}

\* How far an invocation knows its tone to be paged.
Paged(e) ==
    /\ eval[e].pc \in {"tone3", "mark"} => eval[e].todo = Members
    /\ eval[e].pc = "page" /\ ~eval[e].pageFailed =>
          Members \ eval[e].todo \subseteq pages[ToneOf(e)]
    /\ eval[e].pc \in {"aid", "prompt"} /\ ~eval[e].pageFailed => AllPaged(ToneOf(e))
    /\ eval[e].rerun => AllPaged(ToneOf(e))
    /\ eval[e].pc \in {"commit", "commitGuard", "pending", "clear"} => AllPaged(ToneOf(e))

\* What an officer's invocation is about to answer, or has answered.
Told(e) ==
    /\ Manual(e) /\ eval[e].pc \in {"return", "done"}
    /\ eval[e].outcome \in {"FIRED_MANUAL_OVERRIDE", "SKIPPED_ALREADY_FIRED"}
    => AllPaged(ToneOf(e))

\* What is known of one invocation.
LocalInv(e) == Decided(e) /\ Carries(e) /\ Paged(e) /\ Told(e)
EvalInv == \A e \in Evals : LocalInv(e)

\* A tone with a fire guard, or with prompts still due, has been paged to every member.
ItemsPaged == \A t \in Tones : guard[t] = "fired" \/ pending[t] => AllPaged(t)

\* The metadata's condition, once refused to an invocation, stays refused.
Refused ==
    \A e \in Evals : eval[e].pc = "commitGuard" =>
       metadata.current >= eval[e].tone \/ metadata.status = "HALTED_MANUAL"

\* A fired row has its fire guard.
RowsHaveGuards ==
    \A a \in audit : a.outcome \in FireOutcomes => guard[a.tone] = "fired"

\* The attempt that still has to re-prompt, or has failed.
Owes(e, t) ==
    /\ ToneOf(e) = t
    /\ \/ eval[e].pc \in {"failed", "metadata", "guard"}
       \/ eval[e].rerun /\ eval[e].pc \in {"aid", "prompt", "clear"}
\* Pending prompts of a ladder not halted are owed by some invocation.
PendingOwed ==
    metadata.status # "HALTED_MANUAL" =>
       \A t \in Tones : pending[t] => \E e \in Evals : Owes(e, t)

\* The inductive invariant.
IInv ==
    /\ TypeOK /\ EvalInv /\ ItemsPaged
    /\ LadderAgreesWithGuards /\ Refused
    /\ FiredOnce /\ RowsHaveGuards
    /\ NoNextToneOnAFinishedLadder /\ PendingOwed

-----------------------------------------------------------------------------

\* Updating one field of an invocation with a value of its type keeps the record typed.
LEMMA FieldTyped ==
  ASSUME NEW r \in EvalType
  PROVE  /\ \A x \in Calls \cup {"idle", "done", "failed"} : [r EXCEPT !.pc = x] \in EvalType
         /\ \A x \in Tones : [r EXCEPT !.tone = x] \in EvalType
         /\ \A x \in 0 .. MaxAttempts : [r EXCEPT !.attempt = x] \in EvalType
         /\ \A x \in BOOLEAN : [r EXCEPT !.completed = x] \in EvalType
         /\ \A x \in BOOLEAN : [r EXCEPT !.resuming = x] \in EvalType
         /\ \A x \in BOOLEAN : [r EXCEPT !.due = x] \in EvalType
         /\ \A x \in {0, 3} : [r EXCEPT !.next = x] \in EvalType
         /\ \A x \in SUBSET Members : [r EXCEPT !.todo = x] \in EvalType
         /\ \A x \in BOOLEAN : [r EXCEPT !.pageFailed = x] \in EvalType
         /\ \A x \in BOOLEAN : [r EXCEPT !.aidFailed = x] \in EvalType
         /\ \A x \in BOOLEAN : [r EXCEPT !.rerun = x] \in EvalType
         /\ \A x \in Outcomes \cup {"none"} : [r EXCEPT !.outcome = x] \in EvalType
BY DEF EvalType

\* An invocation that has not started is typed.
LEMMA IdleTyped == IdleEval \in EvalType
BY LadderConstants DEF IdleEval, EvalType, Tones

\* The program counters the actions write are program counters.
LEMMA CallsAre ==
  /\ \A pc \in {"metadata", "guard", "marker", "roster", "tone3", "skip", "skipGuard", "mark",
                "page", "aid", "prompt", "commit", "commitGuard", "pending", "clear", "return",
                "idle", "done", "failed"} :
        pc \in Calls \cup {"idle", "done", "failed"}
BY DEF Calls

\* What a failed attempt leaves, a retry or the end, is typed.
LEMMA FailedTyped ==
  ASSUME EvalTyped, NEW e \in Evals
  PROVE  Failed(e) \in EvalType
<1>1. eval[e].tone \in Tones /\ eval[e].attempt \in 0 .. MaxAttempts
  BY DEF EvalTyped, EvalType
<1>2. eval[e].attempt < MaxAttempts => eval[e].attempt + 1 \in 0 .. MaxAttempts
  BY <1>1, LadderConstants
<1> QED BY <1>1, <1>2, IdleTyped, FieldTyped, CallsAre DEF Failed, ToneOf

\* A throw keeps the invocations typed.
LEMMA FailTyped ==
  ASSUME EvalTyped, NEW e \in Evals, Fail(e)
  PROVE  EvalTyped'
BY FailedTyped DEF Fail, EvalTyped

\* Returning an outcome keeps the invocations typed.
LEMMA FinishTyped ==
  ASSUME EvalTyped, NEW e \in Evals, NEW o \in Outcomes \cup {"none"}, Finish(e, o)
  PROVE  EvalTyped'
<1>1. eval[e].tone \in Tones
  BY DEF EvalTyped, EvalType
<1> QED BY <1>1, IdleTyped, FieldTyped, CallsAre DEF Finish, ToneOf, EvalTyped

\* Going on to the next call keeps the invocations typed.
LEMMA GotoTyped ==
  ASSUME EvalTyped, NEW e \in Evals, NEW pc \in Calls, Goto(e, pc)
  PROVE  EvalTyped'
BY FieldTyped DEF Goto, EvalTyped

\* The metadata read keeps the invocations typed.
LEMMA ReadMetadataT ==
  ASSUME EvalTyped, NEW e \in Evals, ReadMetadata(e)
  PROVE  EvalTyped'
<1>1. CASE metadata.status = "HALTED_MANUAL"
  BY <1>1, FinishTyped DEF ReadMetadata, Outcomes
<1>2. CASE metadata.status # "HALTED_MANUAL"
    <2> DEFINE next == IF metadata.timesRecorded THEN 3 ELSE 0
             c == metadata.status = "COMPLETED"
  <2>1. c \in BOOLEAN OBVIOUS
  <2>2. next \in {0, 3} OBVIOUS
  <2>3. eval' = [eval EXCEPT ![e].pc = "guard", ![e].completed = c, ![e].next = next]
    BY <1>2 DEF ReadMetadata
  <2> HIDE DEF next, c
  <2> QED BY <2>1, <2>2, <2>3, FieldTyped, CallsAre DEF EvalTyped
<1> QED BY <1>1, <1>2

\* The firing-marker read keeps the invocations typed.
LEMMA ReadMarkerT ==
  ASSUME EvalTyped, NEW e \in Evals, ReadMarker(e)
  PROVE  EvalTyped'
<1>1. Resumes(e) \in BOOLEAN /\ (marker[ToneOf(e)] = "due") \in BOOLEAN BY DEF Resumes
<1> QED BY <1>1, FieldTyped, CallsAre DEF ReadMarker, EvalTyped

\* The roster read, with everything it decides, keeps the invocations typed.
LEMMA ReadRosterT ==
  ASSUME EvalTyped, NEW e \in Evals, ReadRoster(e)
  PROVE  EvalTyped'
<1> DEFINE skip == ~eval[e].resuming /\ IsPredicateMet /\ ~Manual(e)
           due  == IF eval[e].resuming THEN eval[e].due
                   ELSE ToneOf(e) = 3 /\ ~IsPredicateMet
           pc == IF ToneOf(e) = 2 THEN "tone3" ELSE IF skip THEN "skip"
                 ELSE IF eval[e].resuming THEN "page" ELSE "mark"
           outcome == IF Manual(e) THEN "FIRED_MANUAL_OVERRIDE"
                      ELSE IF skip THEN "SKIPPED_PREDICATE_MET" ELSE "FIRED"
           next == IF ToneOf(e) = 2 THEN eval[e].next ELSE 0
<1>1. due \in BOOLEAN BY DEF EvalTyped, EvalType
<1>2. pc \in Calls BY DEF Calls
<1>3. outcome \in Outcomes BY DEF Outcomes
<1>4. next \in {0, 3} BY DEF EvalTyped, EvalType
<1>5. eval' = [eval EXCEPT ![e].pc = pc, ![e].outcome = outcome, ![e].due = due,
                           ![e].next = next, ![e].todo = Members]
  BY DEF ReadRoster
<1> HIDE DEF due, pc, outcome, next
<1> QED BY <1>1, <1>2, <1>3, <1>4, <1>5, FieldTyped DEF EvalTyped

\* Paging one member keeps the invocations typed.
LEMMA PageMemberT ==
  ASSUME EvalTyped, NEW e \in Evals, NEW m \in Members, PageMember(e, m)
  PROVE  EvalTyped'
<1>1. PICK failed \in BOOLEAN :
        eval' = [eval EXCEPT ![e].todo = @ \ {m}, ![e].pageFailed = @ \/ failed]
  BY DEF PageMember
<1>2. eval[e].todo \ {m} \in SUBSET Members /\ (eval[e].pageFailed \/ failed) \in BOOLEAN
  BY DEF EvalTyped, EvalType
<1> QED BY <1>1, <1>2, FieldTyped DEF EvalTyped

\* What follows a mutual-aid request keeps the invocations typed.
LEMMA AidSettledT ==
  ASSUME EvalTyped, NEW e \in Evals, NEW failed \in BOOLEAN, AidSettled(e, failed)
  PROVE  EvalTyped'
<1>1. CASE eval' = [eval EXCEPT ![e].pc = "commit", ![e].aidFailed = failed]
  BY <1>1, FieldTyped, CallsAre DEF EvalTyped
<1> QED BY <1>1, FailTyped, GotoTyped DEF AidSettled, Calls

\* What follows a commit keeps the invocations typed.
LEMMA CommittedT ==
  ASSUME EvalTyped, NEW e \in Evals, Committed(e)
  PROVE  EvalTyped'
BY FailTyped, GotoTyped DEF Committed, Calls

\* What follows a refused commit keeps the invocations typed.
LEMMA AlreadyExistsT ==
  ASSUME EvalTyped, NEW e \in Evals, AlreadyExists(e)
  PROVE  EvalTyped'
<1>1. CASE eval[e].aidFailed
  BY <1>1, GotoTyped DEF AlreadyExists, Calls
<1>2. CASE ~eval[e].aidFailed
  <2>1. eval' = [eval EXCEPT ![e].pc = "return", ![e].outcome = "SKIPPED_ALREADY_FIRED"]
    BY <1>2 DEF AlreadyExists
  <2>2. "SKIPPED_ALREADY_FIRED" \in Outcomes BY DEF Outcomes
  <2> QED BY <2>1, <2>2, FieldTyped, CallsAre DEF EvalTyped
<1> QED BY <1>1, <1>2

\* Every step of an invocation keeps the invocations typed.
LEMMA EvalStepTyped ==
  ASSUME EvalTyped, NEW e \in Evals, Step(e) \/ Deliver(e) \/ Throw(e)
  PROVE  EvalTyped'
<1>1. CASE ReadMetadata(e) BY <1>1, ReadMetadataT
<1>2. CASE ReadGuard(e)
  <2>1. CASE RePrompts(e)
    <3>1. eval' = [eval EXCEPT ![e].pc = "aid", ![e].rerun = TRUE]
      BY <1>2, <2>1 DEF ReadGuard
    <3> QED BY <3>1, FieldTyped, CallsAre DEF EvalTyped
  <2>2. CASE ~RePrompts(e)
    BY <1>2, <2>2, FinishTyped, GotoTyped DEF ReadGuard, Calls, Outcomes
  <2> QED BY <2>1, <2>2
<1>3. CASE ReadMarker(e) BY <1>3, ReadMarkerT
<1>4. CASE ReadRoster(e) BY <1>4, ReadRosterT
<1>5. CASE ReadTone3Guard(e)
  <2> DEFINE next == IF guard[3] # "none" THEN 0 ELSE eval[e].next
             pc == IF eval[e].outcome = "SKIPPED_PREDICATE_MET" THEN "skip"
                   ELSE IF eval[e].resuming THEN "page" ELSE "mark"
  <2>1. next \in {0, 3} BY DEF EvalTyped, EvalType
  <2>2. pc \in Calls BY DEF Calls
  <2>3. eval' = [eval EXCEPT ![e].pc = pc, ![e].next = next] BY <1>5 DEF ReadTone3Guard
  <2> HIDE DEF next, pc
  <2> QED BY <2>1, <2>2, <2>3, FieldTyped DEF EvalTyped
<1>6. CASE WriteFiringMarker(e) BY <1>6, GotoTyped DEF WriteFiringMarker, Calls
<1>7. ASSUME NEW m \in Members, PageMember(e, m) PROVE EvalTyped' BY <1>7, PageMemberT
<1>8. CASE PagesSettled(e) BY <1>8, GotoTyped, FailTyped DEF PagesSettled, Calls
<1>9. CASE RequestMutualAid(e)
  BY <1>9, AidSettledT, GotoTyped DEF RequestMutualAid, Calls
<1>10. CASE PromptForTone(e)
  BY <1>10, AidSettledT DEF PromptForTone
<1>11. CASE ClearPending(e)
  BY <1>11, FieldTyped, CallsAre DEF ClearPending, EvalTyped, Outcomes
<1>12. CASE CommitFire(e)
  BY <1>12, CommittedT, AlreadyExistsT, GotoTyped DEF CommitFire, Calls
<1>13. CASE CommitFireGuard(e)
  BY <1>13, CommittedT, AlreadyExistsT DEF CommitFireGuard
<1>14. CASE CommitSkip(e)
  BY <1>14, AlreadyExistsT, GotoTyped DEF CommitSkip, Calls
<1>15. CASE CommitSkipGuard(e)
  BY <1>15, AlreadyExistsT, GotoTyped DEF CommitSkipGuard, Calls
<1>16. CASE MarkMutualAidPending(e) BY <1>16, FailTyped DEF MarkMutualAidPending
<1>17. CASE Return(e)
  BY <1>17, FinishTyped DEF Return, EvalTyped, EvalType
<1>18. CASE Deliver(e)
  <2>1. 1 \in 0 .. MaxAttempts BY LadderConstants
  <2> QED BY <1>18, <2>1, FieldTyped, CallsAre DEF Deliver, EvalTyped
<1>19. CASE Throw(e) BY <1>19, FailTyped DEF Throw
<1> QED
  BY <1>1, <1>2, <1>3, <1>4, <1>5, <1>6, <1>7, <1>8, <1>9, <1>10, <1>11, <1>12, <1>13, <1>14,
     <1>15, <1>16, <1>17, <1>18, <1>19 DEF Step

\* An officer's advance starts an invocation for a real tone.
LEMMA AdvanceTyped ==
  ASSUME TypeOK, NEW e \in Evals, Advance(e)
  PROVE  EvalTyped'
<1>1. metadata.current + 1 \in Tones
  BY DEF TypeOK, MetadataType, Advance, Tones
<1>2. 1 \in 0 .. MaxAttempts BY LadderConstants
<1> QED BY <1>1, <1>2, FieldTyped, CallsAre DEF Advance, EvalTyped, TypeOK

\* The tables and the invocations are typed when the dispatch is created.
LEMMA InitTyped == Init => TypeOK
<1> SUFFICES ASSUME Init PROVE TypeOK OBVIOUS
<1>1. EvalTyped
  <2>1. \A e \in Evals : [IdleEval EXCEPT !.tone = IF e \in Timers3 THEN 3 ELSE 2] \in EvalType
    BY IdleTyped, FieldTyped DEF Tones
  <2> QED BY <2>1 DEF Init, EvalTyped
<1>2. Items BY LadderConstants DEF Init, Items, MetadataType, HaltType, Statuses, Tones
<1> QED BY <1>1, <1>2 DEF TypeOK, EvalTyped, Items

\* A step of an invocation keeps the items it writes typed; a row it writes to the audit has
\* an outcome, which the invocation decided before it committed.
LEMMA StepItems ==
  ASSUME TypeOK, NEW e \in Evals, Decided(e), Step(e)
  PROVE  Items'
<1> USE DEF Items, MetadataType, ladder, sends, roster
<1>0. /\ Items /\ ToneOf(e) \in Tones /\ eval[e].next \in {0, 3} /\ eval[e].aidFailed \in BOOLEAN
      /\ eval[e].attempt \in 0 .. MaxAttempts
  BY DEF TypeOK, EvalType, ToneOf
<1>a. Skipping(e) \/ Firing(e) => eval[e].outcome \in Outcomes
  BY DEF Decided, FireOutcomes, Outcomes
<1>1. CASE ReadMetadata(e) BY <1>0, <1>1 DEF ReadMetadata
<1>2. CASE ReadGuard(e) BY <1>0, <1>2 DEF ReadGuard
<1>3. CASE ReadMarker(e) BY <1>0, <1>3 DEF ReadMarker
<1>4. CASE ReadRoster(e) BY <1>0, <1>4 DEF ReadRoster
<1>5. CASE ReadTone3Guard(e) BY <1>0, <1>5 DEF ReadTone3Guard
<1>6. CASE WriteFiringMarker(e) BY <1>0, <1>6 DEF WriteFiringMarker
<1>7. ASSUME NEW m \in Members, PageMember(e, m) PROVE Items' BY <1>0, <1>7 DEF PageMember
<1>8. CASE PagesSettled(e) BY <1>0, <1>8 DEF PagesSettled
<1>9. CASE RequestMutualAid(e) BY <1>0, <1>9 DEF RequestMutualAid
<1>10. CASE PromptForTone(e) BY <1>0, <1>10 DEF PromptForTone, PromptOfficers
<1>11. CASE ClearPending(e) BY <1>0, <1>11 DEF ClearPending
<1>12. CASE CommitFire(e)
  <2>1. eval[e].outcome \in Outcomes BY <1>a, <1>12 DEF CommitFire, Firing
  <2>2. [tone |-> ToneOf(e), outcome |-> eval[e].outcome, by |-> e, attempt |-> eval[e].attempt]
          \in AuditType
    BY <1>0, <2>1 DEF AuditType
  <2> DEFINE status == IF ToneOf(e) = 3 THEN "COMPLETED" ELSE "ACTIVE"
  <2>3. status \in Statuses /\ ToneOf(e) \in 1 .. 3 /\ eval[e].next \in {0, 2, 3}
    BY <1>0 DEF Statuses, Tones
  <2>4. \/ UNCHANGED metadata
        \/ metadata' = [metadata EXCEPT !.current = ToneOf(e), !.next = eval[e].next,
                                        !.status = status]
    BY <1>12 DEF CommitFire
  <2> HIDE DEF status
  <2>5. metadata' \in MetadataType
    BY <1>0, <2>3, <2>4
  <2> QED BY <1>0, <1>12, <2>2, <2>5 DEF CommitFire, WriteGuard
<1>13. CASE CommitFireGuard(e)
  <2>1. eval[e].outcome \in Outcomes BY <1>a, <1>13 DEF CommitFireGuard, Firing
  <2>2. [tone |-> ToneOf(e), outcome |-> eval[e].outcome, by |-> e, attempt |-> eval[e].attempt]
          \in AuditType
    BY <1>0, <2>1 DEF AuditType
  <2> QED BY <1>0, <1>13, <2>2 DEF CommitFireGuard, WriteGuard
<1>14. CASE CommitSkip(e)
  <2>1. eval[e].outcome \in Outcomes BY <1>a, <1>14 DEF CommitSkip, Skipping
  <2>2. [tone |-> ToneOf(e), outcome |-> eval[e].outcome, by |-> e, attempt |-> eval[e].attempt]
          \in AuditType
    BY <1>0, <2>1 DEF AuditType
  <2> QED BY <1>0, <1>14, <2>2 DEF CommitSkip, WriteGuard
<1>15. CASE CommitSkipGuard(e)
  <2>1. eval[e].outcome \in Outcomes BY <1>a, <1>15 DEF CommitSkipGuard, Skipping
  <2>2. [tone |-> ToneOf(e), outcome |-> eval[e].outcome, by |-> e, attempt |-> eval[e].attempt]
          \in AuditType
    BY <1>0, <2>1 DEF AuditType
  <2> QED BY <1>0, <1>15, <2>2 DEF CommitSkipGuard, WriteGuard
<1>16. CASE MarkMutualAidPending(e) BY <1>0, <1>16 DEF MarkMutualAidPending
<1>17. CASE Return(e) BY <1>0, <1>17 DEF Return
<1> QED
  BY <1>1, <1>2, <1>3, <1>4, <1>5, <1>6, <1>7, <1>8, <1>9, <1>10, <1>11, <1>12, <1>13, <1>14,
     <1>15, <1>16, <1>17 DEF Step

\* Every other step keeps the items typed.
LEMMA OtherItems ==
  ASSUME TypeOK, Next, ~\E e \in Evals : Step(e)
  PROVE  Items'
<1> USE DEF Items, MetadataType, ladder, sends, roster
<1>0. Items BY DEF TypeOK
<1>1. CASE RecordToneTimes BY <1>0, <1>1 DEF RecordToneTimes
<1>2. ASSUME NEW m \in Members, Answer(m) PROVE Items' BY <1>0, <1>2, LadderConstants DEF Answer
<1>3. ASSUME NEW e \in Evals, Deliver(e) \/ Advance(e) \/ Throw(e) PROVE Items'
  BY <1>0, <1>3 DEF Deliver, Advance, Throw
<1>4. ASSUME NEW h \in Halts, HaltRead(h) PROVE Items'
  <2>1. CASE halt' = [halt EXCEPT ![h].pc = "done"] BY <1>0, <1>4, <2>1 DEF HaltRead, HaltType
  <2>2. CASE /\ halt[h].reads # MaxHaltReads
             /\ halt' = [halt EXCEPT ![h].pc = "find", ![h].current = metadata.current,
                                     ![h].reads = @ + 1]
    <3>1. halt[h].reads + 1 \in 0 .. MaxHaltReads BY <1>0, <2>2, LadderConstants DEF HaltType
    <3> QED BY <1>0, <1>4, <2>2, <3>1 DEF HaltRead, HaltType
  <2> QED BY <1>4, <2>1, <2>2 DEF HaltRead
<1>5. ASSUME NEW h \in Halts, FindSuppressedTone(h) PROVE Items'
  <2> DEFINE open == {t \in Tones : t > halt[h].current /\ guard[t] = "none"}
             tone == IF 2 \in open THEN 2 ELSE IF 3 \in open THEN 3 ELSE 0
  <2>1. tone \in {0, 2, 3} OBVIOUS
  <2>2. halt' = [halt EXCEPT ![h].pc = "commit", ![h].tone = tone]
    BY <1>5 DEF FindSuppressedTone
  <2> HIDE DEF tone
  <2>3. halt' \in [Halts -> HaltType]
    <3>1. halt \in [Halts -> HaltType] BY <1>0
    <3>2. [halt[h] EXCEPT !.pc = "commit", !.tone = tone] \in HaltType
      BY <2>1, <3>1 DEF HaltType
    <3> QED BY <2>2, <3>1, <3>2
  <2>4. UNCHANGED <<ladder, sends, roster, trigger>> BY <1>5 DEF FindSuppressedTone
  <2> QED BY <1>0, <2>3, <2>4
<1>6. ASSUME NEW h \in Halts, AttemptHalt(h) PROVE Items'
  <2>1. halt' \in [Halts -> HaltType]
    <3>1. \/ halt' = [halt EXCEPT ![h].pc = "halted"]
          \/ halt' = [halt EXCEPT ![h].pc = "retry"]
      BY <1>6 DEF AttemptHalt
    <3> QED BY <1>0, <3>1 DEF HaltType
  <2>2. halt[h].tone # 0 => [tone |-> halt[h].tone, outcome |-> "SKIPPED_MANUALLY_HALTED", by |-> h,
                             attempt |-> 0]
             \in AuditType
    BY <1>0, LadderConstants DEF Tones, Outcomes, HaltType, AuditType
  <2>3. audit' \subseteq AuditType
    BY <1>0, <1>6, <2>2 DEF AttemptHalt
  <2>4. metadata' \in MetadataType
    <3>1. "HALTED_MANUAL" \in Statuses BY DEF Statuses
    <3>2. \/ UNCHANGED metadata
          \/ metadata' = [metadata EXCEPT !.status = "HALTED_MANUAL", !.next = 0]
      BY <1>6 DEF AttemptHalt
    <3> QED BY <1>0, <3>1, <3>2
  <2>5. UNCHANGED <<guard, pending, marker, sends, roster, trigger>>
    BY <1>6 DEF AttemptHalt
  <2> QED BY <1>0, <2>1, <2>3, <2>4, <2>5
<1>7. ASSUME NEW r \in Triggers, TriggerMutualAid(r) \/ PromptForTrigger(r) PROVE Items'
  BY <1>0, <1>7 DEF TriggerMutualAid, PromptForTrigger, PromptOfficers
<1> QED BY <1>1, <1>2, <1>3, <1>4, <1>5, <1>6, <1>7 DEF Next, HaltStep

\* Every step keeps the types.
LEMMA NextTyped ==
  ASSUME TypeOK, EvalInv, [Next]_vars
  PROVE  TypeOK'
<1>1. EvalTyped'
  <2>0. EvalTyped BY DEF TypeOK, EvalTyped
  <2>1. CASE UNCHANGED eval BY <2>0, <2>1 DEF EvalTyped
  <2>2. ASSUME NEW e \in Evals, Deliver(e) \/ Advance(e) \/ Step(e) \/ Throw(e)
        PROVE  EvalTyped'
    BY <2>0, <2>2, EvalStepTyped, AdvanceTyped
  <2>3. CASE Next /\ ~\E e \in Evals : Deliver(e) \/ Advance(e) \/ Step(e) \/ Throw(e)
    <3>1. UNCHANGED eval
      BY <2>3 DEF Next, HaltStep, RecordToneTimes, Answer, HaltRead, FindSuppressedTone, AttemptHalt,
           TriggerMutualAid, PromptForTrigger
    <3> QED BY <2>1, <3>1
  <2> QED BY <2>1, <2>2, <2>3 DEF vars
<1>2. Items'
  <2>1. ASSUME NEW e \in Evals, Step(e) PROVE Items' BY <2>1, StepItems DEF EvalInv, LocalInv
  <2>2. CASE UNCHANGED vars
    BY <2>2 DEF vars, ladder, sends, roster, Items, TypeOK
  <2> QED BY <2>1, <2>2, OtherItems
<1> QED BY <1>1, <1>2 DEF TypeOK, EvalTyped, Items
-----------------------------------------------------------------------------
(* What a step leaves in the record of the invocation that takes it.       *)

\* A throw leaves a fresh attempt or a failure, which remembers nothing.
LEMMA FailIs ==
  ASSUME TypeOK, NEW e \in Evals, Fail(e)
  PROVE  /\ eval'[e].pc \in {"metadata", "failed"} /\ eval'[e].tone = eval[e].tone
         /\ ~eval'[e].aidFailed /\ ~eval'[e].rerun /\ eval'[e].outcome = "none"
         /\ \A f \in Evals \ {e} : eval'[f] = eval[f]
BY DEF TypeOK, Fail, Failed, IdleEval, ToneOf

\* Returning leaves the outcome and forgets the rest.
LEMMA FinishIs ==
  ASSUME TypeOK, NEW e \in Evals, NEW o, Finish(e, o)
  PROVE  /\ eval'[e].pc = "done" /\ eval'[e].tone = eval[e].tone
         /\ ~eval'[e].aidFailed /\ ~eval'[e].rerun /\ eval'[e].outcome = o
         /\ \A f \in Evals \ {e} : eval'[f] = eval[f]
BY DEF TypeOK, Finish, IdleEval, ToneOf

\* Going on changes nothing but the next call.
LEMMA GotoIs ==
  ASSUME TypeOK, NEW e \in Evals, NEW pc, Goto(e, pc)
  PROVE  /\ eval'[e].pc = pc /\ eval'[e].tone = eval[e].tone
         /\ eval'[e].aidFailed = eval[e].aidFailed /\ eval'[e].rerun = eval[e].rerun
         /\ eval'[e].outcome = eval[e].outcome /\ eval'[e].next = eval[e].next
         /\ eval'[e].todo = eval[e].todo /\ eval'[e].pageFailed = eval[e].pageFailed
         /\ \A f \in Evals \ {e} : eval'[f] = eval[f]
BY DEF TypeOK, Goto, EvalType

\* Paging a member keeps what the invocation knows: whom it has not tried yet, and that
\* everybody else is marked unless it saw a failure.
LEMMA PageMemberIs ==
  ASSUME TypeOK, NEW e \in Evals, LocalInv(e), NEW m \in Members, PageMember(e, m)
  PROVE  LocalInv(e)'
<1>1. PICK marked \in BOOLEAN, failed \in BOOLEAN :
        /\ ~marked /\ m \notin pages[ToneOf(e)] => failed
        /\ pages' = IF marked THEN [pages EXCEPT ![ToneOf(e)] = @ \cup {m}] ELSE pages
        /\ eval' = [eval EXCEPT ![e].todo = @ \ {m}, ![e].pageFailed = @ \/ failed]
  BY DEF PageMember
<1>2. /\ eval'[e].todo = eval[e].todo \ {m} /\ eval'[e].pageFailed = (eval[e].pageFailed \/ failed)
      /\ eval'[e].pc = "page" /\ eval'[e].tone = eval[e].tone /\ eval'[e].next = eval[e].next
      /\ eval'[e].outcome = eval[e].outcome /\ eval'[e].rerun = eval[e].rerun
      /\ eval'[e].aidFailed = eval[e].aidFailed
  <2>1. (eval[e].pageFailed \/ failed) \in BOOLEAN OBVIOUS
  <2> QED BY <1>1, <2>1 DEF PageMember, TypeOK, EvalType
<1>3. ~eval'[e].pageFailed => Members \ eval'[e].todo \subseteq pages'[ToneOf(e)]
  <2>1. eval[e].pc = "page" /\ ToneOf(e) \in Tones BY DEF PageMember, TypeOK, EvalType, ToneOf
  <2>2. pages[ToneOf(e)] \subseteq pages'[ToneOf(e)] BY <1>1, <2>1 DEF TypeOK
  <2>3. ~eval'[e].pageFailed => m \in pages'[ToneOf(e)] BY <1>1, <1>2, <2>1 DEF TypeOK
  <2> QED BY <1>2, <2>1, <2>2, <2>3 DEF LocalInv, Paged
<1> QED BY <1>2, <1>3 DEF LocalInv, Decided, Carries, Paged, Told, Skipping, Firing, Manual, ToneOf, PageMember

\* A page marked sent stays marked.
LEMMA PagesGrow ==
  ASSUME TypeOK, [Next]_vars, NEW t \in Tones
  PROVE  pages[t] \subseteq pages'[t]
<1>1. CASE UNCHANGED pages BY <1>1
<1>2. ASSUME NEW e \in Evals, NEW m \in Members, PageMember(e, m)
      PROVE  pages[t] \subseteq pages'[t]
  BY <1>2 DEF PageMember, TypeOK
<1>3. CASE \/ UNCHANGED vars
           \/ Next /\ ~\E e \in Evals, m \in Members : PageMember(e, m)
  BY <1>1, <1>3 DEF vars, sends, Next, RecordToneTimes, Answer, Deliver, Advance, Step, Throw, ReadMetadata,
     ReadGuard, ReadMarker, ReadRoster, ReadTone3Guard, WriteFiringMarker, PagesSettled,
     RequestMutualAid, PromptForTone, ClearPending, CommitFire, CommitFireGuard, CommitSkip,
     CommitSkipGuard, MarkMutualAidPending, Return, HaltStep, HaltRead, FindSuppressedTone,
     AttemptHalt, TriggerMutualAid, PromptForTrigger
<1> QED BY <1>2, <1>3

\* After a mutual-aid request the invocation goes on to commit only with every page out.
LEMMA AidSettledIs ==
  ASSUME TypeOK, NEW e \in Evals, LocalInv(e), NEW failed \in BOOLEAN,
         eval[e].pc \in {"aid", "prompt"}, UNCHANGED pages, AidSettled(e, failed)
  PROVE  LocalInv(e)'
<1> USE DEF LocalInv, Decided, Carries, Paged, Told, Skipping, Firing, Manual, ToneOf, AllPaged
<1>1. CASE Fail(e) BY <1>1, FailIs
<1>2. CASE eval[e].rerun /\ Goto(e, "clear") BY <1>2, GotoIs
<1>3. CASE /\ ~eval[e].rerun /\ ~eval[e].pageFailed
           /\ eval' = [eval EXCEPT ![e].pc = "commit", ![e].aidFailed = failed]
  <2>1. /\ eval'[e].pc = "commit" /\ eval'[e].rerun = eval[e].rerun
        /\ eval'[e].tone = eval[e].tone /\ eval'[e].next = eval[e].next
        /\ eval'[e].outcome = eval[e].outcome
    BY <1>3 DEF TypeOK, EvalType
  <2> QED BY <1>3, <2>1 DEF FireOutcomes
<1> QED BY <1>1, <1>2, <1>3 DEF AidSettled

\* A refused commit keeps what the invocation knows.
LEMMA AlreadyExistsIs ==
  ASSUME TypeOK, NEW e \in Evals, LocalInv(e), Skipping(e) \/ Firing(e),
         eval[e].pc \notin {"mark", "page", "aid", "prompt"}, UNCHANGED pages, AlreadyExists(e)
  PROVE  LocalInv(e)'
<1> USE DEF LocalInv, Decided, Carries, Paged, Told, Skipping, Firing, Manual, ToneOf, AllPaged
<1>1. CASE eval[e].aidFailed BY <1>1, GotoIs DEF AlreadyExists
<1>2. CASE ~eval[e].aidFailed
  <2>1. /\ eval'[e].pc = "return" /\ eval'[e].rerun = eval[e].rerun
        /\ eval'[e].tone = eval[e].tone /\ eval'[e].aidFailed = eval[e].aidFailed
    BY <1>2 DEF TypeOK, EvalType, AlreadyExists
  <2> QED BY <1>2, <2>1
<1> QED BY <1>1, <1>2

\* A commit keeps what the invocation knows.
LEMMA CommittedIs ==
  ASSUME TypeOK, NEW e \in Evals, LocalInv(e), eval[e].pc \in {"commit", "commitGuard"},
         UNCHANGED pages, Committed(e)
  PROVE  LocalInv(e)'
<1> USE DEF LocalInv, Decided, Carries, Paged, Told, Skipping, Firing, Manual, ToneOf, AllPaged
<1>1. CASE Fail(e) BY <1>1, FailIs
<1>2. CASE ~eval[e].aidFailed /\ Goto(e, "return") BY <1>2, GotoIs
<1> QED BY <1>1, <1>2 DEF Committed

\* Every step of an invocation keeps what is known of that invocation.
LEMMA LocalStep ==
  ASSUME TypeOK, ItemsPaged, NEW e \in Evals, LocalInv(e),
         Step(e) \/ Deliver(e) \/ Advance(e) \/ Throw(e)
  PROVE  LocalInv(e)'
<1> USE DEF LocalInv, Decided, Carries, Paged, Told, Skipping, Firing, Manual, ToneOf, AllPaged,
            sends
<1>1. CASE ReadMetadata(e)
  <2>1. CASE Finish(e, "SKIPPED_MANUALLY_HALTED") BY <2>1, FinishIs
  <2>2. CASE ~Finish(e, "SKIPPED_MANUALLY_HALTED")
    BY <1>1, <2>2 DEF ReadMetadata, TypeOK, EvalType
  <2> QED BY <2>1, <2>2
<1>2. CASE ReadGuard(e)
  <2>0. ToneOf(e) \in Tones BY DEF TypeOK, EvalType
  <2>1. CASE RePrompts(e)
    BY <1>2, <2>0, <2>1 DEF ReadGuard, RePrompts, ItemsPaged, TypeOK, EvalType
  <2>2. CASE Finish(e, "SKIPPED_COMPLETED") BY <2>2, FinishIs
  <2>3. CASE AlreadyEvaluated(e) /\ Finish(e, "SKIPPED_ALREADY_FIRED")
    BY <1>2, <2>0, <2>3, FinishIs DEF ReadGuard, AlreadyEvaluated, ItemsPaged
  <2>4. CASE Goto(e, "marker") BY <1>2, <2>4, GotoIs DEF ReadGuard
  <2> QED BY <1>2, <2>1, <2>2, <2>3, <2>4 DEF ReadGuard
<1>3. CASE ReadMarker(e) BY <1>3 DEF ReadMarker, TypeOK, EvalType
<1>4. CASE ReadRoster(e)
  <2>1. /\ eval'[e].pc \in {"tone3", "skip", "page", "mark"}
        /\ eval'[e].pc = "tone3" <=> ToneOf(e) = 2
        /\ eval'[e].outcome = IF Manual(e) THEN "FIRED_MANUAL_OVERRIDE"
                              ELSE IF ~eval[e].resuming /\ IsPredicateMet
                              THEN "SKIPPED_PREDICATE_MET" ELSE "FIRED"
        /\ eval'[e].pc = "skip" <=>
              ToneOf(e) # 2 /\ ~eval[e].resuming /\ IsPredicateMet /\ ~Manual(e)
        /\ eval'[e].next = IF ToneOf(e) = 2 THEN eval[e].next ELSE 0
        /\ eval'[e].todo = Members /\ eval'[e].tone = eval[e].tone
        /\ eval'[e].rerun = eval[e].rerun /\ eval'[e].aidFailed = eval[e].aidFailed
    BY <1>4 DEF ReadRoster, TypeOK, EvalType
  <2>2. Decided(e)' BY <2>1 DEF FireOutcomes
  <2>3. eval[e].pc = "roster" /\ UNCHANGED pages BY <1>4 DEF ReadRoster
  <2>4. Carries(e)' BY <2>1, <2>3
  <2>5. Paged(e)' BY <2>1, <2>3
  <2>6. Told(e)' BY <2>1
  <2> QED BY <2>2, <2>4, <2>5, <2>6
<1>5. CASE ReadTone3Guard(e) BY <1>5 DEF ReadTone3Guard, TypeOK, EvalType, FireOutcomes
<1>6. CASE WriteFiringMarker(e) BY <1>6, GotoIs DEF WriteFiringMarker
<1>7. ASSUME NEW m \in Members, PageMember(e, m) PROVE LocalInv(e)' BY <1>7, PageMemberIs
<1>8. CASE PagesSettled(e)
  <2>1. CASE Fail(e) BY <2>1, FailIs
  <2>2. CASE Goto(e, "aid") BY <1>8, <2>2, GotoIs DEF PagesSettled
  <2>3. CASE ~eval[e].pageFailed /\ Goto(e, "commit") BY <1>8, <2>3, GotoIs DEF PagesSettled
  <2> QED BY <1>8, <2>1, <2>2, <2>3 DEF PagesSettled
<1>9. CASE RequestMutualAid(e)
  <2>1. CASE Goto(e, "prompt") BY <1>9, <2>1, GotoIs DEF RequestMutualAid
  <2>2. ASSUME NEW failed \in BOOLEAN, AidSettled(e, failed) PROVE LocalInv(e)'
    BY <1>9, <2>2, AidSettledIs DEF RequestMutualAid
  <2> QED BY <1>9, <2>1, <2>2 DEF RequestMutualAid
<1>10. CASE PromptForTone(e)
  <2>1. PICK failed \in BOOLEAN : AidSettled(e, failed)
    BY <1>10 DEF PromptForTone
  <2> QED BY <1>10, <2>1, AidSettledIs DEF PromptForTone
<1>11. CASE ClearPending(e) BY <1>11 DEF ClearPending, TypeOK, EvalType
<1>12. CASE CommitFire(e)
  BY <1>12, CommittedIs, AlreadyExistsIs, GotoIs DEF CommitFire
<1>13. CASE CommitFireGuard(e)
  BY <1>13, CommittedIs, AlreadyExistsIs DEF CommitFireGuard
<1>14. CASE CommitSkip(e)
  BY <1>14, AlreadyExistsIs, GotoIs DEF CommitSkip
<1>15. CASE CommitSkipGuard(e)
  BY <1>15, AlreadyExistsIs, GotoIs DEF CommitSkipGuard
<1>16. CASE MarkMutualAidPending(e) BY <1>16, FailIs DEF MarkMutualAidPending
<1>17. CASE Return(e) BY <1>17, FinishIs DEF Return
<1>18. CASE Deliver(e) BY <1>18 DEF Deliver, TypeOK, EvalType
<1>19. CASE Advance(e) BY <1>19 DEF Advance, TypeOK, EvalType
<1>20. CASE Throw(e) BY <1>20, FailIs DEF Throw
<1> QED
  BY <1>1, <1>2, <1>3, <1>4, <1>5, <1>6, <1>7, <1>8, <1>9, <1>10, <1>11, <1>12, <1>13, <1>14,
     <1>15, <1>16, <1>17, <1>18, <1>19, <1>20 DEF Step
\* The steps no invocation takes.
Outside ==
    \/ RecordToneTimes \/ \E m \in Members : Answer(m)
    \/ \E h \in Halts : HaltStep(h)
    \/ \E r \in Triggers : TriggerMutualAid(r) \/ PromptForTrigger(r)

\* Steps outside the evaluator leave guards, markers, pages and invocations alone.
LEMMA OutsideLeaves ==
  ASSUME Outside
  PROVE  UNCHANGED <<guard, pending, marker, pages, eval>>
BY DEF Outside, sends, roster, ladder, RecordToneTimes, Answer, HaltStep, HaltRead, FindSuppressedTone,
       AttemptHalt, TriggerMutualAid, PromptForTrigger

\* A step of one invocation leaves the others alone.
LEMMA OneMoves ==
  ASSUME TypeOK, NEW e \in Evals, Step(e) \/ Deliver(e) \/ Advance(e) \/ Throw(e)
  PROVE  \A f \in Evals \ {e} : eval'[f] = eval[f]
<1> USE DEF TypeOK, Finish, Goto, Fail, AidSettled, Committed, AlreadyExists
<1>1. CASE Step(e)
  BY <1>1 DEF Step, ReadMetadata, ReadGuard, ReadMarker, ReadRoster, ReadTone3Guard,
     WriteFiringMarker, PageMember, PagesSettled, RequestMutualAid, PromptForTone, ClearPending,
     CommitFire, CommitFireGuard, CommitSkip, CommitSkipGuard, MarkMutualAidPending, Return
<1>2. CASE Deliver(e) \/ Advance(e) \/ Throw(e)
  BY <1>2 DEF Deliver, Advance, Throw
<1> QED BY <1>1, <1>2

\* Every step is one of an invocation, one outside the evaluator, or none.
LEMMA NextCases ==
  ASSUME [Next]_vars
  PROVE  \/ UNCHANGED vars \/ Outside
         \/ \E e \in Evals : Step(e) \/ Deliver(e) \/ Advance(e) \/ Throw(e)
BY DEF Next, Outside

\* What an invocation knows stays true while it waits and pages are only added.
LEMMA LocalStable ==
  ASSUME TypeOK, NEW e \in Evals, LocalInv(e), eval'[e] = eval[e],
         \A t \in Tones : pages[t] \subseteq pages'[t]
  PROVE  LocalInv(e)'
<1>1. ToneOf(e) \in Tones BY DEF TypeOK, EvalType, ToneOf
<1>2. pages[ToneOf(e)] \subseteq pages'[ToneOf(e)] /\ ToneOf(e)' = ToneOf(e)
  BY <1>1 DEF ToneOf
<1>3. Decided(e)' /\ Carries(e)' BY DEF LocalInv, Decided, Carries, Skipping, Firing, Manual
<1>4. Paged(e)' BY <1>2 DEF LocalInv, Paged, AllPaged
<1>5. Told(e)' BY <1>2 DEF LocalInv, Told, AllPaged, Manual
<1> QED BY <1>3, <1>4, <1>5 DEF LocalInv

\* Every step keeps what is known of all invocations.
LEMMA EvalInvStep ==
  ASSUME TypeOK, EvalInv, ItemsPaged, [Next]_vars
  PROVE  EvalInv'
<1>1. \A t \in Tones : pages[t] \subseteq pages'[t] BY PagesGrow
<1>2. CASE UNCHANGED vars \/ Outside
  <2>1. UNCHANGED eval BY <1>2, OutsideLeaves DEF vars
  <2> QED BY <1>1, <2>1, LocalStable DEF EvalInv
<1>3. ASSUME NEW e \in Evals, Step(e) \/ Deliver(e) \/ Advance(e) \/ Throw(e)
      PROVE  EvalInv'
  <2>1. LocalInv(e)' BY <1>3, LocalStep DEF EvalInv
  <2>2. ASSUME NEW f \in Evals \ {e} PROVE LocalInv(f)'
    BY <1>1, <1>3, OneMoves, LocalStable DEF EvalInv
  <2> QED BY <2>1, <2>2 DEF EvalInv
<1> QED BY <1>2, <1>3, NextCases

\* A fire guard, or pending prompts, are written only for a tone paged to everybody.
LEMMA ItemsPagedStep ==
  ASSUME TypeOK, EvalInv, ItemsPaged, [Next]_vars
  PROVE  ItemsPaged'
<1>1. \A t \in Tones : pages[t] \subseteq pages'[t] BY PagesGrow
<1>2. CASE UNCHANGED <<guard, pending>>
  BY <1>1, <1>2 DEF ItemsPaged, AllPaged
<1>3. ASSUME NEW e \in Evals, Step(e), ~UNCHANGED <<guard, pending>>
      PROVE  ItemsPaged'
  <2>1. ToneOf(e) \in Tones BY DEF TypeOK, EvalType, ToneOf
  <2>2. /\ LocalInv(e)
    BY DEF EvalInv
  <2>3. CASE ClearPending(e)
    BY <1>1, <2>1, <2>3 DEF ClearPending, ItemsPaged, AllPaged, TypeOK
  <2>4. CASE MarkMutualAidPending(e)
    BY <1>1, <2>1, <2>2, <2>4 DEF MarkMutualAidPending, ItemsPaged, AllPaged, TypeOK, LocalInv, Paged
  <2>5. CASE CommitFire(e) \/ CommitFireGuard(e)
    <3>1. AllPaged(ToneOf(e)) BY <2>2, <2>5 DEF CommitFire, CommitFireGuard, LocalInv, Paged
    <3>2. WriteGuard(e, "fired") BY <1>3, <2>5 DEF CommitFire, CommitFireGuard
    <3> QED BY <1>1, <2>1, <3>1, <3>2 DEF WriteGuard, ItemsPaged, AllPaged, TypeOK
  <2>6. CASE CommitSkip(e) \/ CommitSkipGuard(e)
    <3>1. ~eval[e].aidFailed
      BY <2>2, <2>6 DEF CommitSkip, CommitSkipGuard, LocalInv, Carries
    <3>2. WriteGuard(e, "skipped") BY <1>3, <2>6 DEF CommitSkip, CommitSkipGuard
    <3> QED BY <1>1, <2>1, <3>1, <3>2 DEF WriteGuard, ItemsPaged, AllPaged, TypeOK
  <2> QED BY <1>3, <2>3, <2>4, <2>5, <2>6
       DEF Step, ReadMetadata, ReadGuard, ReadMarker, ReadRoster, ReadTone3Guard,
           WriteFiringMarker, PageMember, PagesSettled, RequestMutualAid, PromptForTone, Return,
           ladder
<1>4. ASSUME NEW e \in Evals, Deliver(e) \/ Advance(e) \/ Throw(e)
      PROVE  UNCHANGED <<guard, pending>>
  BY <1>4 DEF Deliver, Advance, Throw, ladder
<1> QED BY <1>2, <1>3, <1>4, NextCases, OutsideLeaves DEF vars, ladder
-----------------------------------------------------------------------------
(* The steps that move the ladder.                                         *)

\* The only steps that touch METADATA, the guards or the audit.
LEMMA LadderCases ==
  ASSUME [Next]_vars
  PROVE  \/ UNCHANGED <<metadata, guard, audit>>
         \/ RecordToneTimes
         \/ \E e \in Evals : CommitFire(e) \/ CommitFireGuard(e) \/ CommitSkip(e) \/ CommitSkipGuard(e)
         \/ \E h \in Halts : AttemptHalt(h)
<1>1. CASE UNCHANGED vars BY <1>1 DEF vars, ladder
<1>2. ASSUME NEW e \in Evals, Step(e)
      PROVE  \/ UNCHANGED <<metadata, guard, audit>>
             \/ CommitFire(e) \/ CommitFireGuard(e) \/ CommitSkip(e) \/ CommitSkipGuard(e)
  BY <1>2 DEF Step, ReadMetadata, ReadGuard, ReadMarker, ReadRoster, ReadTone3Guard,
     WriteFiringMarker, PageMember, PagesSettled, RequestMutualAid, PromptForTone, ClearPending,
     MarkMutualAidPending, Return, ladder
<1>3. ASSUME NEW e \in Evals, Deliver(e) \/ Advance(e) \/ Throw(e)
      PROVE  UNCHANGED <<metadata, guard, audit>>
  BY <1>3 DEF Deliver, Advance, Throw, ladder
<1>4. CASE Outside
  BY <1>4 DEF Outside, HaltStep, Answer, HaltRead, FindSuppressedTone, TriggerMutualAid,
     PromptForTrigger, ladder
<1> QED BY <1>1, <1>2, <1>3, <1>4, NextCases

\* A guard once fired stays fired, and a committed fire finds it not fired.
LEMMA CommitFireIs ==
  ASSUME TypeOK, NEW e \in Evals, CommitFire(e) \/ CommitFireGuard(e)
  PROVE  \/ UNCHANGED <<metadata, guard, audit>>
         \/ /\ guard[ToneOf(e)] # "fired"
            /\ guard' = [guard EXCEPT ![ToneOf(e)] = "fired"]
            /\ audit' = audit \cup {[tone |-> ToneOf(e), outcome |-> eval[e].outcome, by |-> e,
                                   attempt |-> eval[e].attempt]}
            /\ \/ /\ CommitFire(e) /\ metadata.current < ToneOf(e) /\ metadata.status = "ACTIVE"
                  /\ metadata'.current = ToneOf(e) /\ metadata'.next = eval[e].next
                  /\ metadata'.status = IF ToneOf(e) = 3 THEN "COMPLETED" ELSE "ACTIVE"
               \/ eval[e].pc = "commitGuard" /\ UNCHANGED metadata
BY DEF CommitFire, CommitFireGuard, UpgradeFree, GuardFree, FireAdvances, WriteGuard, TypeOK,
       MetadataType

\* A committed skip finds no guard and moves neither the current tone nor the status.
LEMMA CommitSkipIs ==
  ASSUME TypeOK, LadderAgreesWithGuards, NEW e \in Evals, CommitSkip(e) \/ CommitSkipGuard(e)
  PROVE  \/ UNCHANGED <<metadata, guard, audit>>
         \/ /\ guard[ToneOf(e)] = "none"
            /\ guard' = [guard EXCEPT ![ToneOf(e)] = "skipped"]
            /\ audit' = audit \cup {[tone |-> ToneOf(e), outcome |-> eval[e].outcome, by |-> e,
                                   attempt |-> eval[e].attempt]}
            /\ metadata'.current = metadata.current /\ metadata'.status = metadata.status
            /\ metadata' = metadata \/ metadata.status = "ACTIVE"
BY DEF CommitSkip, CommitSkipGuard, GuardFree, WriteGuard, TypeOK, MetadataType

\* A committed halt ends an active ladder where it stands.
LEMMA AttemptHaltIs ==
  ASSUME TypeOK, NEW h \in Halts, AttemptHalt(h)
  PROVE  /\ UNCHANGED guard
         /\ \/ UNCHANGED <<metadata, audit>>
            \/ /\ metadata.status = "ACTIVE" /\ metadata'.status = "HALTED_MANUAL"
               /\ metadata'.current = metadata.current /\ metadata'.next = 0
               /\ \A a \in audit' \ audit : a.outcome = "SKIPPED_MANUALLY_HALTED"
<1>1. CASE UNCHANGED <<metadata, audit>> BY <1>1 DEF AttemptHalt
<1>2. CASE /\ metadata.status = "ACTIVE"
           /\ metadata' = [metadata EXCEPT !.status = "HALTED_MANUAL", !.next = 0]
           /\ audit' = IF halt[h].tone = 0 THEN audit
                       ELSE audit \cup {[tone |-> halt[h].tone,
                                         outcome |-> "SKIPPED_MANUALLY_HALTED", by |-> h,
                                         attempt |-> 0]}
  <2>1. \A a \in audit' \ audit : a.outcome = "SKIPPED_MANUALLY_HALTED" BY <1>2
  <2> QED BY <1>2, <2>1 DEF AttemptHalt, TypeOK, MetadataType
<1> QED BY <1>1, <1>2 DEF AttemptHalt

\* Every step keeps METADATA in agreement with the guards.
LEMMA LadderAgreesStep ==
  ASSUME TypeOK, LadderAgreesWithGuards, Refused, [Next]_vars
  PROVE  LadderAgreesWithGuards'
<1> USE DEF LadderAgreesWithGuards
<1>0. /\ metadata.current \in 1 .. 3 /\ guard \in [Tones -> {"none", "skipped", "fired"}]
      /\ \A e \in Evals : ToneOf(e) \in Tones
  BY DEF TypeOK, MetadataType, EvalType, ToneOf
<1>1. CASE UNCHANGED <<metadata, guard, audit>> BY <1>1
<1>2. CASE RecordToneTimes BY <1>2 DEF RecordToneTimes, TypeOK, MetadataType
<1>3. ASSUME NEW e \in Evals, CommitFire(e) \/ CommitFireGuard(e) PROVE LadderAgreesWithGuards'
  BY <1>0, <1>1, <1>3, CommitFireIs DEF Refused, Tones, ToneOf
<1>4. ASSUME NEW e \in Evals, CommitSkip(e) \/ CommitSkipGuard(e) PROVE LadderAgreesWithGuards'
  BY <1>0, <1>1, <1>4, CommitSkipIs DEF Tones, ToneOf
<1>5. ASSUME NEW h \in Halts, AttemptHalt(h) PROVE LadderAgreesWithGuards'
  BY <1>0, <1>5, AttemptHaltIs
<1> QED BY <1>1, <1>2, <1>3, <1>4, <1>5, LadderCases

\* The second transaction, without METADATA, is tried only after METADATA's condition
\* refused the first.
LEMMA CommitGuardEntered ==
  ASSUME TypeOK, NEW e \in Evals, Step(e) \/ Deliver(e) \/ Advance(e) \/ Throw(e),
         eval'[e].pc = "commitGuard"
  PROVE  CommitFire(e) /\ UNCHANGED metadata /\ ~FireAdvances(e) /\ eval'[e].tone = eval[e].tone
<1>0. /\ Fail(e) => eval'[e].pc # "commitGuard"
      /\ \A o \in Outcomes \cup {"none"} : Finish(e, o) => eval'[e].pc # "commitGuard"
      /\ \A pc \in Calls : Goto(e, pc) => eval'[e].pc = pc /\ eval'[e].tone = eval[e].tone
  BY FailIs, FinishIs, GotoIs
<1>1. AlreadyExists(e) \/ Committed(e) => eval'[e].pc # "commitGuard"
  BY <1>0 DEF AlreadyExists, Committed, TypeOK, EvalType, Calls
<1>2. ASSUME NEW failed \in BOOLEAN, AidSettled(e, failed) PROVE eval'[e].pc # "commitGuard"
  BY <1>0, <1>2 DEF AidSettled, TypeOK, EvalType, Calls
<1>3. ASSUME NEW m \in Members, PageMember(e, m) PROVE eval'[e].pc # "commitGuard"
  BY <1>3 DEF PageMember, TypeOK, EvalType
<1>4. CASE ReadMetadata(e) \/ ReadGuard(e)
  BY <1>0, <1>4 DEF ReadMetadata, ReadGuard, TypeOK, EvalType, Calls, Outcomes
<1>5. CASE ReadMarker(e) \/ ReadRoster(e) \/ ReadTone3Guard(e)
  BY <1>5 DEF ReadMarker, ReadRoster, ReadTone3Guard, TypeOK, EvalType
<1>6. CASE WriteFiringMarker(e) \/ PagesSettled(e) \/ MarkMutualAidPending(e) \/ Throw(e)
  BY <1>0, <1>6 DEF WriteFiringMarker, PagesSettled, MarkMutualAidPending, Throw, Calls
<1>7. CASE RequestMutualAid(e) \/ PromptForTone(e)
  <2>1. Goto(e, "prompt") \/ \E failed \in BOOLEAN : AidSettled(e, failed)
    BY <1>7 DEF RequestMutualAid, PromptForTone
  <2> QED BY <1>0, <1>2, <2>1 DEF Calls
<1>8. CASE ClearPending(e) \/ Deliver(e) \/ Advance(e)
  BY <1>8 DEF ClearPending, Deliver, Advance, TypeOK, EvalType
<1>9. CASE Return(e) BY <1>0, <1>9 DEF Return, TypeOK, EvalType
<1>10. CASE CommitFireGuard(e) \/ CommitSkip(e) \/ CommitSkipGuard(e)
  BY <1>0, <1>1, <1>10 DEF CommitFireGuard, CommitSkip, CommitSkipGuard, Calls
<1>11. CASE CommitFire(e)
  BY <1>0, <1>1, <1>11 DEF CommitFire, Calls
<1> QED BY <1>3, <1>4, <1>5, <1>6, <1>7, <1>8, <1>9, <1>10, <1>11 DEF Step

\* A ladder that refused an invocation has passed its tone, or was halted, and stays so.
LEMMA RefusedStep ==
  ASSUME TypeOK, LadderAgreesWithGuards, Refused, [Next]_vars
  PROVE  Refused'
<1>0. /\ metadata.current \in 1 .. 3 /\ metadata.status \in Statuses
      /\ \A e \in Evals : eval[e].tone \in Tones
  BY DEF TypeOK, MetadataType, EvalType
<1>1. metadata'.current \in Nat /\ metadata'.current >= metadata.current
  /\ (metadata.status = "HALTED_MANUAL" => metadata'.status = "HALTED_MANUAL")
  <2>1. CASE UNCHANGED <<metadata, guard, audit>> BY <1>0, <2>1
  <2>2. CASE RecordToneTimes BY <1>0, <2>2 DEF RecordToneTimes, TypeOK, MetadataType
  <2>3. ASSUME NEW e \in Evals, CommitFire(e) \/ CommitFireGuard(e)
        PROVE  metadata'.current \in Nat /\ metadata'.current >= metadata.current
          /\ (metadata.status = "HALTED_MANUAL" => metadata'.status = "HALTED_MANUAL")
    BY <1>0, <2>1, <2>3, CommitFireIs DEF Tones, ToneOf
  <2>4. ASSUME NEW e \in Evals, CommitSkip(e) \/ CommitSkipGuard(e)
        PROVE  metadata'.current \in Nat /\ metadata'.current >= metadata.current
          /\ (metadata.status = "HALTED_MANUAL" => metadata'.status = "HALTED_MANUAL")
    BY <1>0, <2>1, <2>4, CommitSkipIs
  <2>5. ASSUME NEW h \in Halts, AttemptHalt(h)
        PROVE  metadata'.current \in Nat /\ metadata'.current >= metadata.current
          /\ (metadata.status = "HALTED_MANUAL" => metadata'.status = "HALTED_MANUAL")
    BY <1>0, <2>5, AttemptHaltIs
  <2> QED BY <2>1, <2>2, <2>3, <2>4, <2>5, LadderCases
<1>2. ASSUME NEW e \in Evals, eval'[e].pc = "commitGuard", eval[e].pc = "commitGuard",
             eval'[e].tone = eval[e].tone
      PROVE  metadata'.current >= eval'[e].tone \/ metadata'.status = "HALTED_MANUAL"
  BY <1>0, <1>1, <1>2 DEF Refused, Tones
<1>3. ASSUME NEW e \in Evals, Step(e) \/ Deliver(e) \/ Advance(e) \/ Throw(e),
             eval'[e].pc = "commitGuard"
      PROVE  CommitFire(e) /\ UNCHANGED metadata /\ ~FireAdvances(e) /\ eval'[e].tone = eval[e].tone
  BY <1>3, CommitGuardEntered
<1>4. ASSUME NEW e \in Evals, CommitFire(e), UNCHANGED metadata, ~FireAdvances(e),
             eval'[e].tone = eval[e].tone
      PROVE  metadata'.current >= eval'[e].tone \/ metadata'.status = "HALTED_MANUAL"
  BY <1>0, <1>4 DEF FireAdvances, ToneOf, Tones, Statuses, LadderAgreesWithGuards
<1> QED BY <1>2, <1>3, <1>4, NextCases, OutsideLeaves, OneMoves DEF Refused, vars

\* A fired row is written with the guard that forbids a second one.
LEMMA RowsStep ==
  ASSUME TypeOK, EvalInv, LadderAgreesWithGuards, RowsHaveGuards, FiredOnce, [Next]_vars
  PROVE  RowsHaveGuards' /\ FiredOnce'
<1>0. /\ guard \in [Tones -> {"none", "skipped", "fired"}] /\ audit \subseteq AuditType
      /\ \A e \in Evals : ToneOf(e) \in Tones
  BY DEF TypeOK, EvalType, ToneOf
<1>1. CASE UNCHANGED <<metadata, guard, audit>>
  BY <1>1 DEF RowsHaveGuards, FiredOnce
<1>2. CASE RecordToneTimes
  BY <1>2 DEF RecordToneTimes, RowsHaveGuards, FiredOnce
<1>3. ASSUME NEW e \in Evals, CommitFire(e) \/ CommitFireGuard(e)
      PROVE  RowsHaveGuards' /\ FiredOnce'
  <2> DEFINE row == [tone |-> ToneOf(e), outcome |-> eval[e].outcome, by |-> e,
                     attempt |-> eval[e].attempt]
  <2>1. CASE ~UNCHANGED <<metadata, guard, audit>>
    <3>1. /\ guard[ToneOf(e)] # "fired" /\ guard' = [guard EXCEPT ![ToneOf(e)] = "fired"]
          /\ audit' = audit \cup {row}
      BY <1>3, <2>1, CommitFireIs
    <3>2. \A a \in audit : a.tone \in Tones /\ (a.outcome \in FireOutcomes => a.tone # ToneOf(e))
      BY <1>0, <3>1 DEF RowsHaveGuards, AuditType
    <3>3. row.tone = ToneOf(e) OBVIOUS
    <3> HIDE DEF row
    <3>4. RowsHaveGuards' BY <1>0, <3>1, <3>2, <3>3 DEF RowsHaveGuards
    <3>5. FiredOnce' BY <3>1, <3>2, <3>3 DEF FiredOnce
    <3> QED BY <3>4, <3>5
  <2> QED BY <1>1, <2>1
<1>4. ASSUME NEW e \in Evals, CommitSkip(e) \/ CommitSkipGuard(e)
      PROVE  RowsHaveGuards' /\ FiredOnce'
  <2> DEFINE row == [tone |-> ToneOf(e), outcome |-> eval[e].outcome, by |-> e,
                     attempt |-> eval[e].attempt]
  <2>1. CASE ~UNCHANGED <<metadata, guard, audit>>
    <3>1. /\ guard[ToneOf(e)] = "none" /\ guard' = [guard EXCEPT ![ToneOf(e)] = "skipped"]
          /\ audit' = audit \cup {row}
      BY <1>4, <2>1, CommitSkipIs
    <3>2. \A a \in audit : a.tone \in Tones BY <1>0 DEF AuditType
    <3>3. row.outcome \notin FireOutcomes
      BY <1>4 DEF CommitSkip, CommitSkipGuard, EvalInv, LocalInv, Decided, Skipping, FireOutcomes
    <3> HIDE DEF row
    <3>4. RowsHaveGuards' BY <1>0, <3>1, <3>2, <3>3 DEF RowsHaveGuards
    <3>5. FiredOnce' BY <3>1, <3>3 DEF FiredOnce
    <3> QED BY <3>4, <3>5
  <2> QED BY <1>1, <2>1
<1>5. ASSUME NEW h \in Halts, AttemptHalt(h) PROVE RowsHaveGuards' /\ FiredOnce'
  <2>1. UNCHANGED guard /\ \A a \in audit' \ audit : a.outcome \notin FireOutcomes
    BY <1>5, AttemptHaltIs DEF FireOutcomes
  <2> QED BY <2>1 DEF RowsHaveGuards, FiredOnce
<1> QED BY <1>1, <1>2, <1>3, <1>4, <1>5, LadderCases

\* Whatever ends the ladder clears the upcoming tone.
LEMMA NoNextToneStep ==
  ASSUME TypeOK, EvalInv, LadderAgreesWithGuards, NoNextToneOnAFinishedLadder, [Next]_vars
  PROVE  NoNextToneOnAFinishedLadder'
<1> USE DEF NoNextToneOnAFinishedLadder
<1>1. CASE UNCHANGED <<metadata, guard, audit>> BY <1>1
<1>2. CASE RecordToneTimes BY <1>2 DEF RecordToneTimes, TypeOK, MetadataType
<1>3. ASSUME NEW e \in Evals, CommitFire(e) \/ CommitFireGuard(e)
      PROVE  NoNextToneOnAFinishedLadder'
  <2>1. CommitFire(e) /\ eval[e].tone = 3 => eval[e].next = 0
    BY DEF CommitFire, EvalInv, LocalInv, Decided, Firing
  <2> QED BY <1>1, <1>3, <2>1, CommitFireIs DEF ToneOf
<1>4. ASSUME NEW e \in Evals, CommitSkip(e) \/ CommitSkipGuard(e)
      PROVE  NoNextToneOnAFinishedLadder'
  BY <1>1, <1>4, CommitSkipIs
<1>5. ASSUME NEW h \in Halts, AttemptHalt(h) PROVE NoNextToneOnAFinishedLadder'
  BY <1>5, AttemptHaltIs
<1> QED BY <1>1, <1>2, <1>3, <1>4, <1>5, LadderCases

\* A halt is never undone.
LEMMA HaltStays ==
  ASSUME TypeOK, LadderAgreesWithGuards, [Next]_vars, metadata.status = "HALTED_MANUAL"
  PROVE  UNCHANGED metadata
BY LadderCases, CommitFireIs, CommitSkipIs, AttemptHaltIs DEF RecordToneTimes
-----------------------------------------------------------------------------
(* Pending prompts keep an owner.                                          *)

\* An owner's own step keeps it the owner, or clears what it owed.
LEMMA OwnerStep ==
  ASSUME TypeOK, NEW e \in Evals, NEW t \in Tones, Owes(e, t), pending[t],
         metadata.status # "HALTED_MANUAL",
         Step(e) \/ Deliver(e) \/ Advance(e) \/ Throw(e)
  PROVE  Owes(e, t)' \/ ~pending'[t]
<1> USE DEF Owes, ToneOf
<1>0. /\ Fail(e) => Owes(e, t)'
      /\ \A pc \in Calls : Goto(e, pc) =>
            eval'[e].pc = pc /\ eval'[e].tone = eval[e].tone /\ eval'[e].rerun = eval[e].rerun
  BY FailIs, GotoIs
<1>1. CASE ReadMetadata(e) BY <1>1 DEF ReadMetadata, TypeOK, EvalType
<1>2. CASE ReadGuard(e) BY <1>2 DEF ReadGuard, RePrompts, TypeOK, EvalType
<1>3. CASE RequestMutualAid(e) \/ PromptForTone(e)
  <2>1. Goto(e, "prompt") \/ \E failed \in BOOLEAN : AidSettled(e, failed)
    BY <1>3 DEF RequestMutualAid, PromptForTone
  <2>2. eval[e].rerun BY <1>3 DEF RequestMutualAid, PromptForTone
  <2>3. Fail(e) \/ Goto(e, "prompt") \/ Goto(e, "clear") BY <2>1, <2>2 DEF AidSettled
  <2> QED BY <1>0, <2>2, <2>3 DEF Calls
<1>4. CASE ClearPending(e) BY <1>4 DEF ClearPending, TypeOK
<1>5. CASE Throw(e) BY <1>0, <1>5 DEF Throw
<1>6. CASE ~(ReadMetadata(e) \/ ReadGuard(e) \/ RequestMutualAid(e) \/ PromptForTone(e)
             \/ ClearPending(e) \/ Throw(e))
  BY <1>6 DEF Step, ReadMarker, ReadRoster, ReadTone3Guard, WriteFiringMarker, PageMember,
     PagesSettled, CommitFire, CommitFireGuard, CommitSkip, CommitSkipGuard,
     MarkMutualAidPending, Return, Deliver, Advance
<1> QED BY <1>1, <1>2, <1>3, <1>4, <1>5, <1>6

\* Whoever leaves prompts pending owes them.
LEMMA PendingWritten ==
  ASSUME TypeOK, NEW e \in Evals, LocalInv(e), NEW t \in Tones, ~pending[t], pending'[t],
         Step(e) \/ Deliver(e) \/ Advance(e) \/ Throw(e)
  PROVE  Owes(e, t)'
<1>0. pending \in [Tones -> BOOLEAN] BY DEF TypeOK
<1>1. CASE MarkMutualAidPending(e)
  BY <1>0, <1>1, FailIs DEF MarkMutualAidPending, Owes, ToneOf
<1>2. CASE CommitFire(e) \/ CommitFireGuard(e)
  <2>1. \E written : WriteGuard(e, written) /\ Committed(e)
    BY <1>2 DEF CommitFire, CommitFireGuard
  <2>2. ToneOf(e) = t /\ eval[e].aidFailed BY <1>0, <2>1 DEF WriteGuard
  <2> QED BY <2>1, <2>2, FailIs DEF Committed, Owes, ToneOf
<1>3. CASE CommitSkip(e) \/ CommitSkipGuard(e)
  <2>1. ~eval[e].aidFailed BY <1>3 DEF CommitSkip, CommitSkipGuard, LocalInv, Carries
  <2>2. WriteGuard(e, "skipped") BY <1>3 DEF CommitSkip, CommitSkipGuard
  <2> QED BY <1>0, <2>1, <2>2 DEF WriteGuard
<1>4. CASE ClearPending(e) BY <1>0, <1>4 DEF ClearPending
<1>5. CASE UNCHANGED pending BY <1>5
<1> QED BY <1>1, <1>2, <1>3, <1>4, <1>5
     DEF Step, ReadMetadata, ReadGuard, ReadMarker, ReadRoster, ReadTone3Guard, WriteFiringMarker,
         PageMember, PagesSettled, RequestMutualAid, PromptForTone, Return, Deliver, Advance,
         Throw, ladder

\* Pending prompts keep an owner until the ladder is halted.
LEMMA PendingOwedStep ==
  ASSUME TypeOK, EvalInv, LadderAgreesWithGuards, PendingOwed, [Next]_vars
  PROVE  PendingOwed'
<1> SUFFICES ASSUME metadata'.status # "HALTED_MANUAL", NEW t \in Tones, pending'[t]
             PROVE  \E e \in Evals : Owes(e, t)'
  BY DEF PendingOwed, Owes, ToneOf
<1>1. metadata.status # "HALTED_MANUAL" BY HaltStays
<1>2. CASE UNCHANGED vars \/ Outside
  BY <1>1, <1>2, OutsideLeaves DEF vars, ladder, PendingOwed, Owes, ToneOf
<1>3. ASSUME NEW e \in Evals, Step(e) \/ Deliver(e) \/ Advance(e) \/ Throw(e)
      PROVE  \E f \in Evals : Owes(f, t)'
  <2>1. CASE pending[t]
    <3>1. PICK f \in Evals : Owes(f, t) BY <1>1, <2>1 DEF PendingOwed
    <3>2. CASE f = e BY <1>1, <1>3, <2>1, <3>1, <3>2, OwnerStep
    <3>3. CASE f # e BY <1>3, <3>1, <3>3, OneMoves DEF Owes, ToneOf
    <3> QED BY <3>2, <3>3
  <2>2. CASE ~pending[t] BY <1>3, <2>2, PendingWritten DEF EvalInv
  <2> QED BY <2>1, <2>2
<1> QED BY <1>2, <1>3, NextCases

-----------------------------------------------------------------------------
(* The theorems.                                                           *)

\* The inductive invariant holds when the dispatch is created.
LEMMA InitInductive == Init => IInv
<1> SUFFICES ASSUME Init PROVE IInv OBVIOUS
<1>1. TypeOK BY InitTyped
<1>2. EvalInv
  BY DEF Init, EvalInv, LocalInv, Decided, Carries, Paged, Told, Skipping, Firing, IdleEval
<1>3. ItemsPaged /\ LadderAgreesWithGuards /\ RowsHaveGuards /\ FiredOnce
      /\ NoNextToneOnAFinishedLadder /\ PendingOwed
  BY DEF Init, ItemsPaged, LadderAgreesWithGuards, RowsHaveGuards, FiredOnce,
     NoNextToneOnAFinishedLadder, PendingOwed, Tones
<1>4. Refused BY DEF Init, Refused, IdleEval
<1> QED BY <1>1, <1>2, <1>3, <1>4 DEF IInv

\* Every step keeps the inductive invariant.
LEMMA StepInductive == IInv /\ [Next]_vars => IInv'
<1> SUFFICES ASSUME IInv, [Next]_vars PROVE IInv' OBVIOUS
<1> QED
  BY NextTyped, EvalInvStep, ItemsPagedStep, LadderAgreesStep, RefusedStep, RowsStep,
     NoNextToneStep, PendingOwedStep DEF IInv

\* The inductive invariant holds throughout.
THEOREM Inductive == Spec => []IInv
<1> QED BY InitInductive, StepInductive, PTL DEF Spec

\* Items, invocations and requests hold only what the code can put there.
THEOREM TypeCorrect == Spec => []TypeOK
<1>1. IInv => TypeOK BY DEF IInv
<1> QED BY <1>1, Inductive, PTL

\* fireTone before commitToneEvaluation: a tone has a fire guard only once every member of the
\* roster was paged and marked, for any roster, any number of deliveries, retries and officers.
THEOREM FiredToneHasReachedEveryone == Spec => []FiredToneReachedEveryone
<1>1. IInv => FiredToneReachedEveryone
  BY DEF IInv, ItemsPaged, AllPaged, FiredToneReachedEveryone
<1> QED BY <1>1, Inductive, PTL

\* An officer whose advance is answered "sent" or "already fired" is told the truth.
THEOREM OfficersAreToldTheTruth == Spec => []OfficerIsToldTheTruth
<1>1. IInv => OfficerIsToldTheTruth
  BY DEF IInv, EvalInv, LocalInv, Told, AllPaged, Manual, OfficerIsToldTheTruth, Evals
<1> QED BY <1>1, Inductive, PTL

\* markMutualAidPending and the rethrow after a commit: prompts left pending are retried or
\* reported, unless the ladder is halted.
THEOREM PendingPromptsKeepAnOwner == Spec => []PendingPromptsHaveAnOwnerUnlessHalted
<1>1. IInv => PendingPromptsHaveAnOwnerUnlessHalted
  BY DEF IInv, PendingOwed, Owes, Live, Calls, PendingPromptsHaveAnOwner,
     PendingPromptsHaveAnOwnerUnlessHalted
<1> QED BY <1>1, Inductive, PTL

\* The two transactions of commitToneEvaluation and the halt keep METADATA and the guards in
\* agreement, whatever interleaves with them.
THEOREM LadderStaysConsistent == Spec => []LadderAgreesWithGuards
<1>1. IInv => LadderAgreesWithGuards BY DEF IInv
<1> QED BY <1>1, Inductive, PTL

\* The guard conditions: a tone is reported fired at most once, to the audit and to the outbox.
THEOREM EachToneFiresOnce == Spec => []FiredOnce
<1>1. IInv => FiredOnce BY DEF IInv
<1> QED BY <1>1, Inductive, PTL

\* nextToneAt: a completed or halted ladder announces no further tone.
THEOREM FinishedLadderShowsNoNextTone == Spec => []NoNextToneOnAFinishedLadder
<1>1. IInv => NoNextToneOnAFinishedLadder BY DEF IInv
<1> QED BY <1>1, Inductive, PTL

\* Every update of METADATA requires an active ladder, so nothing changes it after a halt.
THEOREM HaltIsFinal == Spec => HaltFreezesLadder
<1>1. IInv /\ [Next]_vars => [metadata.status = "HALTED_MANUAL" => UNCHANGED metadata]_vars
  BY HaltStays DEF IInv
<1> QED BY <1>1, Inductive, PTL DEF Spec, HaltFreezesLadder

-----------------------------------------------------------------------------
(* The refinement of LadderPromise.                                        *)

\* The promise's variables.
PagedTones == {t \in Tones : Members \subseteq pages[t]}
FiredTones == {t \in Tones : guard[t] = "fired"}

\* Paging a member either completes a tone's pages or changes nothing of the promise.
LEMMA PageMaps ==
  ASSUME TypeOK, NEW e \in Evals, NEW m \in Members, PageMember(e, m)
  PROVE  /\ UNCHANGED <<metadata, guard>>
         /\ \/ UNCHANGED PagedTones
            \/ \E t \in Tones : PagedTones' = PagedTones \cup {t}
<1>0. ToneOf(e) \in Tones BY DEF TypeOK, EvalType, ToneOf
<1>1. UNCHANGED <<metadata, guard>> BY DEF PageMember, ladder
<1>2. \A t \in Tones \ {ToneOf(e)} : pages'[t] = pages[t] BY DEF PageMember, TypeOK
<1>3. \A t \in Tones : pages[t] \subseteq pages'[t] BY DEF PageMember, TypeOK
<1>4. CASE Members \subseteq pages'[ToneOf(e)]
  <2>1. PagedTones' = PagedTones \cup {ToneOf(e)} BY <1>0, <1>2, <1>3, <1>4 DEF PagedTones
  <2> QED BY <1>0, <1>1, <2>1
<1>5. CASE ~(Members \subseteq pages'[ToneOf(e)])
  <2>1. UNCHANGED PagedTones BY <1>0, <1>2, <1>3, <1>5 DEF PagedTones
  <2> QED BY <1>1, <2>1
<1> QED BY <1>4, <1>5

\* Only paging a member marks pages.
LEMMA PagesUnchanged ==
  ASSUME [Next]_vars, ~\E e \in Evals, m \in Members : PageMember(e, m)
  PROVE  UNCHANGED pages
BY DEF vars, sends, Next, RecordToneTimes, Answer, Deliver, Advance, Step, Throw, ReadMetadata,
     ReadGuard, ReadMarker, ReadRoster, ReadTone3Guard, WriteFiringMarker, PagesSettled,
     RequestMutualAid, PromptForTone, ClearPending, CommitFire, CommitFireGuard, CommitSkip,
     CommitSkipGuard, MarkMutualAidPending, Return, HaltStep, HaltRead, FindSuppressedTone,
     AttemptHalt, TriggerMutualAid, PromptForTrigger

\* Every step of the ladder is a step of its promise, or changes nothing the promise names.
LEMMA StepMaps ==
  ASSUME IInv, [Next]_vars
  PROVE  [Promise!PromiseNext]_(Promise!promised)
<1> USE DEF Promise!PromiseNext, Promise!promised, Promise!PromisedTones, PagedTones, FiredTones
<1>0. /\ metadata.current \in 1 .. 3 /\ guard \in [Tones -> {"none", "skipped", "fired"}]
      /\ \A e \in Evals : ToneOf(e) \in Tones
  BY DEF IInv, TypeOK, MetadataType, EvalType, ToneOf
<1>1. ASSUME NEW e \in Evals, NEW m \in Members, PageMember(e, m)
      PROVE  [Promise!PromiseNext]_(Promise!promised)
  BY <1>1, PageMaps DEF IInv, Promise!PageTone, Tones
<1>2. CASE UNCHANGED pages /\ UNCHANGED <<metadata, guard>> BY <1>2
<1>3. CASE UNCHANGED pages /\ RecordToneTimes
  BY <1>3 DEF RecordToneTimes, IInv, TypeOK, MetadataType
<1>4. ASSUME UNCHANGED pages, NEW e \in Evals, CommitFire(e) \/ CommitFireGuard(e)
      PROVE  [Promise!PromiseNext]_(Promise!promised)
  <2>1. CASE ~UNCHANGED <<metadata, guard, audit>>
    <3>1. ToneOf(e) \in PagedTones \ FiredTones
      <4>1. guard[ToneOf(e)] # "fired" BY <1>4, <2>1, CommitFireIs DEF IInv
      <4>2. AllPaged(ToneOf(e))
        BY <1>4 DEF IInv, EvalInv, LocalInv, Paged, CommitFire, CommitFireGuard
      <4> QED BY <1>0, <4>1, <4>2 DEF AllPaged
    <3>2. FiredTones' = FiredTones \cup {ToneOf(e)}
      BY <1>0, <1>4, <2>1, CommitFireIs DEF IInv
    <3>3. IF metadata.status = "ACTIVE" /\ metadata.current < ToneOf(e)
          THEN /\ metadata'.current = ToneOf(e)
               /\ metadata'.status = IF ToneOf(e) = 3 THEN "COMPLETED" ELSE "ACTIVE"
          ELSE metadata'.current = metadata.current /\ metadata'.status = metadata.status
      BY <1>0, <1>4, <2>1, CommitFireIs DEF IInv, Refused, ToneOf, Tones
    <3> QED BY <1>0, <1>4, <3>1, <3>2, <3>3 DEF Promise!FireTone, Tones
  <2> QED BY <1>2, <1>4, <2>1
<1>5. ASSUME UNCHANGED pages, NEW e \in Evals, CommitSkip(e) \/ CommitSkipGuard(e)
      PROVE  [Promise!PromiseNext]_(Promise!promised)
  BY <1>0, <1>2, <1>5, CommitSkipIs DEF IInv
<1>6. ASSUME UNCHANGED pages, NEW h \in Halts, AttemptHalt(h)
      PROVE  [Promise!PromiseNext]_(Promise!promised)
  BY <1>0, <1>2, <1>6, AttemptHaltIs DEF IInv, LadderAgreesWithGuards, Promise!HaltLadder
<1> QED BY <1>1, <1>2, <1>3, <1>4, <1>5, <1>6, LadderCases, PagesUnchanged

\* The ladder of invocations, retries, transactions and officers implements LadderPromise.
THEOREM LadderKeepsItsPromise == Spec => KeepsPromise
<1>1. Init => Promise!PromiseInit
  BY DEF Init, Promise!PromiseInit, Promise!PromisedTones, Tones
<1>2. IInv /\ [Next]_vars => [Promise!PromiseNext]_(Promise!promised) BY StepMaps
<1> QED BY <1>1, <1>2, Inductive, PTL DEF Spec, KeepsPromise, Promise!PromiseSpec

-----------------------------------------------------------------------------
(* Started fires, when a tone's schedule is delivered once.                *)

\* The schedule of a tone is delivered once; its retries after a throw are no second delivery.
OneDelivery == \A T \in {Timers2, Timers3} : \A d, e \in T : d = e

\* The schedules keep their tones.
TimersKeepTheirTone == \A e \in Timers : ToneOf(e) = IF e \in Timers3 THEN 3 ELSE 2

\* The invocation whose tone was skipped has nothing left to do but to return.
SkipIsOver ==
    \A e \in Timers : guard[ToneOf(e)] = "skipped" =>
       eval[e].pc \in {"idle", "metadata", "guard", "return", "done", "failed"}

\* Only a fired tone has prompts pending.
PendingIsFired ==
    /\ \A t \in Tones : pending[t] => guard[t] = "fired"
    /\ \A e \in Evals : eval[e].pc = "pending" => guard[ToneOf(e)] = "fired"

\* The invocation will fire its tone, or has failed: it is past its marker, or is the retry
\* of the schedule that will find one.
WillFire(e) ==
    \/ eval[e].pc = "failed"
    \/ Firing(e) /\ eval[e].pc # "mark"
    \/ /\ e \in Timers /\ guard[ToneOf(e)] # "skipped"
       /\ \/ eval[e].pc \in {"metadata", "marker"}
          \/ eval[e].pc = "guard" /\ ~eval[e].completed
          \/ eval[e].pc = "roster" /\ eval[e].resuming
          \/ /\ eval[e].pc = "tone3" /\ eval[e].resuming
             /\ eval[e].outcome # "SKIPPED_PREDICATE_MET"

\* A marked tone of an active ladder has fired, or somebody will fire it.
MarkedWillFire ==
    metadata.status = "ACTIVE" =>
       \A t \in Tones : marker[t] # "none" =>
          guard[t] = "fired" \/ \E e \in Evals : ToneOf(e) = t /\ WillFire(e)

StartedInv == TimersKeepTheirTone /\ SkipIsOver /\ PendingIsFired /\ MarkedWillFire

\* An attempt that throws is tried again only if it is a schedule's.
LEMMA OnlyTimersRetry ==
  ASSUME TypeOK, NEW e \in Evals, Fail(e)
  PROVE  eval'[e].pc = "failed" \/ (eval'[e].pc = "metadata" /\ e \in Timers)
BY DEF TypeOK, Fail, Failed, IdleEval

\* An invocation keeps its tone, but for an advance that begins.
LEMMA ToneStays ==
  ASSUME TypeOK, NEW e \in Evals, Step(e) \/ Deliver(e) \/ Throw(e)
  PROVE  eval'[e].tone = eval[e].tone
<1>1. /\ Fail(e) => eval'[e].tone = eval[e].tone
      /\ \A o \in Outcomes \cup {"none"} : Finish(e, o) => eval'[e].tone = eval[e].tone
      /\ \A pc \in Calls : Goto(e, pc) => eval'[e].tone = eval[e].tone
  BY FailIs, FinishIs, GotoIs
<1>2. eval \in [Evals -> EvalType] /\ eval[e].outcome \in Outcomes \cup {"none"}
  BY DEF TypeOK, EvalType
<1>3. AlreadyExists(e) \/ Committed(e) => eval'[e].tone = eval[e].tone
  BY <1>1, <1>2 DEF AlreadyExists, Committed, EvalType, Calls
<1>4. ASSUME NEW failed \in BOOLEAN, AidSettled(e, failed) PROVE eval'[e].tone = eval[e].tone
  BY <1>1, <1>2, <1>4 DEF AidSettled, EvalType, Calls
<1>5. ASSUME NEW m \in Members, PageMember(e, m) PROVE eval'[e].tone = eval[e].tone
  BY <1>2, <1>5 DEF PageMember, EvalType
<1>6. CASE ReadMetadata(e) \/ ReadGuard(e)
  BY <1>1, <1>2, <1>6 DEF ReadMetadata, ReadGuard, EvalType, Calls, Outcomes
<1>7. CASE ReadMarker(e) \/ ReadRoster(e) \/ ReadTone3Guard(e) \/ ClearPending(e) \/ Deliver(e)
  BY <1>2, <1>7 DEF ReadMarker, ReadRoster, ReadTone3Guard, ClearPending, Deliver, EvalType
<1>8. CASE WriteFiringMarker(e) \/ PagesSettled(e) \/ MarkMutualAidPending(e) \/ Throw(e) \/ Return(e)
  BY <1>1, <1>2, <1>8 DEF WriteFiringMarker, PagesSettled, MarkMutualAidPending, Throw, Return, Calls
<1>9. CASE RequestMutualAid(e) \/ PromptForTone(e)
  <2>1. Goto(e, "prompt") \/ \E failed \in BOOLEAN : AidSettled(e, failed)
    BY <1>9 DEF RequestMutualAid, PromptForTone
  <2> QED BY <1>1, <1>4, <2>1 DEF Calls
<1>10. CASE CommitFire(e) \/ CommitFireGuard(e) \/ CommitSkip(e) \/ CommitSkipGuard(e)
  BY <1>1, <1>3, <1>10 DEF CommitFire, CommitFireGuard, CommitSkip, CommitSkipGuard, Calls
<1> QED BY <1>5, <1>6, <1>7, <1>8, <1>9, <1>10 DEF Step

\* A ladder that is active was active before.
LEMMA StillActive ==
  ASSUME TypeOK, LadderAgreesWithGuards, [Next]_vars, metadata'.status = "ACTIVE"
  PROVE  metadata.status = "ACTIVE"
BY LadderCases, CommitFireIs, CommitSkipIs, AttemptHaltIs DEF RecordToneTimes

\* Only a schedule skips its tone, and then returns.
LEMMA SkipIs ==
  ASSUME TypeOK, NEW e \in Evals, LocalInv(e), CommitSkip(e) \/ CommitSkipGuard(e)
  PROVE  /\ e \in Timers /\ ~eval[e].aidFailed
         /\ \/ UNCHANGED <<guard, pending>>
            \/ /\ guard[ToneOf(e)] = "none" /\ guard' = [guard EXCEPT ![ToneOf(e)] = "skipped"]
               /\ pending' = [pending EXCEPT ![ToneOf(e)] = FALSE]
               /\ eval'[e].pc = "return"
         /\ eval'[e].pc \in {"return", "skipGuard"}
<1>1. eval[e].pc \in {"skip", "skipGuard"}
  BY DEF CommitSkip, CommitSkipGuard
<1>2. e \in Timers /\ ~eval[e].aidFailed
  BY <1>1 DEF LocalInv, Decided, Carries, Skipping, Manual, Evals
<1>3. AlreadyExists(e) => eval'[e].pc = "return"
  BY <1>2 DEF AlreadyExists, TypeOK, EvalType
<1>4. \A pc \in Calls : Goto(e, pc) => eval'[e].pc = pc
  BY GotoIs
<1>5. eval[e].aidFailed = FALSE
  BY <1>2 DEF TypeOK, EvalType
<1> QED BY <1>2, <1>3, <1>4, <1>5
        DEF CommitSkip, CommitSkipGuard, GuardFree, WriteGuard, Calls

\* The guards and the pending prompts change by these steps only.
LEMMA GuardCases ==
  ASSUME TypeOK, NEW e \in Evals, LocalInv(e), Step(e) \/ Deliver(e) \/ Advance(e) \/ Throw(e)
  PROVE  \/ UNCHANGED <<guard, pending>>
         \/ /\ CommitFire(e) \/ CommitFireGuard(e)
            /\ UpgradeFree(e) /\ WriteGuard(e, "fired") /\ Committed(e)
         \/ /\ CommitSkip(e) \/ CommitSkipGuard(e)
            /\ guard[ToneOf(e)] = "none" /\ guard' = [guard EXCEPT ![ToneOf(e)] = "skipped"]
            /\ pending' = [pending EXCEPT ![ToneOf(e)] = FALSE]
         \/ ClearPending(e) /\ UNCHANGED guard
         \/ MarkMutualAidPending(e) /\ UNCHANGED guard
<1>1. CASE CommitFire(e) \/ CommitFireGuard(e)
  BY <1>1 DEF CommitFire, CommitFireGuard
<1>2. CASE CommitSkip(e) \/ CommitSkipGuard(e)
  BY <1>2, SkipIs
<1> QED BY <1>1, <1>2
        DEF Step, ReadMetadata, ReadGuard, ReadMarker, ReadRoster, ReadTone3Guard,
            WriteFiringMarker, PageMember, PagesSettled, RequestMutualAid, PromptForTone, Return,
            ClearPending, MarkMutualAidPending, Deliver, Advance, Throw, ladder

\* A fired guard stays fired.
LEMMA FiredStays ==
  ASSUME TypeOK, EvalInv, [Next]_vars, NEW t \in Tones, guard[t] = "fired"
  PROVE  guard'[t] = "fired"
<1>1. ASSUME NEW e \in Evals, Step(e) \/ Deliver(e) \/ Advance(e) \/ Throw(e)
      PROVE  guard'[t] = "fired"
  BY <1>1, GuardCases DEF EvalInv, WriteGuard, TypeOK
<1> QED BY <1>1, NextCases, OutsideLeaves DEF vars, ladder

\* The schedules keep their tones.
LEMMA TimersKeepStep ==
  ASSUME TypeOK, TimersKeepTheirTone, [Next]_vars
  PROVE  TimersKeepTheirTone'
<1>1. ASSUME NEW e \in Evals, Step(e) \/ Deliver(e) \/ Advance(e) \/ Throw(e)
      PROVE  TimersKeepTheirTone'
  <2>1. \A f \in Evals \ {e} : eval'[f] = eval[f]
    BY <1>1, OneMoves
  <2>2. Advance(e) => e \notin Timers
    BY LadderConstants DEF Advance
  <2> QED BY <1>1, <2>1, <2>2, ToneStays DEF TimersKeepTheirTone, ToneOf, Evals
<1> QED BY <1>1, NextCases, OutsideLeaves DEF vars, TimersKeepTheirTone, ToneOf

\* The second of two schedules' steps on one tone is by the same schedule.
LEMMA SameTimer ==
  ASSUME OneDelivery, TimersKeepTheirTone, NEW d \in Timers, NEW e \in Timers, ToneOf(d) = ToneOf(e)
  PROVE  d = e
BY DEF OneDelivery, TimersKeepTheirTone, Timers

\* A skipped tone's schedule only returns, also when it is retried.
LEMMA SkipIsOverStep ==
  ASSUME TypeOK, EvalInv, OneDelivery, TimersKeepTheirTone, SkipIsOver, PendingIsFired, [Next]_vars
  PROVE  SkipIsOver'
<1> DEFINE Over(e) == eval[e].pc \in {"idle", "metadata", "guard", "return", "done", "failed"}
<1>0. \A e \in Evals : ToneOf(e) \in Tones
  BY DEF TypeOK, EvalType, ToneOf
<1> SUFFICES ASSUME NEW f \in Timers, guard'[ToneOf(f)'] = "skipped" PROVE Over(f)'
  BY DEF SkipIsOver
<1>1. ToneOf(f)' = ToneOf(f)
  BY TimersKeepStep DEF TimersKeepTheirTone
<1>2. CASE UNCHANGED <<eval, guard>>
  BY <1>2 DEF SkipIsOver, ToneOf
<1>3. ASSUME NEW e \in Evals, Step(e) \/ Deliver(e) \/ Advance(e) \/ Throw(e)
      PROVE  Over(f)'
  <2>1. CASE guard[ToneOf(f)] = "skipped" /\ e = f
    <3>1. Over(f) /\ ~Manual(f) /\ ~pending[ToneOf(f)]
      BY <1>0, <2>1, LadderConstants DEF SkipIsOver, PendingIsFired, Manual, Evals
    <3>2. /\ Fail(f) => Over(f)'
          /\ \A o \in Outcomes \cup {"none"} : Finish(f, o) => Over(f)'
      BY FailIs, FinishIs DEF Evals
    <3>3. CASE ReadMetadata(f)
      BY <3>2, <3>3 DEF ReadMetadata, TypeOK, EvalType, Outcomes, Evals
    <3>4. CASE ReadGuard(f)
      BY <2>1, <3>1, <3>2, <3>4 DEF ReadGuard, RePrompts, AlreadyEvaluated, Outcomes
    <3>5. CASE Return(f)
      BY <3>2, <3>5 DEF Return, TypeOK, EvalType, Evals
    <3>6. CASE Throw(f)
      BY <3>2, <3>6 DEF Throw
    <3>7. CASE Deliver(f)
      BY <3>7 DEF Deliver, TypeOK, EvalType, Evals
    <3>8. ~Advance(f)
      BY LadderConstants DEF Advance
    <3> QED BY <1>3, <2>1, <3>1, <3>3, <3>4, <3>5, <3>6, <3>7, <3>8
            DEF Step, ReadMarker, ReadRoster, ReadTone3Guard, WriteFiringMarker, PageMember,
                PagesSettled, RequestMutualAid, PromptForTone, ClearPending, CommitFire,
                CommitFireGuard, CommitSkip, CommitSkipGuard, MarkMutualAidPending
  <2>2. CASE guard[ToneOf(f)] = "skipped" /\ e # f
    BY <1>3, <2>2, OneMoves DEF SkipIsOver, Evals
  <2>3. CASE guard[ToneOf(f)] # "skipped"
    <3>1. ToneOf(f) \in Tones /\ guard'[ToneOf(f)] = "skipped"
      BY <1>0, <1>1 DEF Evals
    <3>2. /\ CommitSkip(e) \/ CommitSkipGuard(e)
          /\ guard' = [guard EXCEPT ![ToneOf(e)] = "skipped"]
      BY <1>3, <2>3, <3>1, GuardCases DEF EvalInv, WriteGuard, TypeOK
    <3>3. ToneOf(e) = ToneOf(f)
      BY <2>3, <3>1, <3>2 DEF TypeOK
    <3>4. e = f /\ eval'[e].pc = "return"
      BY <2>3, <3>1, <3>2, <3>3, SkipIs, SameTimer DEF EvalInv
    <3> QED BY <3>4
  <2> QED BY <2>1, <2>2, <2>3
<1> QED BY <1>2, <1>3, NextCases, OutsideLeaves DEF vars, ladder

\* An attempt leaves prompts to a twin's commit only when that commit fired the tone.
LEMMA PendingEntered ==
  ASSUME TypeOK, NEW e \in Evals, LocalInv(e), SkipIsOver,
         Step(e) \/ Deliver(e) \/ Advance(e) \/ Throw(e), eval'[e].pc = "pending"
  PROVE  guard[ToneOf(e)] = "fired" /\ eval'[e].tone = eval[e].tone
<1>0. /\ Fail(e) => eval'[e].pc # "pending"
      /\ \A o \in Outcomes \cup {"none"} : Finish(e, o) => eval'[e].pc # "pending"
      /\ \A pc \in Calls : Goto(e, pc) => eval'[e].pc = pc /\ eval'[e].tone = eval[e].tone
  BY FailIs, FinishIs, GotoIs
<1>1. Committed(e) => eval'[e].pc # "pending"
  BY <1>0 DEF Committed, Calls
<1>2. ASSUME NEW failed \in BOOLEAN, AidSettled(e, failed) PROVE eval'[e].pc # "pending"
  BY <1>0, <1>2 DEF AidSettled, TypeOK, EvalType, Calls
<1>3. ASSUME NEW m \in Members, PageMember(e, m) PROVE eval'[e].pc # "pending"
  BY <1>3 DEF PageMember, TypeOK, EvalType
<1>4. CASE ReadMetadata(e) \/ ReadGuard(e)
  BY <1>0, <1>4 DEF ReadMetadata, ReadGuard, TypeOK, EvalType, Calls, Outcomes
<1>5. CASE ReadMarker(e) \/ ReadRoster(e) \/ ReadTone3Guard(e)
  BY <1>5 DEF ReadMarker, ReadRoster, ReadTone3Guard, TypeOK, EvalType
<1>6. CASE WriteFiringMarker(e) \/ PagesSettled(e) \/ MarkMutualAidPending(e) \/ Throw(e)
  BY <1>0, <1>6 DEF WriteFiringMarker, PagesSettled, MarkMutualAidPending, Throw, Calls
<1>7. CASE RequestMutualAid(e) \/ PromptForTone(e)
  <2>1. Goto(e, "prompt") \/ \E failed \in BOOLEAN : AidSettled(e, failed)
    BY <1>7 DEF RequestMutualAid, PromptForTone
  <2> QED BY <1>0, <1>2, <2>1 DEF Calls
<1>8. CASE ClearPending(e) \/ Deliver(e) \/ Advance(e)
  BY <1>8 DEF ClearPending, Deliver, Advance, TypeOK, EvalType
<1>9. CASE Return(e) BY <1>0, <1>9 DEF Return, TypeOK, EvalType
<1>10. CASE CommitSkip(e) \/ CommitSkipGuard(e)
  BY <1>10, SkipIs
<1>11. CASE CommitFire(e) \/ CommitFireGuard(e)
  <2>1. eval[e].pc \in {"commit", "commitGuard"}
    BY <1>11 DEF CommitFire, CommitFireGuard
  <2>2. ~UpgradeFree(e) /\ AlreadyExists(e)
    BY <1>0, <1>1, <1>11 DEF CommitFire, CommitFireGuard, Calls
  <2>3. guard[ToneOf(e)] # "none" /\ (guard[ToneOf(e)] = "skipped" => ~Manual(e))
    BY <2>2 DEF UpgradeFree, GuardFree
  <2>4. guard[ToneOf(e)] # "skipped"
    BY <2>1, <2>3 DEF SkipIsOver, Manual, Evals
  <2>5. guard[ToneOf(e)] \in {"none", "skipped", "fired"}
    BY DEF TypeOK, EvalType, ToneOf
  <2> QED BY <1>0, <1>11, <2>3, <2>4, <2>5, ToneStays DEF Step
<1> QED BY <1>3, <1>4, <1>5, <1>6, <1>7, <1>8, <1>9, <1>10, <1>11 DEF Step

\* Prompts are left pending only of a fired tone.
LEMMA PendingIsFiredStep ==
  ASSUME TypeOK, EvalInv, SkipIsOver, PendingIsFired, [Next]_vars
  PROVE  PendingIsFired'
<1>0. \A e \in Evals : ToneOf(e) \in Tones
  BY DEF TypeOK, EvalType, ToneOf
<1>1. CASE UNCHANGED <<eval, guard, pending>>
  BY <1>1 DEF PendingIsFired, ToneOf
<1>2. ASSUME NEW e \in Evals, Step(e) \/ Deliver(e) \/ Advance(e) \/ Throw(e)
      PROVE  PendingIsFired'
  <2>1. ASSUME NEW t \in Tones, pending'[t] PROVE guard'[t] = "fired"
    <3>1. CASE pending[t]
      BY <3>1, FiredStays DEF PendingIsFired
    <3>2. CASE ~pending[t]
      BY <1>0, <1>2, <2>1, <3>2, GuardCases, FiredStays
         DEF EvalInv, WriteGuard, ClearPending, MarkMutualAidPending, PendingIsFired, TypeOK
    <3> QED BY <3>1, <3>2
  <2>2. ASSUME NEW f \in Evals, eval'[f].pc = "pending" PROVE guard'[ToneOf(f)'] = "fired"
    <3>1. CASE f = e
      BY <1>0, <1>2, <2>2, <3>1, PendingEntered, FiredStays DEF EvalInv, ToneOf
    <3>2. CASE f # e
      BY <1>0, <1>2, <2>2, <3>2, OneMoves, FiredStays DEF PendingIsFired, ToneOf
    <3> QED BY <3>1, <3>2
  <2> QED BY <2>1, <2>2 DEF PendingIsFired
<1> QED BY <1>1, <1>2, NextCases, OutsideLeaves DEF vars, ladder

\* Whoever will fire the tone of an active ladder goes on to, or has.
LEMMA WillFireStep ==
  ASSUME TypeOK, NEW e \in Evals, LocalInv(e), LadderAgreesWithGuards, SkipIsOver, PendingIsFired,
         metadata.status = "ACTIVE", marker[ToneOf(e)] # "none", guard[ToneOf(e)] # "fired",
         WillFire(e), Step(e) \/ Deliver(e) \/ Advance(e) \/ Throw(e)
  PROVE  guard'[ToneOf(e)] = "fired" \/ WillFire(e)'
<1> DEFINE t == ToneOf(e)
<1> USE DEF Firing
<1>1. t \in Tones /\ eval[e].tone = t /\ ~pending[t] /\ eval[e].pc # "idle"
      /\ eval[e].pc # "pending"
  BY DEF TypeOK, EvalType, ToneOf, PendingIsFired, WillFire
<1>2. eval'[e].tone = t
  BY <1>1, ToneStays DEF Advance
<1>3. e \in Timers /\ eval[e].pc # "failed" => guard[t] # "skipped"
  BY DEF WillFire, SkipIsOver
<1>4. guard'[t] = guard[t] /\ Fail(e) => WillFire(e)'
  <2> SUFFICES ASSUME guard'[t] = guard[t], Fail(e) PROVE WillFire(e)'
    OBVIOUS
  <2>1. eval[e].pc # "failed"
    BY <1>1 DEF Step, Deliver, Advance, Throw, Live, Calls, ReadMetadata, ReadGuard, ReadMarker,
       ReadRoster, ReadTone3Guard, WriteFiringMarker, PageMember, PagesSettled, RequestMutualAid,
       PromptForTone, ClearPending, CommitFire, CommitFireGuard, CommitSkip, CommitSkipGuard,
       MarkMutualAidPending, Return
  <2> QED BY <1>2, <1>3, <2>1, OnlyTimersRetry DEF WillFire, ToneOf
<1>5. \A pc \in {"aid", "prompt", "commit", "commitGuard", "page"} :
         /\ Goto(e, pc)
         /\ pc \in {"aid", "prompt"} => ~eval[e].rerun
         => WillFire(e)'
  BY GotoIs DEF WillFire
<1>6. CASE ReadMetadata(e)
  <2>1. /\ eval'[e].pc = "guard" /\ eval'[e].completed = FALSE /\ e \in Timers
        /\ guard'[t] # "skipped"
    BY <1>1, <1>3, <1>6 DEF ReadMetadata, TypeOK, EvalType, WillFire, ladder
  <2> QED BY <1>2, <2>1 DEF WillFire, ToneOf
<1>7. CASE ReadGuard(e)
  <2>1. e \in Timers /\ ~eval[e].completed /\ guard[t] # "skipped"
    BY <1>1, <1>3, <1>7 DEF ReadGuard, WillFire
  <2>2. Goto(e, "marker") /\ UNCHANGED guard
    BY <1>1, <1>7, <2>1 DEF ReadGuard, RePrompts, AlreadyEvaluated, ladder
  <2>3. eval'[e].pc = "marker"
    BY <2>2, GotoIs
  <2> QED BY <1>2, <2>1, <2>2, <2>3 DEF WillFire, ToneOf
<1>8. CASE ReadMarker(e)
  <2>1. /\ e \in Timers /\ guard'[t] # "skipped"
        /\ eval'[e].pc = "roster" /\ eval'[e].resuming
    BY <1>1, <1>3, <1>8 DEF ReadMarker, Resumes, WillFire, ladder, TypeOK, EvalType
  <2> QED BY <1>2, <2>1 DEF WillFire, ToneOf
<1>9. CASE ReadRoster(e)
  <2>1. /\ e \in Timers /\ guard'[t] # "skipped" /\ eval[e].resuming
    BY <1>3, <1>9 DEF ReadRoster, WillFire, ladder
  <2>2. /\ eval'[e].resuming /\ eval'[e].pc \in {"tone3", "page"}
        /\ eval'[e].outcome # "SKIPPED_PREDICATE_MET"
    BY <1>9, <2>1 DEF ReadRoster, TypeOK, EvalType
  <2> QED BY <1>2, <2>1, <2>2 DEF WillFire, ToneOf
<1>10. CASE ReadTone3Guard(e)
  <2>1. eval[e].resuming /\ eval[e].outcome # "SKIPPED_PREDICATE_MET"
    BY <1>10 DEF ReadTone3Guard, WillFire
  <2>2. eval'[e].pc = "page"
    BY <1>10, <2>1 DEF ReadTone3Guard, TypeOK, EvalType
  <2> QED BY <2>2 DEF WillFire
<1>11. ASSUME NEW m \in Members, PageMember(e, m) PROVE WillFire(e)'
  <2>1. eval'[e].pc = "page"
    BY <1>11 DEF PageMember, TypeOK, EvalType
  <2> QED BY <2>1 DEF WillFire
<1>12. CASE PagesSettled(e)
  <2>1. ~eval[e].rerun /\ guard'[t] = guard[t]
    BY <1>12 DEF PagesSettled, LocalInv, Carries, ladder
  <2> QED BY <1>4, <1>5, <1>12, <2>1 DEF PagesSettled
<1>13. CASE RequestMutualAid(e) \/ PromptForTone(e)
  <2>1. ~eval[e].rerun /\ guard'[t] = guard[t]
    BY <1>13 DEF RequestMutualAid, PromptForTone, WillFire, ladder
  <2>2. ASSUME NEW failed \in BOOLEAN, AidSettled(e, failed) PROVE WillFire(e)'
    <3>1. CASE Fail(e) BY <1>4, <2>1, <3>1
    <3>2. CASE eval' = [eval EXCEPT ![e].pc = "commit", ![e].aidFailed = failed]
      <4>1. eval'[e].pc = "commit" BY <3>2 DEF TypeOK, EvalType
      <4> QED BY <4>1 DEF WillFire
    <3> QED BY <2>1, <2>2, <3>1, <3>2 DEF AidSettled
  <2>3. Goto(e, "prompt") \/ \E failed \in BOOLEAN : AidSettled(e, failed)
    BY <1>13 DEF RequestMutualAid, PromptForTone
  <2> QED BY <1>5, <2>1, <2>2, <2>3
<1>14. CASE CommitFire(e) \/ CommitFireGuard(e)
  <2>1. guard[t] # "skipped" \/ Manual(e)
    BY <1>3, <1>14 DEF CommitFire, CommitFireGuard, Manual, Evals
  <2>2. UpgradeFree(e)
    BY <1>1, <2>1 DEF UpgradeFree, GuardFree, TypeOK
  <2>3. WriteGuard(e, "fired") \/ Goto(e, "commitGuard")
    BY <1>14, <2>2 DEF CommitFire, CommitFireGuard
  <2> QED BY <1>1, <1>5, <2>3 DEF WriteGuard, TypeOK
<1>15. CASE Throw(e)
  BY <1>4, <1>15 DEF Throw, ladder
<1>16. ~(WriteFiringMarker(e) \/ ClearPending(e) \/ CommitSkip(e) \/ CommitSkipGuard(e)
         \/ MarkMutualAidPending(e) \/ Return(e) \/ Deliver(e) \/ Advance(e))
  BY <1>1 DEF WriteFiringMarker, ClearPending, CommitSkip, CommitSkipGuard, MarkMutualAidPending,
     Return, Deliver, Advance, WillFire
<1> QED BY <1>6, <1>7, <1>8, <1>9, <1>10, <1>11, <1>12, <1>13, <1>14, <1>15, <1>16 DEF Step

\* A marker is written by the attempt that goes on to page.
LEMMA MarkerWritten ==
  ASSUME TypeOK, NEW e \in Evals, Step(e) \/ Deliver(e) \/ Advance(e) \/ Throw(e),
         NEW t \in Tones, marker'[t] # marker[t]
  PROVE  /\ WriteFiringMarker(e) /\ ToneOf(e) = t /\ marker[t] = "none"
         /\ marker'[t] = IF eval[e].due THEN "due" ELSE "notDue"
<1>1. WriteFiringMarker(e)
  BY DEF Step, ReadMetadata, ReadGuard, ReadMarker, ReadRoster, ReadTone3Guard, PageMember,
     PagesSettled, RequestMutualAid, PromptForTone, ClearPending, CommitFire, CommitFireGuard,
     CommitSkip, CommitSkipGuard, MarkMutualAidPending, Return, Deliver, Advance, Throw, ladder
<1> QED BY <1>1 DEF WriteFiringMarker, TypeOK

\* A marked tone keeps somebody who will fire it.
LEMMA MarkedWillFireStep ==
  ASSUME IInv, OneDelivery, StartedInv, [Next]_vars
  PROVE  MarkedWillFire'
<1> USE DEF IInv, StartedInv
<1>0. \A e \in Evals : ToneOf(e) \in Tones
  BY DEF TypeOK, EvalType, ToneOf
<1> SUFFICES ASSUME metadata'.status = "ACTIVE", NEW t \in Tones, marker'[t] # "none",
                    guard'[t] # "fired"
             PROVE  \E e \in Evals : ToneOf(e)' = t /\ WillFire(e)'
  BY DEF MarkedWillFire, ToneOf
<1>1. metadata.status = "ACTIVE" /\ guard[t] # "fired"
  BY StillActive, FiredStays
<1>2. CASE UNCHANGED <<eval, guard, marker>>
  BY <1>1, <1>2 DEF MarkedWillFire, WillFire, Firing, ToneOf
<1>3. ASSUME NEW e \in Evals, Step(e) \/ Deliver(e) \/ Advance(e) \/ Throw(e)
      PROVE  \E f \in Evals : ToneOf(f)' = t /\ WillFire(f)'
  <2>1. CASE marker[t] = "none"
    <3>1. WriteFiringMarker(e) /\ ToneOf(e) = t
      BY <1>3, <2>1, MarkerWritten
    <3>2. eval'[e].pc = "page" /\ eval'[e].tone = t
      BY <3>1, GotoIs DEF WriteFiringMarker, ToneOf
    <3> QED BY <3>2 DEF WillFire, Firing, ToneOf
  <2>2. CASE marker[t] # "none"
    <3>1. PICK f \in Evals : ToneOf(f) = t /\ WillFire(f)
      BY <1>1, <2>2 DEF MarkedWillFire
    <3>2. CASE f = e
      <4>1. WillFire(e)'
        BY <1>1, <1>3, <2>2, <3>1, <3>2, WillFireStep DEF EvalInv
      <4>2. ToneOf(e)' = t
        BY <1>3, <3>1, <3>2, ToneStays DEF ToneOf, Advance, WillFire, Firing
      <4> QED BY <4>1, <4>2
    <3>3. CASE f # e
      <4>1. eval'[f] = eval[f]
        BY <1>3, <3>3, OneMoves
      <4>2. f \in Timers /\ guard[t] # "skipped" => guard'[t] # "skipped"
        <5> SUFFICES ASSUME f \in Timers, guard[t] # "skipped", guard'[t] = "skipped" PROVE FALSE
          OBVIOUS
        <5>1. /\ CommitSkip(e) \/ CommitSkipGuard(e)
              /\ guard' = [guard EXCEPT ![ToneOf(e)] = "skipped"]
          BY <1>3, GuardCases DEF EvalInv, WriteGuard, TypeOK
        <5>2. ToneOf(e) = t /\ e \in Timers
          BY <5>1, SkipIs DEF EvalInv, TypeOK
        <5> QED BY <3>1, <3>3, <5>2, SameTimer
      <4> QED BY <3>1, <4>1, <4>2 DEF WillFire, Firing, ToneOf
    <3> QED BY <3>2, <3>3
  <2> QED BY <2>1, <2>2
<1> QED BY <1>2, <1>3, NextCases, OutsideLeaves DEF vars, ladder

\* Nothing has started when the dispatch is created.
LEMMA StartedInit ==
  ASSUME Init
  PROVE  StartedInv
<1>1. /\ \A e \in Evals : eval[e].pc = "idle" /\ eval[e].tone = IF e \in Timers3 THEN 3 ELSE 2
      /\ \A t \in Tones : guard[t] = "none" /\ marker[t] = "none" /\ ~pending[t]
  BY DEF Init, IdleEval
<1>2. \A e \in Timers : ToneOf(e) \in Tones /\ e \in Evals
  BY <1>1 DEF Tones, ToneOf, Evals
<1> QED BY <1>1, <1>2 DEF StartedInv, TimersKeepTheirTone, SkipIsOver, PendingIsFired,
                          MarkedWillFire, ToneOf, Evals

\* writeFiringMarker and its reader: where the schedule of each tone is delivered once, a fire
\* that started is finished or fails loudly, however often it is retried and whatever officers
\* advance or halt meanwhile.  The run ladder_twin_skip shows why the premise is needed.
THEOREM StartedFiresAreFinished ==
  ASSUME OneDelivery
  PROVE  Spec => []StartedFireIsFinished
<1>1. Init => StartedInv
  BY StartedInit
<1>2. IInv /\ StartedInv /\ [Next]_vars => StartedInv'
  BY TimersKeepStep, SkipIsOverStep, PendingIsFiredStep, MarkedWillFireStep DEF IInv, StartedInv
<1>3. StartedInv => StartedFireIsFinished
  BY DEF StartedInv, MarkedWillFire, WillFire, Firing, StartedFireIsFinished, AllQuiet
<1> QED BY <1>1, <1>2, <1>3, Inductive, PTL DEF Spec

-----------------------------------------------------------------------------
(* Due mutual aid, when the schedule alone fires tone 3.                   *)

\* No officer's request is for tone 3.
OfficersLeaveTone3 == \A e \in Advances : ToneOf(e) # 3

\* Once tone 3 has a guard, its schedule has nothing left to do but to prompt or to return.
GuardedIsOver ==
    \A e \in Timers3 : guard[3] # "none" =>
       \/ eval[e].pc \in {"idle", "metadata", "guard", "return", "done", "failed"}
       \/ eval[e].rerun

\* Due mutual aid is not requested yet, or has not reached every officer.
AidOwed == aid = "none" \/ heard # Officers

\* The invocation will request the mutual aid its marker says is due and prompt the officers, or
\* has failed: it has one of the two before it, or is the retry that will find the marker or the
\* pending prompts.
WillRequest(e) ==
  /\ eval[e].pc = "prompt" => aid # "none"
  /\ \/ eval[e].pc = "failed"
     \/ /\ pending[3]
        /\ \/ eval[e].pc \in {"metadata", "guard"}
           \/ eval[e].pc \in {"aid", "prompt"} /\ eval[e].rerun
     \/ /\ guard[3] = "none"
        /\ \/ eval[e].pc \in {"metadata", "marker"}
           \/ eval[e].pc = "guard" /\ ~eval[e].completed
           \/ eval[e].pc = "roster" /\ eval[e].resuming /\ eval[e].due
           \/ eval[e].pc \in {"page", "aid", "prompt"} /\ eval[e].due /\ ~eval[e].rerun
           \/ eval[e].pc \in {"commit", "commitGuard"} /\ eval[e].aidFailed

\* Mutual aid that is due and owed, on a ladder not halted, will be requested and prompted.
DueWillBeRequested ==
    marker[3] = "due" /\ metadata.status # "HALTED_MANUAL" /\ AidOwed =>
       \E e \in Timers3 : WillRequest(e)

\* A prompt is marked sent only after it was published.
MarkedAreHeard == prompts \subseteq heard

DueInv == TimersKeepTheirTone /\ GuardedIsOver /\ MarkedAreHeard /\ DueWillBeRequested

\* Mutual aid once requested stays requested.
LEMMA AidStays ==
  ASSUME [Next]_vars, aid # "none"
  PROVE  aid' # "none"
<1>1. CASE UNCHANGED vars
  BY <1>1 DEF vars, sends
<1>2. CASE RecordToneTimes \/ \E m \in Members : Answer(m)
  BY <1>2 DEF RecordToneTimes, Answer, sends
<1>3. ASSUME NEW e \in Evals, Deliver(e) \/ Advance(e) \/ Throw(e) PROVE aid' # "none"
  BY <1>3 DEF Deliver, Advance, Throw, sends
<1>4. ASSUME NEW e \in Evals, Step(e) PROVE aid' # "none"
  <2>1. CASE RequestMutualAid(e)
    BY <2>1 DEF RequestMutualAid
  <2>2. CASE UNCHANGED aid
    BY <2>2
  <2> QED BY <1>4, <2>1, <2>2
         DEF Step, ReadMetadata, ReadGuard, ReadMarker, ReadRoster, ReadTone3Guard,
             WriteFiringMarker, PageMember, PagesSettled, PromptForTone, ClearPending, CommitFire,
             CommitFireGuard, CommitSkip, CommitSkipGuard, MarkMutualAidPending, Return, sends
<1>5. ASSUME NEW h \in Halts, HaltStep(h) PROVE aid' # "none"
  BY <1>5 DEF HaltStep, HaltRead, FindSuppressedTone, AttemptHalt, sends
<1>6. ASSUME NEW r \in Triggers, TriggerMutualAid(r) \/ PromptForTrigger(r) PROVE aid' # "none"
  BY <1>6 DEF TriggerMutualAid, PromptForTrigger
<1> QED BY <1>1, <1>2, <1>3, <1>4, <1>5, <1>6 DEF Next

\* Prompts change only by a round of them.
LEMMA PromptsAre ==
  ASSUME [Next]_vars
  PROVE  UNCHANGED <<prompts, heard>> \/ \E ok, marked : PromptOfficers(ok, marked)
<1>1. CASE UNCHANGED vars
  BY <1>1 DEF vars, sends
<1>2. CASE RecordToneTimes \/ \E m \in Members : Answer(m)
  BY <1>2 DEF RecordToneTimes, Answer, sends
<1>3. ASSUME NEW e \in Evals, Deliver(e) \/ Advance(e) \/ Throw(e)
      PROVE  UNCHANGED <<prompts, heard>>
  BY <1>3 DEF Deliver, Advance, Throw, sends
<1>4. ASSUME NEW e \in Evals, Step(e), ~PromptForTone(e) PROVE UNCHANGED <<prompts, heard>>
  BY <1>4 DEF Step, ReadMetadata, ReadGuard, ReadMarker, ReadRoster, ReadTone3Guard,
     WriteFiringMarker, PageMember, PagesSettled, RequestMutualAid, CommitFire, CommitFireGuard,
     CommitSkip, CommitSkipGuard, ClearPending, MarkMutualAidPending, Return, sends
<1>5. ASSUME NEW h \in Halts, HaltStep(h) PROVE UNCHANGED <<prompts, heard>>
  BY <1>5 DEF HaltStep, HaltRead, FindSuppressedTone, AttemptHalt, sends
<1>6. ASSUME NEW r \in Triggers, TriggerMutualAid(r) PROVE UNCHANGED <<prompts, heard>>
  BY <1>6 DEF TriggerMutualAid
<1>7. ASSUME NEW e \in Evals, PromptForTone(e) PROVE \E ok, marked : PromptOfficers(ok, marked)
  BY <1>7 DEF PromptForTone
<1>8. ASSUME NEW r \in Triggers, PromptForTrigger(r)
      PROVE  \E ok, marked : PromptOfficers(ok, marked)
  BY <1>8 DEF PromptForTrigger
<1> QED BY <1>1, <1>2, <1>3, <1>4, <1>5, <1>6, <1>7, <1>8 DEF Next

\* Aid that is owed was owed before.
LEMMA OwedBefore ==
  ASSUME TypeOK, [Next]_vars, AidOwed'
  PROVE  AidOwed
<1>1. heard = Officers => heard' = Officers
  BY PromptsAre DEF PromptOfficers
<1> QED BY <1>1, AidStays DEF AidOwed

\* A round of prompts marks none that it has not published.
LEMMA MarkedAreHeardStep ==
  ASSUME MarkedAreHeard, [Next]_vars
  PROVE  MarkedAreHeard'
BY PromptsAre DEF MarkedAreHeard, PromptOfficers

\* With officers off tone 3, its one schedule is whoever acts on it.
LEMMA OneActsOnTone3 ==
  ASSUME OneDelivery, TimersKeepTheirTone, OfficersLeaveTone3,
         NEW d \in Timers3, NEW e \in Evals, ToneOf(e) = 3
  PROVE  d = e
<1>1. e \in Timers
  BY DEF OfficersLeaveTone3, Evals
<1> QED BY <1>1, SameTimer DEF TimersKeepTheirTone, Timers

\* Once guarded, tone 3's schedule only prompts and returns.
LEMMA GuardedIsOverStep ==
  ASSUME TypeOK, EvalInv, OneDelivery, TimersKeepTheirTone, OfficersLeaveTone3, GuardedIsOver,
         [Next]_vars
  PROVE  GuardedIsOver'
<1> DEFINE Over(e) ==
             \/ eval[e].pc \in {"idle", "metadata", "guard", "return", "done", "failed"}
             \/ eval[e].rerun
<1> SUFFICES ASSUME NEW f \in Timers3, guard'[3] # "none" PROVE Over(f)'
  BY DEF GuardedIsOver
<1>0. f \in Evals /\ f \in Timers /\ ToneOf(f) = 3 /\ 3 \in Tones
  BY DEF Evals, Timers, TimersKeepTheirTone, Tones
<1>1. CASE UNCHANGED <<eval, guard>>
  BY <1>1 DEF GuardedIsOver
<1>2. ASSUME NEW e \in Evals, Step(e) \/ Deliver(e) \/ Advance(e) \/ Throw(e)
      PROVE  Over(f)'
  <2>1. CASE guard[3] # "none" /\ e # f
    BY <1>0, <1>2, <2>1, OneMoves DEF GuardedIsOver
  <2>2. CASE guard[3] # "none" /\ e = f
    <3>1. Over(f) /\ ~Manual(f)
      BY <1>0, <2>2, LadderConstants DEF GuardedIsOver, Manual
    <3>2. /\ Fail(f) => Over(f)'
          /\ \A o \in Outcomes \cup {"none"} : Finish(f, o) => Over(f)'
          /\ \A pc \in Calls : Goto(f, pc) => eval'[f].pc = pc /\ eval'[f].rerun = eval[f].rerun
      BY <1>0, FailIs, FinishIs, GotoIs
    <3>3. CASE ReadMetadata(f)
      BY <1>0, <3>2, <3>3 DEF ReadMetadata, TypeOK, EvalType, Outcomes
    <3>4. CASE ReadGuard(f)
      <4>1. guard[3] \in {"skipped", "fired"}
        BY <1>0, <2>2 DEF TypeOK
      <4>2. CASE RePrompts(f)
        BY <1>0, <3>4, <4>2 DEF ReadGuard, TypeOK, EvalType
      <4> QED BY <1>0, <3>1, <3>2, <3>4, <4>1, <4>2 DEF ReadGuard, AlreadyEvaluated, Outcomes
    <3>5. CASE Return(f)
      BY <1>0, <3>2, <3>5 DEF Return, TypeOK, EvalType
    <3>6. CASE Throw(f)
      BY <3>2, <3>6 DEF Throw
    <3>7. CASE Deliver(f)
      BY <1>0, <3>7 DEF Deliver, TypeOK, EvalType
    <3>8. CASE RequestMutualAid(f) \/ PromptForTone(f)
      <4>1. eval[f].rerun
        BY <3>1, <3>8 DEF RequestMutualAid, PromptForTone
      <4>2. Goto(f, "prompt") \/ \E failed \in BOOLEAN : AidSettled(f, failed)
        BY <3>8 DEF RequestMutualAid, PromptForTone
      <4>3. Goto(f, "prompt") \/ Goto(f, "clear") \/ Fail(f)
        BY <4>1, <4>2 DEF AidSettled
      <4> QED BY <3>2, <4>1, <4>3 DEF Calls
    <3>9. CASE ClearPending(f)
      BY <1>0, <3>9 DEF ClearPending, TypeOK, EvalType
    <3>10. ~Advance(f)
      BY <1>0, LadderConstants DEF Advance
    <3>11. eval[f].rerun => eval[f].pc \in {"aid", "prompt", "clear", "return"}
      BY <1>0 DEF EvalInv, LocalInv, Carries
    <3> QED BY <1>2, <2>2, <3>1, <3>3, <3>4, <3>5, <3>6, <3>7, <3>8, <3>9, <3>10, <3>11
            DEF Step, ReadMarker, ReadRoster, ReadTone3Guard, WriteFiringMarker, PageMember,
                PagesSettled, CommitFire, CommitFireGuard, CommitSkip, CommitSkipGuard,
                MarkMutualAidPending
  <2>3. CASE guard[3] = "none"
    <3>1. \/ CommitFire(e) /\ WriteGuard(e, "fired") /\ Committed(e)
          \/ CommitFireGuard(e) /\ WriteGuard(e, "fired") /\ Committed(e)
          \/ /\ CommitSkip(e) \/ CommitSkipGuard(e)
             /\ guard' = [guard EXCEPT ![ToneOf(e)] = "skipped"]
      BY <1>2, <2>3, GuardCases DEF EvalInv
    <3>2. ToneOf(e) = 3
      BY <1>0, <2>3, <3>1 DEF WriteGuard, TypeOK
    <3>3. e = f
      BY <3>2, OneActsOnTone3
    <3>4. CASE CommitSkip(e) \/ CommitSkipGuard(e)
      BY <1>0, <2>3, <3>3, <3>4, SkipIs DEF EvalInv
    <3>5. CASE WriteGuard(e, "fired") /\ Committed(e)
      BY <3>3, <3>5, FailIs, GotoIs DEF Committed, Calls
    <3> QED BY <3>1, <3>4, <3>5
  <2> QED BY <2>1, <2>2, <2>3
<1> QED BY <1>1, <1>2, NextCases, OutsideLeaves DEF vars, ladder

\* Whoever will request the mutual aid and prompt for it goes on to, or has.
LEMMA WillRequestStep ==
  ASSUME IInv, TimersKeepTheirTone, MarkedAreHeard, NEW e \in Timers3, marker[3] = "due",
         metadata.status # "HALTED_MANUAL", WillRequest(e),
         Step(e) \/ Deliver(e) \/ Advance(e) \/ Throw(e)
  PROVE  ~AidOwed' \/ WillRequest(e)'
<1> USE DEF IInv
<1>1. /\ e \in Evals /\ ToneOf(e) = 3 /\ 3 \in Tones /\ eval[e].tone = 3 /\ eval[e].pc # "idle"
      /\ LocalInv(e) /\ eval[e] \in EvalType /\ guard \in [Tones -> {"none", "skipped", "fired"}]
      /\ pending \in [Tones -> BOOLEAN]
  BY DEF Evals, Timers, TimersKeepTheirTone, Tones, ToneOf, WillRequest, EvalInv, TypeOK
<1>2. guard[3] = "none" => metadata.status = "ACTIVE"
  BY DEF LadderAgreesWithGuards, TypeOK, MetadataType, Statuses
<1>3. /\ Fail(e) => eval'[e].pc \in {"metadata", "failed"}
      /\ \A pc \in Calls : Goto(e, pc) =>
            /\ eval'[e].pc = pc /\ eval'[e].rerun = eval[e].rerun
            /\ eval'[e].aidFailed = eval[e].aidFailed
  BY <1>1, FailIs, GotoIs
<1>4. ASSUME Fail(e), UNCHANGED <<guard, pending>>, eval[e].pc # "failed" PROVE WillRequest(e)'
  BY <1>3, <1>4 DEF WillRequest
<1>5. CASE ReadMetadata(e)
  <2>1. /\ eval'[e].pc = "guard" /\ UNCHANGED <<guard, pending>>
        /\ metadata.status = "ACTIVE" => ~eval'[e].completed
    BY <1>1, <1>5 DEF ReadMetadata, TypeOK, ladder, EvalType
  <2> QED BY <1>2, <1>5, <2>1 DEF ReadMetadata, WillRequest
<1>6. CASE ReadGuard(e)
  <2>1. CASE RePrompts(e)
    BY <1>1, <1>6, <2>1 DEF ReadGuard, RePrompts, WillRequest, TypeOK, ladder, EvalType
  <2>2. CASE ~RePrompts(e)
    <3>1. guard[3] = "none" /\ ~eval[e].completed
      BY <1>1, <1>6, <2>2 DEF ReadGuard, RePrompts, WillRequest
    <3>2. Goto(e, "marker") /\ UNCHANGED guard
      BY <1>1, <1>6, <2>2, <3>1 DEF ReadGuard, AlreadyEvaluated, ladder
    <3> QED BY <1>3, <3>1, <3>2 DEF WillRequest, Calls
  <2> QED BY <2>1, <2>2
<1>7. CASE ReadMarker(e)
  BY <1>1, <1>7 DEF ReadMarker, Resumes, WillRequest, TypeOK, ladder, EvalType
<1>8. CASE ReadRoster(e)
  <2>1. guard[3] = "none" /\ eval[e].resuming /\ eval[e].due /\ ~eval[e].rerun
    BY <1>1, <1>8 DEF ReadRoster, WillRequest, LocalInv, Carries
  <2>2. eval'[e].pc = "page" /\ eval'[e].due /\ ~eval'[e].rerun /\ UNCHANGED guard
    BY <1>1, <1>8, <2>1 DEF ReadRoster, TypeOK, ladder, EvalType
  <2> QED BY <2>1, <2>2 DEF WillRequest
<1>9. ASSUME NEW m \in Members, PageMember(e, m) PROVE WillRequest(e)'
  <2>1. /\ eval'[e].pc = "page" /\ eval'[e].due = eval[e].due /\ eval'[e].rerun = eval[e].rerun
        /\ UNCHANGED guard
    BY <1>1, <1>9 DEF PageMember, TypeOK, ladder, EvalType
  <2> QED BY <1>9, <2>1 DEF WillRequest, PageMember
<1>10. CASE PagesSettled(e)
  <2>1. guard[3] = "none" /\ eval[e].due /\ ~eval[e].rerun
    BY <1>10 DEF PagesSettled, WillRequest
  <2>2. eval' = [eval EXCEPT ![e].pc = "aid"] /\ UNCHANGED guard
    BY <1>10, <2>1 DEF PagesSettled, Goto, ladder
  <2>3. eval'[e].pc = "aid" /\ eval'[e].due /\ ~eval'[e].rerun
    BY <1>1, <2>1, <2>2 DEF TypeOK, EvalType
  <2> QED BY <2>1, <2>2, <2>3 DEF WillRequest
<1>15. ASSUME AidSettled(e, TRUE), UNCHANGED <<guard, pending>>, eval[e].pc \in {"aid", "prompt"}
       PROVE  WillRequest(e)'
  <2>1. CASE Fail(e)
    BY <1>4, <1>15, <2>1
  <2>2. CASE ~eval[e].rerun /\ eval' = [eval EXCEPT ![e].pc = "commit", ![e].aidFailed = TRUE]
    <3>1. eval'[e].pc = "commit" /\ eval'[e].aidFailed
      BY <1>1, <2>2 DEF TypeOK, EvalType
    <3> QED BY <1>15, <2>2, <3>1 DEF WillRequest
  <2> QED BY <1>15, <2>1, <2>2 DEF AidSettled
<1>11. CASE RequestMutualAid(e)
  <2>1. ~Suppressed /\ UNCHANGED <<guard, pending>> /\ eval[e].pc = "aid"
    BY <1>11 DEF RequestMutualAid, Suppressed, ladder
  <2>2. CASE AidSettled(e, TRUE)
    BY <1>15, <2>1, <2>2
  <2>3. CASE Goto(e, "prompt") /\ aid' # "none"
    <3>1. eval'[e].pc = "prompt" /\ eval'[e].rerun = eval[e].rerun /\ eval'[e].due = eval[e].due
      BY <1>1, <2>3 DEF Goto, EvalType, TypeOK
    <3> QED BY <2>1, <2>3, <3>1 DEF WillRequest
  <2> QED BY <1>11, <2>1, <2>2, <2>3 DEF RequestMutualAid
<1>16. CASE PromptForTone(e)
  <2>1. /\ UNCHANGED <<guard, pending, aid>> /\ eval[e].pc = "prompt" /\ aid # "none"
    BY <1>16 DEF PromptForTone, WillRequest, ladder
  <2>2. PICK ok, marked \in SUBSET Officers :
          PromptOfficers(ok, marked) /\ AidSettled(e, ok # Officers \ prompts)
    BY <1>16 DEF PromptForTone
  <2>3. CASE ok = Officers \ prompts
    <3>1. heard' = Officers
      BY <2>2, <2>3 DEF PromptOfficers, MarkedAreHeard, TypeOK
    <3> QED BY <2>1, <3>1 DEF AidOwed
  <2>4. CASE ok # Officers \ prompts
    BY <1>15, <2>1, <2>2, <2>4
  <2> QED BY <2>3, <2>4
<1>12. CASE CommitFire(e) \/ CommitFireGuard(e)
  <2>1. guard[3] = "none" /\ eval[e].aidFailed
    BY <1>12 DEF CommitFire, CommitFireGuard, WillRequest
  <2>2. \/ WriteGuard(e, "fired") /\ Committed(e)
        \/ Goto(e, "commitGuard") /\ UNCHANGED guard
    BY <1>1, <1>12, <2>1 DEF CommitFire, CommitFireGuard, UpgradeFree, GuardFree
  <2>3. CASE WriteGuard(e, "fired") /\ Committed(e)
    <3>1. pending'[3] /\ Fail(e)
      BY <1>1, <2>1, <2>3 DEF WriteGuard, Committed
    <3> QED BY <1>3, <3>1 DEF WillRequest
  <2>4. CASE Goto(e, "commitGuard") /\ UNCHANGED guard
    BY <1>3, <2>1, <2>4 DEF WillRequest, Calls
  <2> QED BY <2>2, <2>3, <2>4
<1>13. CASE Throw(e)
  BY <1>4, <1>13 DEF Throw, Live, Calls, ladder
<1>14. ~(ReadTone3Guard(e) \/ WriteFiringMarker(e) \/ ClearPending(e)
         \/ CommitSkip(e) \/ CommitSkipGuard(e) \/ MarkMutualAidPending(e) \/ Return(e)
         \/ Deliver(e) \/ Advance(e))
  BY <1>1 DEF ReadTone3Guard, WriteFiringMarker, ClearPending, CommitSkip, CommitSkipGuard,
     MarkMutualAidPending, Return, Deliver, Advance, WillRequest
<1> QED BY <1>5, <1>6, <1>7, <1>8, <1>9, <1>10, <1>11, <1>12, <1>13, <1>14, <1>16 DEF Step

\* Mutual aid due keeps somebody who will request it.
LEMMA DueWillBeRequestedStep ==
  ASSUME IInv, OneDelivery, OfficersLeaveTone3, DueInv, [Next]_vars
  PROVE  DueWillBeRequested'
<1> USE DEF IInv, DueInv
<1>0. 3 \in Tones /\ \A e \in Timers3 : e \in Evals
  BY DEF Tones, Evals, Timers
<1> SUFFICES ASSUME marker'[3] = "due", metadata'.status # "HALTED_MANUAL", AidOwed'
             PROVE  \E e \in Timers3 : WillRequest(e)'
  BY DEF DueWillBeRequested
<1>1. metadata.status # "HALTED_MANUAL" /\ AidOwed
  BY HaltStays, OwedBefore
<1>2. CASE UNCHANGED <<eval, guard, pending, marker>>
  BY <1>1, <1>2, AidStays DEF DueWillBeRequested, WillRequest
<1>3. ASSUME NEW e \in Evals, Step(e) \/ Deliver(e) \/ Advance(e) \/ Throw(e)
      PROVE  \E f \in Timers3 : WillRequest(f)'
  <2>1. CASE marker[3] # "due"
    <3>1. WriteFiringMarker(e) /\ ToneOf(e) = 3 /\ eval[e].due
      BY <1>0, <1>3, <2>1, MarkerWritten
    <3>2. e \in Timers3
      BY <3>1 DEF OfficersLeaveTone3, TimersKeepTheirTone, Evals
    <3>3. ~eval[e].rerun /\ guard[3] = "none"
      BY <3>1, <3>2 DEF GuardedIsOver, WriteFiringMarker, EvalInv, LocalInv, Carries
    <3>4. eval' = [eval EXCEPT ![e].pc = "page"] /\ UNCHANGED guard
      BY <3>1 DEF WriteFiringMarker, Goto
    <3>5. eval'[e].pc = "page" /\ eval'[e].due /\ ~eval'[e].rerun
      BY <1>3, <3>1, <3>3, <3>4 DEF TypeOK, EvalType
    <3> QED BY <3>2, <3>3, <3>4, <3>5 DEF WillRequest
  <2>2. CASE marker[3] = "due"
    <3>1. PICK f \in Timers3 : WillRequest(f)
      BY <1>1, <2>2 DEF DueWillBeRequested
    <3>2. CASE f = e
      BY <1>1, <1>3, <2>2, <3>1, <3>2, WillRequestStep
    <3>3. CASE f # e
      <4>1. eval'[f] = eval[f] /\ ToneOf(e) # 3
        BY <1>0, <1>3, <3>3, OneMoves, OneActsOnTone3
      <4>2. guard'[3] = guard[3] /\ pending'[3] = pending[3]
        <5>1. ToneOf(e) \in Tones
          BY DEF TypeOK, EvalType, ToneOf
        <5>2. \/ UNCHANGED <<guard, pending>>
              \/ \E to, owed :
                    /\ guard' = [guard EXCEPT ![ToneOf(e)] = to] \/ UNCHANGED guard
                    /\ pending' = [pending EXCEPT ![ToneOf(e)] = owed]
          BY <1>3, GuardCases DEF EvalInv, WriteGuard, ClearPending, MarkMutualAidPending
        <5> QED BY <1>0, <4>1, <5>1, <5>2 DEF TypeOK
      <4> QED BY <3>1, <4>1, <4>2, AidStays DEF WillRequest
    <3> QED BY <3>2, <3>3
  <2> QED BY <2>1, <2>2
<1> QED BY <1>2, <1>3, NextCases, OutsideLeaves DEF vars, ladder

\* Under these premises the invariant of due mutual aid holds throughout.
LEMMA DueInvHolds ==
  ASSUME OneDelivery
  PROVE  Spec /\ []OfficersLeaveTone3 => []DueInv
<1>1. Init => DueInv
  BY DEF Init, DueInv, TimersKeepTheirTone, GuardedIsOver, MarkedAreHeard, DueWillBeRequested,
     IdleEval, ToneOf, Tones, Evals, Timers
<1>2. IInv /\ OfficersLeaveTone3 /\ DueInv /\ [Next]_vars => DueInv'
  BY TimersKeepStep, GuardedIsOverStep, MarkedAreHeardStep, DueWillBeRequestedStep
     DEF IInv, DueInv
<1> QED BY <1>1, <1>2, Inductive, PTL DEF Spec

\* Nobody owes anything any more when every invocation of tone 3 is done.
LEMMA NothingOwed ==
  ASSUME DueInv, marker[3] = "due", metadata.status # "HALTED_MANUAL", AllQuiet(3)
  PROVE  ~AidOwed
<1> SUFFICES ASSUME AidOwed PROVE FALSE
  OBVIOUS
<1>1. PICK e \in Timers3 : WillRequest(e)
  BY DEF DueInv, DueWillBeRequested
<1>2. eval[e].pc = "done"
  BY DEF DueInv, TimersKeepTheirTone, AllQuiet, Timers, Evals
<1> QED BY <1>1, <1>2 DEF WillRequest

\* requestTone3MutualAid and completePendingMutualAid: where tone 3 is fired by its schedule
\* alone, and that is delivered once, mutual aid found due when the fire started is requested or
\* an attempt fails loudly, unless the ladder was halted.
THEOREM DueMutualAidIsRequested ==
  ASSUME OneDelivery
  PROVE  Spec /\ []OfficersLeaveTone3 => []DueAidIsRequested
<1>1. DueInv => DueAidIsRequested
  BY NothingOwed DEF DueAidIsRequested, AidOwed
<1> QED BY <1>1, DueInvHolds, PTL

\* promptOfficer and the retries that come back to it: under the same premises, every officer's
\* prompt is published before the last attempt ends quietly, whatever failed in between.
THEOREM DueMutualAidReachesOfficers ==
  ASSUME OneDelivery
  PROVE  Spec /\ []OfficersLeaveTone3 => []DueAidReachesOfficers
<1>1. DueInv => DueAidReachesOfficers
  BY NothingOwed DEF DueAidReachesOfficers, AidOwed
<1> QED BY <1>1, DueInvHolds, PTL

-----------------------------------------------------------------------------
(* Who returns without an error has decided its tone: what remains of      *)
(* EveryToneIsDecided when fairness is taken away.                         *)

\* The tone is decided, or its ladder has ended.
Settled(t) == guard[t] # "none" \/ metadata.status # "ACTIVE"

\* What makes an invocation return without deciding its tone has settled it: a guard that
\* exists, prompts of a committed tone, a completed or a halted ladder.
ReturnsSettled(e) ==
    /\ eval[e].pc = "idle" => ~eval[e].completed /\ ~eval[e].rerun
    /\ eval[e].completed => metadata.status # "ACTIVE"
    /\ eval[e].pc \in {"pending", "clear"} \/ eval[e].rerun => guard[ToneOf(e)] # "none"
    /\ eval[e].pc \in {"return", "done"} => Settled(ToneOf(e))

PendingIsGuarded == \A t \in Tones : pending[t] => guard[t] # "none"

SettledInv == PendingIsGuarded /\ \A e \in Evals : ReturnsSettled(e)

\* An invocation that ended without an error leaves a tone with a guard, or a ladder that ended.
DoneIsDecided == \A e \in Evals : eval[e].pc = "done" => Settled(ToneOf(e))

\* A guard stays, whatever it says.
LEMMA GuardStays ==
  ASSUME TypeOK, EvalInv, [Next]_vars, NEW t \in Tones, guard[t] # "none"
  PROVE  guard'[t] # "none"
<1>1. ASSUME NEW e \in Evals, Step(e) \/ Deliver(e) \/ Advance(e) \/ Throw(e)
      PROVE  guard'[t] # "none"
  BY <1>1, GuardCases DEF EvalInv, WriteGuard, TypeOK
<1> QED BY <1>1, NextCases, OutsideLeaves DEF vars, ladder

\* What an invocation knows of a settled tone stays true while it waits.
LEMMA ReturnsStable ==
  ASSUME TypeOK, EvalInv, LadderAgreesWithGuards, [Next]_vars,
         NEW e \in Evals, ReturnsSettled(e), eval'[e] = eval[e]
  PROVE  ReturnsSettled(e)'
<1>1. ToneOf(e) \in Tones /\ ToneOf(e)' = ToneOf(e)
  BY DEF TypeOK, EvalType, ToneOf
<1>2. metadata.status # "ACTIVE" => metadata'.status # "ACTIVE"
  BY StillActive
<1> QED BY <1>1, <1>2, GuardStays DEF ReturnsSettled, Settled

\* An invocation's own step returns only for a settled tone.
LEMMA ReturnsStep ==
  ASSUME TypeOK, EvalInv, LadderAgreesWithGuards, [Next]_vars, PendingIsGuarded,
         NEW e \in Evals, ReturnsSettled(e), Step(e) \/ Deliver(e) \/ Advance(e) \/ Throw(e)
  PROVE  ReturnsSettled(e)'
<1> DEFINE t == ToneOf(e)
           Keeps == eval'[e].completed = eval[e].completed /\ eval'[e].rerun = eval[e].rerun
           Quiet == eval'[e].pc \notin {"idle", "pending", "clear", "return", "done"}
<1>0. t \in Tones /\ eval \in [Evals -> EvalType] /\ eval[e] \in EvalType
  BY DEF TypeOK, EvalType, ToneOf
<1>1. /\ metadata.status # "ACTIVE" => metadata'.status # "ACTIVE"
      /\ guard[t] # "none" => guard'[t] # "none"
  BY <1>0, StillActive, GuardStays
<1>2. Step(e) \/ Deliver(e) \/ Throw(e) => ToneOf(e)' = t
  BY ToneStays DEF ToneOf
<1>3. ASSUME Fail(e), ToneOf(e)' = t PROVE ReturnsSettled(e)'
  BY <1>0, <1>3 DEF Fail, Failed, IdleEval, ReturnsSettled
<1>4. ASSUME Keeps, Quiet, ToneOf(e)' = t PROVE ReturnsSettled(e)'
  BY <1>1, <1>4 DEF ReturnsSettled
<1>5. ASSUME NEW pc \in Calls, Goto(e, pc) PROVE Keeps /\ eval'[e].pc = pc
  BY <1>0, <1>5 DEF Goto, EvalType
<1>6. ASSUME NEW o \in Outcomes \cup {"none"}, Finish(e, o), Settled(t)', ToneOf(e)' = t
      PROVE  ReturnsSettled(e)'
  BY <1>0, <1>6 DEF Finish, IdleEval, ReturnsSettled
<1>7. ASSUME NEW failed \in BOOLEAN, AidSettled(e, failed), eval[e].pc \in Calls,
             ToneOf(e)' = t
      PROVE  ReturnsSettled(e)'
  <2>1. \/ Fail(e)
        \/ Keeps /\ Quiet
        \/ Keeps /\ eval[e].rerun /\ eval'[e].pc = "clear"
    BY <1>0, <1>5, <1>7 DEF AidSettled, EvalType, Calls
  <2> QED BY <1>1, <1>3, <1>4, <1>7, <2>1 DEF ReturnsSettled
<1>8. ASSUME AlreadyExists(e), guard[t] # "none", ToneOf(e)' = t PROVE ReturnsSettled(e)'
  <2>1. eval'[e].pc \in {"pending", "return"} /\ Keeps
    BY <1>0, <1>8 DEF AlreadyExists, Goto, EvalType
  <2> QED BY <1>1, <1>8, <2>1 DEF ReturnsSettled, Settled
<1>9. ASSUME Committed(e) \/ Goto(e, "return"), guard'[t] # "none", ToneOf(e)' = t
      PROVE  ReturnsSettled(e)'
  <2>1. Fail(e) \/ (eval'[e].pc = "return" /\ Keeps)
    BY <1>5, <1>9 DEF Committed, Calls
  <2> QED BY <1>1, <1>3, <1>9, <2>1 DEF ReturnsSettled, Settled
<1>10. CASE ReadMetadata(e)
  <2>1. CASE metadata.status = "HALTED_MANUAL"
    <3>1. Settled(t)' BY <1>1, <2>1 DEF Settled
    <3> QED BY <1>2, <1>6, <1>10, <2>1, <3>1 DEF ReadMetadata, Step, Outcomes
  <2>2. CASE metadata.status # "HALTED_MANUAL"
    <3>1. /\ eval'[e].pc = "guard" /\ eval'[e].completed = (metadata.status = "COMPLETED")
          /\ eval'[e].rerun = eval[e].rerun
      BY <1>0, <1>10, <2>2 DEF ReadMetadata, EvalType
    <3> QED BY <1>1, <1>2, <1>10, <3>1 DEF ReturnsSettled, Step
  <2> QED BY <2>1, <2>2
<1>11. CASE ReadGuard(e)
  <2>1. CASE RePrompts(e)
    <3>1. eval'[e].pc = "aid" /\ eval'[e].completed = eval[e].completed
      BY <1>0, <1>11, <2>1 DEF ReadGuard, EvalType
    <3>2. guard'[t] # "none"
      BY <1>0, <1>1, <2>1 DEF RePrompts, PendingIsGuarded
    <3> QED BY <1>1, <1>2, <1>11, <3>1, <3>2 DEF ReturnsSettled, Step
  <2>2. CASE ~RePrompts(e) /\ (eval[e].completed \/ AlreadyEvaluated(e))
    <3>1. Settled(t)'
      BY <1>1, <1>2, <1>11, <2>2 DEF AlreadyEvaluated, ReturnsSettled, Settled, Step
    <3> QED BY <1>2, <1>6, <1>11, <2>2, <3>1 DEF ReadGuard, Step, Outcomes
  <2>3. CASE Goto(e, "marker")
    BY <1>2, <1>4, <1>5, <1>11, <2>3 DEF Step, Calls
  <2> QED BY <1>11, <2>1, <2>2, <2>3 DEF ReadGuard
<1>12. CASE ReadMarker(e) \/ ReadRoster(e) \/ ReadTone3Guard(e)
  <2>1. Keeps /\ Quiet
    BY <1>0, <1>12 DEF ReadMarker, ReadRoster, ReadTone3Guard, EvalType
  <2> QED BY <1>2, <1>4, <1>12, <2>1 DEF Step
<1>13. ASSUME NEW m \in Members, PageMember(e, m) PROVE ReturnsSettled(e)'
  <2>1. Keeps /\ Quiet
    BY <1>0, <1>13 DEF PageMember, EvalType
  <2> QED BY <1>2, <1>4, <1>13, <2>1 DEF Step
<1>14. CASE WriteFiringMarker(e) \/ PagesSettled(e)
  <2>1. Fail(e) \/ (Keeps /\ Quiet)
    BY <1>5, <1>14 DEF WriteFiringMarker, PagesSettled, Calls
  <2> QED BY <1>2, <1>3, <1>4, <1>14, <2>1 DEF Step
<1>15. CASE RequestMutualAid(e) \/ PromptForTone(e)
  <2>1. eval[e].pc \in Calls BY <1>15 DEF RequestMutualAid, PromptForTone, Calls
  <2>2. Goto(e, "prompt") \/ \E failed \in BOOLEAN : AidSettled(e, failed)
    BY <1>15 DEF RequestMutualAid, PromptForTone
  <2>3. CASE Goto(e, "prompt") BY <1>2, <1>4, <1>5, <1>15, <2>3 DEF Step, Calls
  <2> QED BY <1>2, <1>7, <1>15, <2>1, <2>2, <2>3 DEF Step
<1>16. CASE ClearPending(e)
  <2>1. eval'[e].pc = "return" /\ Keeps
    BY <1>0, <1>16 DEF ClearPending, EvalType
  <2>2. guard[t] # "none"
    BY <1>16 DEF ClearPending, ReturnsSettled
  <2> QED BY <1>1, <1>2, <1>16, <2>1, <2>2 DEF ReturnsSettled, Settled, Step
<1>17. CASE CommitFire(e) \/ CommitFireGuard(e)
  <2>1. \/ Committed(e) /\ guard'[t] = "fired"
        \/ Goto(e, "commitGuard")
        \/ AlreadyExists(e) /\ guard[t] # "none"
    BY <1>0, <1>17 DEF CommitFire, CommitFireGuard, WriteGuard, UpgradeFree, GuardFree, TypeOK
  <2>2. CASE Goto(e, "commitGuard") BY <1>2, <1>4, <1>5, <1>17, <2>2 DEF Step, Calls
  <2> QED BY <1>2, <1>8, <1>9, <1>17, <2>1, <2>2 DEF Step
<1>18. CASE CommitSkip(e) \/ CommitSkipGuard(e)
  <2>1. \/ Goto(e, "return") /\ guard'[t] = "skipped"
        \/ Goto(e, "skipGuard")
        \/ AlreadyExists(e) /\ guard[t] # "none"
    BY <1>0, <1>18 DEF CommitSkip, CommitSkipGuard, WriteGuard, GuardFree, TypeOK
  <2>2. CASE Goto(e, "skipGuard") BY <1>2, <1>4, <1>5, <1>18, <2>2 DEF Step, Calls
  <2> QED BY <1>2, <1>8, <1>9, <1>18, <2>1, <2>2 DEF Step
<1>19. CASE MarkMutualAidPending(e) \/ Throw(e)
  BY <1>2, <1>3, <1>19 DEF MarkMutualAidPending, Throw, Step
<1>20. CASE Return(e)
  <2>1. Settled(t)' BY <1>1, <1>2, <1>20 DEF Return, ReturnsSettled, Settled, Step
  <2>2. eval[e].outcome \in Outcomes \cup {"none"} BY <1>0 DEF EvalType
  <2> QED BY <1>2, <1>6, <1>20, <2>1, <2>2 DEF Return, Step
<1>21. CASE Deliver(e)
  <2>1. Keeps /\ Quiet BY <1>0, <1>21 DEF Deliver, EvalType
  <2> QED BY <1>2, <1>4, <1>21, <2>1
<1>22. CASE Advance(e)
  <2>1. Keeps /\ Quiet /\ eval[e].pc = "idle" BY <1>0, <1>22 DEF Advance, EvalType
  <2> QED BY <2>1 DEF ReturnsSettled
<1> QED
  BY <1>10, <1>11, <1>12, <1>13, <1>14, <1>15, <1>16, <1>17, <1>18, <1>19, <1>20, <1>21, <1>22
     DEF Step

\* Prompts are left pending only of a tone that has its guard.
LEMMA PendingIsGuardedStep ==
  ASSUME TypeOK, EvalInv, SettledInv, [Next]_vars
  PROVE  PendingIsGuarded'
<1>0. \A e \in Evals : ToneOf(e) \in Tones
  BY DEF TypeOK, EvalType, ToneOf
<1>1. ASSUME NEW e \in Evals, Step(e) \/ Deliver(e) \/ Advance(e) \/ Throw(e),
             NEW t \in Tones, pending'[t], ~pending[t]
      PROVE  guard'[t] # "none"
  <2>1. MarkMutualAidPending(e) /\ t = ToneOf(e) => guard[t] # "none"
    BY DEF MarkMutualAidPending, SettledInv, ReturnsSettled
  <2> QED BY <1>0, <1>1, <2>1, GuardCases
          DEF EvalInv, WriteGuard, ClearPending, MarkMutualAidPending, TypeOK
<1> QED BY <1>1, GuardStays, NextCases, OutsideLeaves
        DEF vars, ladder, PendingIsGuarded, SettledInv

\* The evaluator's early returns and refused commits: whatever races with it, an invocation of a
\* schedule or an officer that ends without an error leaves its tone with a guard or its ladder
\* completed or halted, so a tone is left undecided only by a failure that is dead-lettered.
THEOREM NoToneIsLeftQuietly == Spec => []DoneIsDecided
<1>1. Init => SettledInv
  BY DEF Init, IdleEval, SettledInv, PendingIsGuarded, ReturnsSettled
<1>2. IInv /\ SettledInv /\ [Next]_vars => SettledInv'
  <2> SUFFICES ASSUME IInv, SettledInv, [Next]_vars PROVE SettledInv'
    OBVIOUS
  <2>0. TypeOK /\ EvalInv /\ LadderAgreesWithGuards /\ PendingIsGuarded
    BY DEF IInv, SettledInv
  <2>1. PendingIsGuarded'
    BY <2>0, PendingIsGuardedStep
  <2>2. ASSUME NEW f \in Evals PROVE ReturnsSettled(f)'
    <3>1. ReturnsSettled(f) BY DEF SettledInv
    <3>2. CASE eval'[f] = eval[f]
      BY <2>0, <3>1, <3>2, ReturnsStable
    <3>3. CASE eval'[f] # eval[f]
      <4>1. Step(f) \/ Deliver(f) \/ Advance(f) \/ Throw(f)
        BY <2>0, <3>3, NextCases, OutsideLeaves, OneMoves DEF vars
      <4> QED BY <2>0, <3>1, <4>1, ReturnsStep
    <3> QED BY <3>2, <3>3
  <2> QED BY <2>1, <2>2 DEF SettledInv
<1>3. SettledInv => DoneIsDecided
  BY DEF SettledInv, ReturnsSettled, DoneIsDecided
<1> QED BY <1>1, <1>2, <1>3, Inductive, PTL DEF Spec

=============================================================================
