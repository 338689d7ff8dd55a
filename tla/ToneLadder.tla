------------------------------ MODULE ToneLadder ------------------------------
(***************************************************************************)
(* The tone ladder of one real dispatch: tone 1 has been paged by the      *)
(* fan-out, tones 2 and 3 are evaluated by scheduled invocations of the    *)
(* Tone Evaluator (escalation/toneEvaluatorHandler.ts), an officer may     *)
(* advance or halt the ladder (ladderControls/), and tone 3 fired while    *)
(* too few members respond requests mutual aid (mutualAidPort.ts).         *)
(*                                                                         *)
(* Every invocation is a process whose program counter names its next call *)
(* to DynamoDB or SNS; each call is one atomic step and any invocation may *)
(* throw, time out or be redelivered between two of them.                  *)
(***************************************************************************)
EXTENDS Integers, FiniteSets

CONSTANTS
    Members,        \* eligible members with a push or SMS target
    Officers,       \* members with an officer role and a push target
    Timers2,        \* deliveries of the tone-2 schedule (at-least-once: maybe several)
    Timers3,        \* deliveries of the tone-3 schedule
    Advances,       \* officers' POST /tone-ladder/advance requests
    Halts,          \* officers' POST /tone-ladder/halt requests
    Triggers,       \* officers' POST /mutual-aid/trigger requests
    MinResponders,  \* the department's predicate: this many must be responding
    MaxAttempts,    \* attempts of one asynchronous invocation (2 retries deployed)
    MaxHaltReads,   \* haltHandler.ts MAX_ATTEMPTS
    MaxAnswers      \* bound on roster answers and changed answers

Timers == Timers2 \cup Timers3
Evals  == Timers \cup Advances

ASSUME LadderConstants ==
    /\ Officers \subseteq Members
    /\ Timers2 \cap Timers3 = {} /\ Timers \cap Advances = {}
    /\ MinResponders \in Nat /\ MaxAnswers \in Nat
    /\ MaxAttempts \in Nat \ {0} /\ MaxHaltReads \in Nat \ {0}

VARIABLES
    metadata,    \* METADATA: toneLadderStatus, currentToneSequence, nextToneAt, tone3At
    guard,       \* TONE#t: absent, or written with skipped = true / false
    pending,     \* TONE#t.mutualAidPending
    marker,      \* FIRING#TONE#t: absent, or its frozen mutualAidDue
    audit,       \* TONE_EVENT rows, each with its outbox row and the attempt that wrote it
    aid,         \* MUTUALAID#SINGLETON: absent, or its reason
    prompts,     \* officers whose prompt is marked sentAt
    heard,       \* history: officers whose prompt SNS has accepted, marked or not
    pages,       \* members whose page of tone t is marked sentAt
    responding,  \* members whose roster answer counts for the predicate
    answers,     \* how many answers have been given (bounded)
    eval,        \* the evaluator invocations
    halt,        \* the halt requests
    trigger      \* the mutual-aid trigger requests

ladder  == <<metadata, guard, pending, marker, audit>>
sends   == <<aid, prompts, heard, pages>>
roster  == <<responding, answers>>
vars    == <<ladder, sends, roster, eval, halt, trigger>>

Tones    == {2, 3}
Statuses == {"ACTIVE", "COMPLETED", "HALTED_MANUAL"}

\* What an invocation remembers between its calls.
IdleEval ==
    [pc |-> "idle", tone |-> 2, attempt |-> 0, completed |-> FALSE, resuming |-> FALSE,
     due |-> FALSE, next |-> 0, todo |-> {}, pageFailed |-> FALSE, aidFailed |-> FALSE,
     rerun |-> FALSE, outcome |-> "none"]

Outcomes == {"FIRED", "FIRED_MANUAL_OVERRIDE", "SKIPPED_PREDICATE_MET", "SKIPPED_ALREADY_FIRED",
             "SKIPPED_MANUALLY_HALTED", "SKIPPED_COMPLETED"}
FireOutcomes == {"FIRED", "FIRED_MANUAL_OVERRIDE"}

\* The calls of one invocation, by the call it makes next.
Calls == {"metadata", "guard", "marker", "roster", "tone3", "skip", "skipGuard", "mark", "page",
          "aid", "prompt", "commit", "commitGuard", "pending", "clear", "return"}

Live(e)    == eval[e].pc \in Calls
Manual(e)  == e \in Advances
ToneOf(e)  == eval[e].tone

Init ==
    /\ metadata = [status |-> "ACTIVE", current |-> 1, next |-> 0, timesRecorded |-> FALSE]
    /\ guard = [t \in Tones |-> "none"]
    /\ pending = [t \in Tones |-> FALSE]
    /\ marker = [t \in Tones |-> "none"]
    /\ audit = {}
    /\ aid = "none"
    /\ prompts = {} /\ heard = {}
    /\ pages = [t \in Tones |-> {}]
    /\ responding = {} /\ answers = 0
    /\ eval = [e \in Evals |-> [IdleEval EXCEPT !.tone = IF e \in Timers3 THEN 3 ELSE 2]]
    /\ halt = [h \in Halts |-> [pc |-> "idle", current |-> 1, tone |-> 0, reads |-> 0]]
    /\ trigger = [r \in Triggers |-> "idle"]

-----------------------------------------------------------------------------
(* The rest of the system, as far as the ladder sees it.                   *)

\* scheduleDepartmentToneLadder's last call: the display times, on a ladder that has not moved.
RecordToneTimes ==
    /\ ~metadata.timesRecorded
    /\ metadata.status = "ACTIVE" /\ metadata.current < 2
    /\ metadata' = [metadata EXCEPT !.next = 2, !.timesRecorded = TRUE]
    /\ UNCHANGED <<guard, pending, marker, audit, sends, roster, eval, halt, trigger>>

\* A member answers RESPONDING or DIRECT_TO_SCENE, or takes that answer back.
Answer(m) ==
    /\ answers < MaxAnswers
    /\ answers' = answers + 1
    /\ responding' = IF m \in responding THEN responding \ {m} ELSE responding \cup {m}
    /\ UNCHANGED <<ladder, sends, eval, halt, trigger>>

IsPredicateMet == Cardinality(responding) >= MinResponders

-----------------------------------------------------------------------------
(* One invocation of the Tone Evaluator.                                   *)

Goto(e, pc)      == eval' = [eval EXCEPT ![e].pc = pc]
Finish(e, o)     == eval' = [eval EXCEPT ![e] = [IdleEval EXCEPT
                                 !.pc = "done", !.tone = ToneOf(e), !.outcome = o]]

\* A throw. The asynchronous invocation of a schedule is retried; an officer's is answered.
FailedUnbounded(e) ==   \* mutant: retried for ever
    [IdleEval EXCEPT !.pc = "metadata", !.tone = ToneOf(e), !.attempt = eval[e].attempt + 1]
FailedQuietly(e) ==     \* mutant: a failed attempt is taken for a finished one
    [IdleEval EXCEPT !.pc = "done", !.tone = ToneOf(e), !.attempt = eval[e].attempt]
Failed(e) ==
    IF e \in Timers /\ eval[e].attempt < MaxAttempts
    THEN [IdleEval EXCEPT !.pc = "metadata", !.tone = ToneOf(e),
                          !.attempt = eval[e].attempt + 1]
    ELSE [IdleEval EXCEPT !.pc = "failed", !.tone = ToneOf(e),
                          !.attempt = eval[e].attempt]
Fail(e) == eval' = [eval EXCEPT ![e] = Failed(e)]

\* The schedule fires, or fires again for a delivery that is a duplicate of another.
Deliver(e) ==
    /\ e \in Timers /\ eval[e].pc = "idle"
    /\ eval' = [eval EXCEPT ![e].pc = "metadata", ![e].attempt = 1]
    /\ UNCHANGED <<ladder, sends, roster, halt, trigger>>

\* POST /tone-ladder/advance: the tone after the one the officer was shown, if it is current.
Advance(e) ==
    /\ e \in Advances /\ eval[e].pc = "idle"
    /\ metadata.status = "ACTIVE" /\ metadata.current < 3
    /\ eval' = [eval EXCEPT ![e].pc = "metadata", ![e].tone = metadata.current + 1,
                            ![e].attempt = 1]
    /\ UNCHANGED <<ladder, sends, roster, halt, trigger>>

ReadMetadata(e) ==
    /\ eval[e].pc = "metadata"
    /\ IF metadata.status = "HALTED_MANUAL"
       THEN Finish(e, "SKIPPED_MANUALLY_HALTED")
       ELSE eval' = [eval EXCEPT ![e].pc = "guard",
                                 ![e].completed = (metadata.status = "COMPLETED"),
                                 ![e].next = IF metadata.timesRecorded THEN 3 ELSE 0]
    /\ UNCHANGED <<ladder, sends, roster, halt, trigger>>

\* A committed tone whose prompts failed re-prompts, checked before COMPLETED because that
\* commit is what completed the ladder.
RePromptsUnlessCompleted(e) == pending[ToneOf(e)] /\ ~eval[e].completed   \* mutant: the other order
RePrompts(e) == pending[ToneOf(e)]

\* A fired tone is over; a skipped one may still be fired by an officer.
AnyGuardEnds(e) == guard[ToneOf(e)] # "none"   \* mutant: no upgrade of a skip
AlreadyEvaluated(e) ==
    guard[ToneOf(e)] = "fired" \/ (guard[ToneOf(e)] = "skipped" /\ ~Manual(e))

ReadGuard(e) ==
    /\ eval[e].pc = "guard"
    /\ IF RePrompts(e) THEN eval' = [eval EXCEPT ![e].pc = "aid", ![e].rerun = TRUE]
       ELSE IF eval[e].completed THEN Finish(e, "SKIPPED_COMPLETED")
       ELSE IF AlreadyEvaluated(e) THEN Finish(e, "SKIPPED_ALREADY_FIRED")
       ELSE Goto(e, "marker")
    /\ UNCHANGED <<ladder, sends, roster, halt, trigger>>

\* An earlier attempt left a marker: its retry finishes the fire instead of deciding again.
NeverResumes(e) == FALSE   \* mutant: the marker is not read
Resumes(e) == marker[ToneOf(e)] # "none"

ReadMarker(e) ==
    /\ eval[e].pc = "marker"
    /\ eval' = [eval EXCEPT ![e].pc = "roster",
                            ![e].resuming = Resumes(e),
                            ![e].due = (marker[ToneOf(e)] = "due")]
    /\ UNCHANGED <<ladder, sends, roster, halt, trigger>>

\* The roster decides whether to skip and whether mutual aid is due, unless a fire is resumed.
ReadRoster(e) ==
    /\ eval[e].pc = "roster"
    /\ LET skip == ~eval[e].resuming /\ IsPredicateMet /\ ~Manual(e)
           due  == IF eval[e].resuming THEN eval[e].due
                   ELSE ToneOf(e) = 3 /\ ~IsPredicateMet
       IN eval' = [eval EXCEPT
                     ![e].pc = IF ToneOf(e) = 2 THEN "tone3"
                               ELSE IF skip THEN "skip"
                               ELSE IF eval[e].resuming THEN "page" ELSE "mark",
                     ![e].outcome = IF Manual(e) THEN "FIRED_MANUAL_OVERRIDE"
                                    ELSE IF skip THEN "SKIPPED_PREDICATE_MET" ELSE "FIRED",
                     ![e].due = due,
                     ![e].next = IF ToneOf(e) = 2 THEN eval[e].next ELSE 0,
                     ![e].todo = Members]
    /\ UNCHANGED <<ladder, sends, roster, halt, trigger>>

\* Tone 2 only: what follows it, unless tone 3 has already been evaluated.
ReadTone3Guard(e) ==
    /\ eval[e].pc = "tone3"
    /\ eval' = [eval EXCEPT
                  ![e].pc = IF eval[e].outcome = "SKIPPED_PREDICATE_MET" THEN "skip"
                            ELSE IF eval[e].resuming THEN "page" ELSE "mark",
                  ![e].next = IF guard[3] # "none" THEN 0 ELSE eval[e].next]
    /\ UNCHANGED <<ladder, sends, roster, halt, trigger>>

\* writeFiringMarker: once; a twin that lost the race goes on with its own decision.
WriteFiringMarker(e) ==
    /\ eval[e].pc = "mark"
    /\ marker' = [marker EXCEPT ![ToneOf(e)] =
                    IF @ # "none" THEN @ ELSE IF eval[e].due THEN "due" ELSE "notDue"]
    /\ Goto(e, "page")
    /\ UNCHANGED <<metadata, guard, pending, audit, sends, roster, halt, trigger>>

\* fireToneForMember: a page marked sentAt is skipped, any other is published (again: the FIFO
\* deduplication id and the worker's send guard absorb a repeat) and then marked. The publish,
\* the mark and the roster seed may each fail; the other members are paged all the same.
PageMember(e, m) ==
    /\ eval[e].pc = "page" /\ m \in eval[e].todo
    /\ \E marked, failed \in BOOLEAN :
          /\ ~marked /\ m \notin pages[ToneOf(e)] => failed
          /\ pages' = IF marked THEN [pages EXCEPT ![ToneOf(e)] = @ \cup {m}] ELSE pages
          /\ eval' = [eval EXCEPT ![e].todo = @ \ {m}, ![e].pageFailed = @ \/ failed]
    /\ UNCHANGED <<ladder, aid, prompts, heard, roster, halt, trigger>>

\* fireTone has settled: mutual aid if due, then the paging failure is rethrown.
PagesSettledRegardless(e) ==   \* mutant: the paging failure is not rethrown
    /\ eval[e].pc = "page" /\ eval[e].todo = {}
    /\ IF eval[e].due THEN Goto(e, "aid") ELSE Goto(e, "commit")
    /\ UNCHANGED <<ladder, sends, roster, halt, trigger>>
PagesSettled(e) ==
    /\ eval[e].pc = "page" /\ eval[e].todo = {}
    /\ IF eval[e].due THEN Goto(e, "aid")
       ELSE IF eval[e].pageFailed THEN Fail(e) ELSE Goto(e, "commit")
    /\ UNCHANGED <<ladder, sends, roster, halt, trigger>>

-----------------------------------------------------------------------------
(* requestMutualAid, shared by tone 3 and by the officers' trigger.        *)

\* The singleton is written once; a halt suppresses only an automatic first request.
Suppressed == aid = "none" /\ metadata.status = "HALTED_MANUAL"

\* After the request, a re-run of the prompts clears the flag; a fire rethrows or commits.
AidSettled(e, failed) ==
    IF eval[e].rerun
    THEN IF failed THEN Fail(e) ELSE Goto(e, "clear")
    ELSE IF eval[e].pageFailed THEN Fail(e)
    ELSE eval' = [eval EXCEPT ![e].pc = "commit", ![e].aidFailed = failed]

RequestMutualAid(e) ==
    /\ eval[e].pc = "aid"
    /\ \/ /\ Suppressed
          /\ AidSettled(e, FALSE)
          /\ UNCHANGED aid
       \/ /\ ~Suppressed
          /\ aid' = IF aid = "none" THEN "TONE_3_PREDICATE_UNMET" ELSE aid
          /\ Goto(e, "prompt")
       \/ /\ AidSettled(e, TRUE)   \* the transaction failed for another reason
          /\ UNCHANGED aid
    /\ UNCHANGED <<ladder, prompts, heard, pages, roster, halt, trigger>>

\* Every officer not marked prompted is published to: `ok` were accepted, `marked` also noted.
ClaimIsTaken(ok, marked) ==   \* mutant: a claim counts as a prompt, published or not
    /\ ok \subseteq Officers \ prompts /\ marked \subseteq ok
    /\ prompts' = Officers
    /\ heard' = heard \cup ok
PromptOfficers(ok, marked) ==
    /\ ok \subseteq Officers \ prompts /\ marked \subseteq ok
    /\ prompts' = prompts \cup marked
    /\ heard' = heard \cup ok

PromptForTone(e) ==
    /\ eval[e].pc = "prompt"
    /\ \E ok, marked \in SUBSET Officers :
          /\ PromptOfficers(ok, marked)
          /\ AidSettled(e, ok # Officers \ prompts)
    /\ UNCHANGED <<ladder, aid, pages, roster, halt, trigger>>

\* completePendingMutualAid's last write.
ClearPending(e) ==
    /\ eval[e].pc = "clear"
    /\ pending' = [pending EXCEPT ![ToneOf(e)] = FALSE]
    /\ eval' = [eval EXCEPT ![e].pc = "return", ![e].outcome = "SKIPPED_ALREADY_FIRED"]
    /\ UNCHANGED <<metadata, guard, marker, audit, sends, roster, halt, trigger>>

\* POST /mutual-aid/trigger: allowed at any time, halted or not.
TriggerMutualAid(r) ==
    /\ trigger[r] = "idle"
    /\ aid' = IF aid = "none" THEN "MANUAL" ELSE aid
    /\ trigger' = [trigger EXCEPT ![r] = "prompt"]
    /\ UNCHANGED <<ladder, prompts, heard, pages, roster, eval, halt>>

PromptForTrigger(r) ==
    /\ trigger[r] = "prompt"
    /\ \E ok, marked \in SUBSET Officers :
          /\ PromptOfficers(ok, marked)
          /\ trigger' = [trigger EXCEPT ![r] = IF ok = Officers \ prompts
                                               THEN "done" ELSE "failed"]
    /\ UNCHANGED <<ladder, aid, pages, roster, eval, halt>>

-----------------------------------------------------------------------------
(* commitToneEvaluation: the guard, the audit and outbox rows and METADATA in one transaction;
   when only METADATA refuses, the first three in a second one.                *)

\* The guard may be claimed once; an officer's fire may also take over a skip.
GuardFree(e) == guard[ToneOf(e)] = "none"
ManualAlwaysFree(e) == GuardFree(e) \/ Manual(e)   \* mutant: an override ignores the guard
UpgradeFree(e) == GuardFree(e) \/ (Manual(e) /\ guard[ToneOf(e)] = "skipped")

FireAdvancesByOne(e) ==    \* mutant: only the very next tone advances the ladder
    metadata.current + 1 = ToneOf(e) /\ metadata.status = "ACTIVE"
FireAdvancesHalted(e) ==   \* mutant: the halt is not part of the condition
    metadata.current < ToneOf(e) /\ metadata.status # "COMPLETED"
FireAdvances(e) == metadata.current < ToneOf(e) /\ metadata.status = "ACTIVE"

WriteGuard(e, written) ==
    /\ guard' = [guard EXCEPT ![ToneOf(e)] = written]
    /\ pending' = [pending EXCEPT ![ToneOf(e)] = eval[e].aidFailed]
    /\ audit' = audit \cup {[tone |-> ToneOf(e), outcome |-> eval[e].outcome, by |-> e,
                           attempt |-> eval[e].attempt]}

\* What follows the commit: an unsent prompt is rethrown, a twin's guard is left marked pending.
CommittedQuietly(e) == Goto(e, "return")   \* mutant: the prompt failure is not rethrown
Committed(e) == IF eval[e].aidFailed THEN Fail(e) ELSE Goto(e, "return")
AlreadyExists(e) ==
    IF eval[e].aidFailed THEN Goto(e, "pending")
    ELSE eval' = [eval EXCEPT ![e].pc = "return", ![e].outcome = "SKIPPED_ALREADY_FIRED"]

CommitFire(e) ==
    /\ eval[e].pc = "commit"
    /\ \/ /\ UpgradeFree(e) /\ FireAdvances(e)
          /\ WriteGuard(e, "fired")
          /\ metadata' = [metadata EXCEPT !.current = ToneOf(e), !.next = eval[e].next,
                            !.status = IF ToneOf(e) = 3 THEN "COMPLETED" ELSE "ACTIVE"]
          /\ Committed(e)
       \/ /\ UpgradeFree(e) /\ ~FireAdvances(e)
          /\ Goto(e, "commitGuard")
          /\ UNCHANGED <<metadata, guard, pending, audit>>
       \/ /\ ~UpgradeFree(e)
          /\ AlreadyExists(e)
          /\ UNCHANGED <<metadata, guard, pending, audit>>
    /\ UNCHANGED <<marker, sends, roster, halt, trigger>>

CommitFireGuard(e) ==
    /\ eval[e].pc = "commitGuard"
    /\ \/ UpgradeFree(e) /\ WriteGuard(e, "fired") /\ Committed(e)
       \/ ~UpgradeFree(e) /\ AlreadyExists(e) /\ UNCHANGED <<guard, pending, audit>>
    /\ UNCHANGED <<metadata, marker, sends, roster, halt, trigger>>

\* A predicate-met skip claims the tone too, and moves only nextToneAt, on an active ladder.
CommitSkip(e) ==
    /\ eval[e].pc = "skip"
    /\ \/ /\ GuardFree(e) /\ metadata.status = "ACTIVE"
          /\ WriteGuard(e, "skipped")
          /\ metadata' = [metadata EXCEPT !.next = eval[e].next]
          /\ Goto(e, "return")
       \/ /\ GuardFree(e) /\ metadata.status # "ACTIVE"
          /\ Goto(e, "skipGuard")
          /\ UNCHANGED <<metadata, guard, pending, audit>>
       \/ /\ ~GuardFree(e)
          /\ AlreadyExists(e)
          /\ UNCHANGED <<metadata, guard, pending, audit>>
    /\ UNCHANGED <<marker, sends, roster, halt, trigger>>

CommitSkipGuard(e) ==
    /\ eval[e].pc = "skipGuard"
    /\ \/ GuardFree(e) /\ WriteGuard(e, "skipped") /\ Goto(e, "return")
       \/ ~GuardFree(e) /\ AlreadyExists(e) /\ UNCHANGED <<guard, pending, audit>>
    /\ UNCHANGED <<metadata, marker, sends, roster, halt, trigger>>

\* A twin committed first, without knowing this attempt's prompts failed.
MarkMutualAidPending(e) ==
    /\ eval[e].pc = "pending"
    /\ pending' = [pending EXCEPT ![ToneOf(e)] = TRUE]
    /\ Fail(e)
    /\ UNCHANGED <<metadata, guard, marker, audit, sends, roster, halt, trigger>>

Return(e) ==
    /\ eval[e].pc = "return"
    /\ Finish(e, eval[e].outcome)
    /\ UNCHANGED <<ladder, sends, roster, halt, trigger>>

\* Any call may throw and any invocation may be killed by its timeout between two calls.
Throw(e) ==
    /\ Live(e)
    /\ Fail(e)
    /\ UNCHANGED <<ladder, sends, roster, halt, trigger>>

-----------------------------------------------------------------------------
(* POST /tone-ladder/halt: read, find the tone suppressed, commit or read again. *)

HaltRead(h) ==
    /\ halt[h].pc = "idle" \/ halt[h].pc = "retry"
    /\ halt' = IF halt[h].reads = MaxHaltReads
                 \/ ~(metadata.status = "ACTIVE" /\ metadata.current < 3)
               THEN [halt EXCEPT ![h].pc = "done"]
               ELSE [halt EXCEPT ![h].pc = "find", ![h].current = metadata.current,
                                 ![h].reads = @ + 1]
    /\ UNCHANGED <<ladder, sends, roster, eval, trigger>>

\* The first later tone without a guard, 0 when both have one. Guards never disappear, so the
\* reads of the loop agree with the guards at the last of them.
FindSuppressedTone(h) ==
    /\ halt[h].pc = "find"
    /\ LET open == {t \in Tones : t > halt[h].current /\ guard[t] = "none"}
       IN halt' = [halt EXCEPT ![h].pc = "commit",
                     ![h].tone = IF 2 \in open THEN 2 ELSE IF 3 \in open THEN 3 ELSE 0]
    /\ UNCHANGED <<ladder, sends, roster, eval, trigger>>

AttemptHalt(h) ==
    /\ halt[h].pc = "commit"
    /\ IF /\ metadata.status = "ACTIVE" /\ metadata.current = halt[h].current
          /\ halt[h].tone # 0 => guard[halt[h].tone] = "none"
       THEN /\ metadata' = [metadata EXCEPT !.status = "HALTED_MANUAL", !.next = 0]
            /\ audit' = IF halt[h].tone = 0 THEN audit
                        ELSE audit \cup {[tone |-> halt[h].tone,
                                          outcome |-> "SKIPPED_MANUALLY_HALTED", by |-> h,
                                          attempt |-> 0]}
            /\ halt' = [halt EXCEPT ![h].pc = "halted"]
       ELSE /\ halt' = [halt EXCEPT ![h].pc = "retry"]
            /\ UNCHANGED <<metadata, audit>>
    /\ UNCHANGED <<guard, pending, marker, sends, roster, eval, trigger>>

-----------------------------------------------------------------------------
\* One call of an invocation that returned normally.
Step(e) ==
    \/ ReadMetadata(e) \/ ReadGuard(e) \/ ReadMarker(e) \/ ReadRoster(e) \/ ReadTone3Guard(e)
    \/ WriteFiringMarker(e) \/ (\E m \in Members : PageMember(e, m)) \/ PagesSettled(e)
    \/ RequestMutualAid(e) \/ PromptForTone(e) \/ ClearPending(e)
    \/ CommitFire(e) \/ CommitFireGuard(e) \/ CommitSkip(e) \/ CommitSkipGuard(e)
    \/ MarkMutualAidPending(e) \/ Return(e)

HaltStep(h) == HaltRead(h) \/ FindSuppressedTone(h) \/ AttemptHalt(h)

Next ==
    \/ RecordToneTimes
    \/ \E m \in Members : Answer(m)
    \/ \E e \in Evals : Deliver(e) \/ Advance(e) \/ Step(e) \/ Throw(e)
    \/ \E h \in Halts : HaltStep(h)
    \/ \E r \in Triggers : TriggerMutualAid(r) \/ PromptForTrigger(r)

Spec == Init /\ [][Next]_vars

\* Lambda runs an accepted invocation on, and the schedules are delivered.
Fairness ==
    /\ \A e \in Evals : WF_vars(Step(e))
    /\ \A e \in Timers : WF_vars(Deliver(e))

FairSpec == Spec /\ Fairness

-----------------------------------------------------------------------------
EvalType ==
    [pc : Calls \cup {"idle", "done", "failed"}, tone : Tones, attempt : 0 .. MaxAttempts,
     completed : BOOLEAN, resuming : BOOLEAN, due : BOOLEAN, next : {0, 3},
     todo : SUBSET Members, pageFailed : BOOLEAN, aidFailed : BOOLEAN, rerun : BOOLEAN,
     outcome : Outcomes \cup {"none"}]

MetadataType ==
    [status : Statuses, current : 1 .. 3, next : {0, 2, 3}, timesRecorded : BOOLEAN]
AuditType ==
    [tone : Tones, outcome : Outcomes, by : Evals \cup Halts, attempt : 0 .. MaxAttempts]
HaltType ==
    [pc : {"idle", "find", "commit", "retry", "halted", "done"}, current : 1 .. 3,
     tone : {0, 2, 3}, reads : 0 .. MaxHaltReads]

\* Every variable holds what the items, invocations and requests of the code can hold.
TypeOK ==
    /\ metadata \in MetadataType
    /\ guard \in [Tones -> {"none", "skipped", "fired"}]
    /\ pending \in [Tones -> BOOLEAN]
    /\ marker \in [Tones -> {"none", "due", "notDue"}]
    /\ audit \subseteq AuditType
    /\ aid \in {"none", "TONE_3_PREDICATE_UNMET", "MANUAL"}
    /\ prompts \in SUBSET Officers /\ heard \in SUBSET Officers
    /\ pages \in [Tones -> SUBSET Members]
    /\ responding \in SUBSET Members /\ answers \in 0 .. MaxAnswers
    /\ eval \in [Evals -> EvalType]
    /\ halt \in [Halts -> HaltType]
    /\ trigger \in [Triggers -> {"idle", "prompt", "done", "failed"}]

\* A tone is recorded as fired only after every member's page of that tone was published and
\* marked sent, whatever retries, twins and officers' advances did in between: the order
\* commitToneEvaluation's comment gives for writing the guard after fireTone.
FiredToneReachedEveryone ==
    \A t \in Tones : guard[t] = "fired" => Members \subseteq pages[t]

\* METADATA, the fire guards and the completed status tell one story: the current tone has a
\* fire guard, a fired tone is not ahead of the current one unless a halt froze the ladder,
\* and the ladder is completed exactly when tone 3 is the current tone.
LadderAgreesWithGuards ==
    /\ metadata.current > 1 => guard[metadata.current] = "fired"
    /\ \A t \in Tones : guard[t] = "fired" =>
          metadata.current >= t \/ metadata.status = "HALTED_MANUAL"
    /\ metadata.status = "COMPLETED" <=> metadata.current = 3

\* Whatever races, the audit and the bridge hold at most one fired event of a tone.
FiredOnce ==
    \A a, b \in audit : a.tone = b.tone /\ {a.outcome, b.outcome} \subseteq FireOutcomes => a = b

\* Once the ladder is completed or halted, no upcoming tone is shown to the officer.
NoNextToneOnAFinishedLadder == metadata.status # "ACTIVE" => metadata.next = 0

\* A halt is final for the ladder: METADATA never changes after it, whatever was in flight.
HaltFreezesLadder == [][metadata.status = "HALTED_MANUAL" => UNCHANGED metadata]_vars

\* Mutual aid left pending on a committed tone is never silent: an attempt at that tone will
\* still re-prompt, or one has failed (dead-lettered, or answered to the officer).
PendingPromptsHaveAnOwner ==
    \A t \in Tones : pending[t] =>
       \E e \in Evals : ToneOf(e) = t /\ (Live(e) \/ eval[e].pc = "failed")

\* The same, while the ladder is not halted.
PendingPromptsHaveAnOwnerUnlessHalted ==
    metadata.status # "HALTED_MANUAL" => PendingPromptsHaveAnOwner

\* An officer told that the advanced tone was sent, or had already fired, is told the truth:
\* every member's page of that tone went out.
OfficerIsToldTheTruth ==
    \A e \in Advances :
       eval[e].pc = "done" /\ eval[e].outcome \in {"FIRED_MANUAL_OVERRIDE", "SKIPPED_ALREADY_FIRED"}
         => Members \subseteq pages[ToneOf(e)]

\* No invocation of tone t is left to run, and none has reported a failure.
AllQuiet(t) == \A e \in Evals : ToneOf(e) = t => eval[e].pc = "done"

\* A fire that started, as its marker records, is finished or fails loudly while the ladder is
\* active: no retry may turn it into a quiet skip that leaves members unpaged.
StartedFireIsFinished ==
    \A t \in Tones :
       marker[t] # "none" /\ metadata.status = "ACTIVE" /\ AllQuiet(t) => guard[t] = "fired"

\* Mutual aid found due when tone 3 started firing is requested, unless the ladder was halted.
DueAidIsRequested ==
    marker[3] = "due" /\ metadata.status # "HALTED_MANUAL" /\ AllQuiet(3) => aid # "none"

\* And every officer is told of it: whatever of the request and the prompts failed or died half
\* way, and whoever of the attempts committed the tone, when no invocation of tone 3 is left to
\* run and none has failed loudly, each officer's prompt was published (promptOfficer's claim,
\* which alone proves nothing, and completePendingMutualAid).
DueAidReachesOfficers ==
    marker[3] = "due" /\ metadata.status # "HALTED_MANUAL" /\ AllQuiet(3) => heard = Officers

\* Every scheduled tone is eventually fired or skipped, or its ladder has ended, or an
\* invocation has failed for good (dead-lettered): a tone is never silently left undecided.
EveryToneIsDecided ==
    \A e \in Timers :
       <>(\/ guard[ToneOf(e)] # "none" \/ metadata.status # "ACTIVE"
          \/ eval[e].pc = "failed")

\* The ladder keeps its promise: a tone counts as paged once every member's page is marked
\* sent, and as fired once its guard says so.
Promise == INSTANCE LadderPromise WITH
    status <- metadata.status, current <- metadata.current,
    paged <- {t \in Tones : Members \subseteq pages[t]},
    fired <- {t \in Tones : guard[t] = "fired"}

\* Every step of the invocations, retries and officers' requests is a step of the promise or
\* changes nothing the promise speaks of.
KeepsPromise == Promise!PromiseSpec
=============================================================================
