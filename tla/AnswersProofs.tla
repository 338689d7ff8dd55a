--------------------------- MODULE AnswersProofs ---------------------------
(***************************************************************************)
(* For any members, answers, posts, escalations and faults: an answer is   *)
(* recorded once, as its author's; the roster never goes back, and what is *)
(* said of an answer is true of it; a row says escalation exactly when one *)
(* is recorded, and one is recorded only after it was published.  If at    *)
(* most one answer is given while the keychain cannot be read, a member's  *)
(* newest answer is never lost.  An escalation that is over has called its *)
(* member, unless the member answered, left, or every attempt failed.      *)
(***************************************************************************)
EXTENDS AnswerOutbox, FiniteSetTheorems, TLAPS

RosterRows == [answer : {NoRow, None} \cup Answers, tier : {"none", "primary", "escalation"}]

PostStates ==
    [pc : {"none", "sent", "write", "replay", "apply", "remember", "answered"},
     answer : {None} \cup Answers, sub : Members \cup {NoOne},
     outcome : {"none", "unauthorized", "ineligible", "unavailable"} \cup Outcomes]

CallPcs == {"none", "scheduled", "eligible", "publish", "record", "escalated", "skippedNotFound",
            "skippedAcked", "skippedInactive", "skippedAlready", "failed"}

OutboxRows == [status : {"absent", "QUEUED", "SYNCING", "REJECTED", "BACKOFF", "FAILED"},
               owner : Members \cup {NoOne}, hint : Members \cup {NoOne}]

DrainStates == [pc : {"idle", "next", "check", "claim", "post", "wait"},
                owner : Members \cup {NoOne}, pinned : BOOLEAN, attempted : SUBSET Answers,
                row : {None} \cup Answers, post : {None} \cup Posts]

PhoneTypeOK ==
    /\ session \in Members \cup {NoOne} /\ configured \in Members \cup {NoOne}
    /\ author \in [Answers -> Members \cup {NoOne}]
    /\ row \in [Answers -> OutboxRows]
    /\ drain \in DrainStates
    /\ told \in [Answers -> {"nothing", "ineligible"} \cup Outcomes]

\* What a post has passed says whose answer it carries, and that its guard is there.
PostShape(p) ==
    /\ post[p].pc # "none" => post[p].answer \in Answers
    /\ post[p].sub # NoOne => post[p].answer \in Answers
    /\ post[p].pc \in {"write", "replay", "apply", "remember"} => post[p].sub \in Members
    /\ post[p].pc \in {"replay", "apply", "remember"} =>
          guard[post[p].sub][post[p].answer] # "absent"
    /\ post[p].pc = "remember" => post[p].outcome \in Outcomes
    /\ post[p].outcome \in Outcomes => post[p].sub \in Members /\ post[p].answer \in Answers

\* A drain that is sending has a row, and one that waits has its post.
DrainShape ==
    /\ drain.pc # "idle" => drain.owner \in Members
    /\ drain.pc \in {"check", "claim", "post", "wait"} => drain.row \in Answers
    /\ drain.pc = "wait" => drain.post \in Posts

Typed ==
    /\ AnswersTypeOK /\ PhoneTypeOK
    /\ \A p \in Posts : PostShape(p)
    /\ DrainShape

-----------------------------------------------------------------------------
(* Types.                                                                  *)

LEMMA Distinct == /\ NoRow \notin Answers /\ None \notin Answers /\ NoRow # None
                  /\ \A a \in Answers : a \in Nat /\ a > None /\ a > NoRow
BY AnswersConstants DEF NoRow, None, Answers

\* Outcomes are no other state of a guard.
LEMMA OutcomesOfGuards == "absent" \notin Outcomes /\ "open" \notin Outcomes
BY DEF Outcomes

\* A post that goes on to its next call, or is answered, keeps the posts typed.
LEMMA PostTyped ==
  ASSUME AnswersTypeOK, NEW p \in Posts,
         NEW pc \in {"write", "replay", "apply", "remember"}, post' = [post EXCEPT ![p].pc = pc]
  PROVE  post' \in [Posts -> PostStates]
<1>1. post \in [Posts -> PostStates]
  BY DEF AnswersTypeOK, PostStates
<1> QED BY <1>1 DEF PostStates

LEMMA AnsweredTyped ==
  ASSUME AnswersTypeOK, NEW p \in Posts, NEW pc \in {"answered", "remember"},
         NEW outcome \in {"unauthorized", "ineligible", "unavailable"} \cup Outcomes,
         post' = [post EXCEPT ![p].pc = pc, ![p].outcome = outcome]
  PROVE  post' \in [Posts -> PostStates]
<1>1. post \in [Posts -> PostStates]
  BY DEF AnswersTypeOK, PostStates
<1> QED BY <1>1 DEF PostStates

\* A post's call keeps the server's variables typed.
LEMMA PostRunsTyped ==
  ASSUME Typed, NEW p \in Posts, PostRuns(p) \/ PostFails(p)
  PROVE  AnswersTypeOK'
<1>1. /\ AnswersTypeOK /\ PostShape(p) /\ post \in [Posts -> PostStates]
      /\ guard \in [Members -> [Answers -> {"absent", "open"} \cup Outcomes]]
      /\ roster \in [Members -> RosterRows]
      /\ post[p].outcome \in {"none", "unauthorized", "ineligible", "unavailable"} \cup Outcomes
  BY DEF Typed, AnswersTypeOK, PostStates, RosterRows
<1>2. CASE CheckMember(p)
  <2>1. post' \in [Posts -> PostStates]
    <3>1. CASE Answered(p, "unauthorized") \/ Answered(p, "ineligible")
      BY <1>1, <3>1, AnsweredTyped DEF Answered
    <3>2. CASE post' = [post EXCEPT ![p].pc = "write"]
      BY <1>1, <3>2, PostTyped
    <3> QED BY <1>2, <3>1, <3>2 DEF CheckMember
  <2> QED BY <1>1, <1>2, <2>1 DEF CheckMember, AnswersTypeOK, PostStates
<1>3. CASE WriteAnswer(p)
  <2>1. post[p].sub \in Members /\ post[p].answer \in Answers
    BY <1>1, <1>3 DEF WriteAnswer, PostShape
  <2>2. post' \in [Posts -> PostStates]
    <3>1. CASE post' = [post EXCEPT ![p].pc = "apply"]
      BY <1>1, <3>1, PostTyped
    <3>2. CASE post' = [post EXCEPT ![p].pc = "replay"]
      BY <1>1, <3>2, PostTyped
    <3> QED BY <1>3, <3>1, <3>2 DEF WriteAnswer
  <2>3. guard' \in [Members -> [Answers -> {"absent", "open"} \cup Outcomes]]
    <3>1. PICK m \in Members, a \in Answers : m = post[p].sub /\ a = post[p].answer
      BY <2>1
    <3>2. guard' = guard \/ guard' = [guard EXCEPT ![m][a] = "open"]
      BY <1>3, <3>1 DEF WriteAnswer
    <3> QED BY <1>1, <3>2
  <2>4. confirmed' \in [Answers -> Nat]
    <3>1. confirmed \in [Answers -> Nat]
      BY <1>1 DEF AnswersTypeOK
    <3>2. PICK a \in Answers : a = post[p].answer
      BY <2>1
    <3>3. confirmed' = confirmed \/ confirmed' = [confirmed EXCEPT ![a] = @ + 1]
      BY <1>3, <3>2 DEF WriteAnswer
    <3> QED BY <3>1, <3>3
  <2> QED BY <1>1, <1>3, <2>2, <2>3, <2>4 DEF WriteAnswer, AnswersTypeOK, PostStates
<1>4. CASE ReadGuard(p)
  <2>1. PICK known : known = guard[post[p].sub][post[p].answer]
    OBVIOUS
  <2>2. known \in {"open"} \cup Outcomes
    BY <1>1, <1>4, <2>1 DEF ReadGuard, PostShape
  <2>3. post' \in [Posts -> PostStates]
    <3>1. CASE post' = [post EXCEPT ![p].pc = "apply"]
      BY <1>1, <3>1, PostTyped
    <3>2. CASE known # "open" /\ Answered(p, known)
      BY <1>1, <2>2, <3>2, AnsweredTyped DEF Answered
    <3> QED BY <1>4, <2>1, <3>1, <3>2 DEF ReadGuard, Reapplied
  <2> QED BY <1>1, <1>4, <2>3 DEF ReadGuard, AnswersTypeOK, PostStates
<1>5. CASE ApplyToRoster(p)
  <2>1. post[p].sub \in Members /\ post[p].answer \in Answers
    BY <1>1, <1>5 DEF ApplyToRoster, PostShape
  <2>2. post' \in [Posts -> PostStates]
    <3>1. PICK outcome \in Outcomes :
             post' = [post EXCEPT ![p].pc = "remember", ![p].outcome = outcome]
      BY <1>5 DEF ApplyToRoster, Outcomes
    <3> QED BY <1>1, <3>1, AnsweredTyped
  <2>3. roster' \in [Members -> RosterRows]
    <3>1. Tiered(roster[post[p].sub].tier) \in {"none", "primary", "escalation"}
      BY <1>1, <2>1 DEF Tiered, RosterRows
    <3>2. [answer |-> post[p].answer, tier |-> Tiered(roster[post[p].sub].tier)] \in RosterRows
      BY <2>1, <3>1 DEF RosterRows
    <3>3. PICK r \in RosterRows :
             r = [answer |-> post[p].answer, tier |-> Tiered(roster[post[p].sub].tier)]
      BY <3>2
    <3>4. roster' = roster \/ roster' = [roster EXCEPT ![post[p].sub] = r]
      BY <1>5, <3>3 DEF ApplyToRoster
    <3> QED BY <1>1, <3>4
  <2> QED BY <1>1, <1>5, <2>2, <2>3 DEF ApplyToRoster, AnswersTypeOK, PostStates, RosterRows
<1>6. CASE RecordGuardOutcome(p)
  <2>1. /\ post[p].outcome \in Outcomes /\ post[p].sub \in Members /\ post[p].answer \in Answers
    BY <1>1, <1>6 DEF RecordGuardOutcome, PostShape
  <2>2. post' \in [Posts -> PostStates]
    <3>1. PICK outcome \in Outcomes :
             post' = [post EXCEPT ![p].pc = "answered", ![p].outcome = outcome]
      BY <1>6, <2>1 DEF RecordGuardOutcome, Answered
    <3> QED BY <1>1, <3>1, AnsweredTyped
  <2>3. guard' \in [Members -> [Answers -> {"absent", "open"} \cup Outcomes]]
    <3>1. PICK m \in Members, a \in Answers, outcome \in Outcomes :
             m = post[p].sub /\ a = post[p].answer /\ outcome = post[p].outcome
      BY <2>1
    <3>2. guard' = guard \/ guard' = [guard EXCEPT ![m][a] = outcome]
      BY <1>6, <3>1 DEF RecordGuardOutcome
    <3> QED BY <1>1, <3>2
  <2>4. failures' \in 0..MaxFailures
    BY <1>1, <1>6, AnswersConstants DEF RecordGuardOutcome, AnswersTypeOK
  <2> QED BY <1>1, <1>6, <2>2, <2>3, <2>4 DEF RecordGuardOutcome, AnswersTypeOK, PostStates
<1>7. CASE PostFails(p)
  <2>1. post' \in [Posts -> PostStates]
    BY <1>1, <1>7, AnsweredTyped DEF PostFails, Answered
  <2>2. failures' \in 0..MaxFailures
    BY <1>1, <1>7, AnswersConstants DEF PostFails, AnswersTypeOK
  <2> QED BY <1>1, <1>7, <2>1, <2>2 DEF PostFails, AnswersTypeOK, PostStates
<1> QED BY <1>2, <1>3, <1>4, <1>5, <1>6, <1>7 DEF PostRuns

\* What the server's steps never take back: the answer on a row, and a guard.
RosterGrows == \A m \in Members : roster[m].answer <= roster'[m].answer
GuardsStay ==
    \A m \in Members, a \in Answers : guard[m][a] # "absent" => guard'[m][a] # "absent"

\* An answer is put on a row only if none given later is there.
LEMMA ApplyGrows ==
  ASSUME Typed, NEW p \in Posts, ApplyToRoster(p)
  PROVE  /\ RosterGrows
         /\ \/ /\ post'[p].outcome = "applied"
               /\ roster'[post[p].sub].answer = post[p].answer
            \/ /\ post'[p].outcome = "superseded"
               /\ roster' = roster
               /\ roster[post[p].sub].answer > post[p].answer
<1>1. /\ post \in [Posts -> PostStates] /\ roster \in [Members -> RosterRows]
      /\ post[p].sub \in Members /\ post[p].answer \in Answers
  BY DEF Typed, AnswersTypeOK, PostStates, RosterRows, ApplyToRoster, PostShape
<1>2. PICK m \in Members, a \in Answers : m = post[p].sub /\ a = post[p].answer
  BY <1>1
<1>3. \A n \in Members : roster[n].answer \in Int
  BY <1>1, Distinct DEF RosterRows, NoRow, None
<1>4. a \in Int
  BY Distinct
<1>5. CASE IsCurrent(roster[m].answer, a)
  <2>1. PICK r : r = [answer |-> a, tier |-> Tiered(roster[m].tier)]
    OBVIOUS
  <2>2. roster' = [roster EXCEPT ![m] = r]
    BY <1>2, <1>5, <2>1 DEF ApplyToRoster
  <2>3. roster'[m].answer = a /\ \A n \in Members \ {m} : roster'[n] = roster[n]
    BY <1>1, <2>1, <2>2
  <2>4. RosterGrows
    BY <1>3, <1>4, <1>5, <2>3 DEF RosterGrows, IsCurrent
  <2>5. post'[p].outcome = "applied"
    BY <1>1, <1>2, <1>5 DEF ApplyToRoster, PostStates
  <2> QED BY <1>2, <2>3, <2>4, <2>5
<1>6. CASE ~IsCurrent(roster[m].answer, a)
  <2>1. roster' = roster /\ roster[m].answer > a
    BY <1>2, <1>3, <1>4, <1>6 DEF ApplyToRoster, IsCurrent
  <2>2. post'[p].outcome = "superseded"
    BY <1>1, <1>2, <1>6 DEF ApplyToRoster, PostStates
  <2>3. RosterGrows
    BY <1>3, <2>1 DEF RosterGrows
  <2> QED BY <1>2, <2>1, <2>2, <2>3
<1> QED BY <1>5, <1>6

\* A post's call moves no other post, keeps its own answer and member, and no guard goes.
LEMMA PostRunsFrame ==
  ASSUME Typed, NEW p \in Posts, PostRuns(p) \/ PostFails(p)
  PROVE  /\ \A q \in Posts \ {p} : post'[q] = post[q]
         /\ post'[p].answer = post[p].answer
         /\ post'[p].sub = post[p].sub
         /\ post[p].pc # "none"
         /\ GuardsStay
         /\ RosterGrows
<1>1. /\ post \in [Posts -> PostStates]
      /\ guard \in [Members -> [Answers -> {"absent", "open"} \cup Outcomes]]
      /\ roster \in [Members -> RosterRows]
      /\ PostShape(p)
  BY DEF Typed, AnswersTypeOK, PostStates, RosterRows
<1>2. \A n \in Members : roster[n].answer \in Int
  BY <1>1, Distinct DEF RosterRows, NoRow, None
<1>3. \A q \in Posts \ {p} : post'[q] = post[q]
  BY <1>1 DEF PostRuns, CheckMember, WriteAnswer, ReadGuard, ApplyToRoster, RecordGuardOutcome,
              PostFails, Answered
<1>4. post'[p].answer = post[p].answer /\ post'[p].sub = post[p].sub /\ post[p].pc # "none"
  BY <1>1 DEF PostRuns, CheckMember, WriteAnswer, ReadGuard, ApplyToRoster, RecordGuardOutcome,
              PostFails, Answered, PostStates
<1>5. GuardsStay
  <2>1. CASE WriteAnswer(p)
    <3>1. PICK m \in Members, a \in Answers : m = post[p].sub /\ a = post[p].answer
      BY <1>1, <2>1 DEF WriteAnswer, PostShape
    <3>2. guard' = guard \/ guard' = [guard EXCEPT ![m][a] = "open"]
      BY <2>1, <3>1 DEF WriteAnswer
    <3> QED BY <1>1, <3>2 DEF GuardsStay
  <2>2. CASE RecordGuardOutcome(p)
    <3>1. PICK m \in Members, a \in Answers, outcome \in Outcomes :
             m = post[p].sub /\ a = post[p].answer /\ outcome = post[p].outcome
      BY <1>1, <2>2 DEF RecordGuardOutcome, PostShape
    <3>2. guard' = guard \/ guard' = [guard EXCEPT ![m][a] = outcome]
      BY <2>2, <3>1 DEF RecordGuardOutcome
    <3> QED BY <1>1, <3>1, <3>2, OutcomesOfGuards DEF GuardsStay
  <2>3. CASE UNCHANGED guard
    BY <2>3 DEF GuardsStay
  <2> QED BY <2>1, <2>2, <2>3
          DEF PostRuns, CheckMember, ReadGuard, ApplyToRoster, PostFails
<1>6. RosterGrows
  <2>1. CASE UNCHANGED roster
    BY <1>2, <2>1 DEF RosterGrows
  <2> QED BY <2>1, ApplyGrows
          DEF PostRuns, CheckMember, WriteAnswer, ReadGuard, RecordGuardOutcome, PostFails
<1> QED BY <1>3, <1>4, <1>5, <1>6

\* A post that does not move keeps its shape while guards stay.
LEMMA ShapeFrame ==
  ASSUME Typed, GuardsStay, NEW p \in Posts, post'[p] = post[p]
  PROVE  PostShape(p)'
<1>1. PostShape(p)
  BY DEF Typed
<1> QED BY <1>1 DEF PostShape, GuardsStay

\* A post's call keeps the shape of every post.
LEMMA PostRunsShape ==
  ASSUME Typed, NEW p \in Posts, PostRuns(p) \/ PostFails(p)
  PROVE  \A q \in Posts : PostShape(q)'
<1>1. /\ post \in [Posts -> PostStates] /\ PostShape(p)
      /\ guard \in [Members -> [Answers -> {"absent", "open"} \cup Outcomes]]
  BY DEF Typed, AnswersTypeOK, PostStates
<1>2. /\ post'[p].answer = post[p].answer /\ post'[p].sub = post[p].sub
      /\ GuardsStay /\ \A q \in Posts \ {p} : post'[q] = post[q]
      /\ post[p].answer \in Answers
  BY <1>1, PostRunsFrame DEF PostShape
<1>3. CASE CheckMember(p)
  <2>1. \/ post'[p].pc = "answered" /\ post'[p].outcome \in {"unauthorized", "ineligible"}
        \/ post'[p].pc = "write" /\ post'[p].outcome = post[p].outcome /\ post[p].sub \in Members
    <3>1. active \subseteq Members
      BY DEF Typed, AnswersTypeOK
    <3> QED BY <1>1, <1>3, <3>1 DEF CheckMember, Answered, PostStates
  <2> QED BY <1>1, <1>2, <2>1, ShapeFrame DEF PostShape, Outcomes
<1>4. CASE WriteAnswer(p)
  <2>1. PICK m \in Members, a \in Answers : m = post[p].sub /\ a = post[p].answer
    BY <1>1, <1>4 DEF WriteAnswer, PostShape
  <2>2. post'[p].pc \in {"apply", "replay"} /\ post'[p].outcome = post[p].outcome
    BY <1>1, <1>4 DEF WriteAnswer, PostStates
  <2>3. guard'[m][a] # "absent"
    <3>1. CASE GuardIsFree(m, a)
      <4>1. guard' = [guard EXCEPT ![m][a] = "open"]
        BY <1>4, <2>1, <3>1 DEF WriteAnswer
      <4> QED BY <1>1, <4>1
    <3>2. CASE ~GuardIsFree(m, a)
      BY <1>4, <2>1, <3>2 DEF WriteAnswer, GuardIsFree
    <3> QED BY <3>1, <3>2
  <2> QED BY <1>1, <1>2, <2>1, <2>2, <2>3, ShapeFrame DEF PostShape
<1>5. CASE ReadGuard(p)
  <2>1. PICK known : known = guard[post[p].sub][post[p].answer]
    OBVIOUS
  <2>2. known \in {"open"} \cup Outcomes
    BY <1>1, <1>5, <2>1 DEF ReadGuard, PostShape
  <2>3. \/ post'[p].pc = "apply" /\ post'[p].outcome = post[p].outcome
        \/ post'[p].pc = "answered" /\ post'[p].outcome = known
    BY <1>1, <1>5, <2>1 DEF ReadGuard, Answered, PostStates
  <2>4. UNCHANGED guard /\ post[p].sub \in Members
    BY <1>1, <1>5 DEF ReadGuard, PostShape
  <2>5. guard'[post'[p].sub][post'[p].answer] # "absent"
    BY <1>2, <2>1, <2>2, <2>4, OutcomesOfGuards
  <2> QED BY <1>1, <1>2, <2>3, <2>4, <2>5, ShapeFrame DEF PostShape
<1>6. CASE ApplyToRoster(p)
  <2>1. post'[p].pc = "remember" /\ post'[p].outcome \in Outcomes /\ UNCHANGED guard
    BY <1>1, <1>6 DEF ApplyToRoster, PostStates, Outcomes
  <2>2. post[p].sub \in Members /\ guard[post[p].sub][post[p].answer] # "absent"
    BY <1>1, <1>6 DEF ApplyToRoster, PostShape
  <2> QED BY <1>1, <1>2, <2>1, <2>2, ShapeFrame DEF PostShape
<1>7. CASE RecordGuardOutcome(p)
  <2>1. post'[p].pc = "answered" /\ post[p].sub \in Members
    BY <1>1, <1>7 DEF RecordGuardOutcome, Answered, PostShape, PostStates
  <2> QED BY <1>1, <1>2, <2>1, ShapeFrame DEF PostShape
<1>8. CASE PostFails(p)
  <2>1. post'[p].pc = "answered" /\ post'[p].outcome = "unavailable"
    BY <1>1, <1>8 DEF PostFails, Answered, PostStates
  <2> QED BY <1>1, <1>2, <2>1, ShapeFrame DEF PostShape, Outcomes
<1> QED BY <1>3, <1>4, <1>5, <1>6, <1>7, <1>8 DEF PostRuns

\* The escalation's steps and the fan-out's.
CallStep(c) == ScheduleEscalation(c) \/ CallRuns(c) \/ CallFails(c)

\* A member's row as the fan-out seeds it or the escalation marks it.
LEMMA CallRosterKept ==
  ASSUME Typed, NEW c \in Calls, CallStep(c)
  PROVE  /\ roster' \in [Members -> RosterRows]
         /\ RosterGrows
<1>1. roster \in [Members -> RosterRows] /\ Callee[c] \in Members
  BY AnswersConstants DEF Typed, AnswersTypeOK, RosterRows
<1>2. \A n \in Members : roster[n].answer \in Int
  BY <1>1, Distinct DEF RosterRows, NoRow, None
<1>3. PICK m \in Members : m = Callee[c]
  BY <1>1
<1>4. CASE ScheduleEscalation(c)
  <2>1. PICK r : r = Seeded(roster[m])
    OBVIOUS
  <2>2. r \in RosterRows
    <3>1. r.answer \in {NoRow, None} \cup Answers /\ r.tier \in {"none", "primary", "escalation"}
      BY <1>1, <2>1 DEF Seeded, Tiered, RosterRows
    <3>2. r = [answer |-> r.answer, tier |-> r.tier]
      BY <2>1 DEF Seeded
    <3> QED BY <3>1, <3>2 DEF RosterRows
  <2>3. r.answer >= roster[m].answer
    BY <1>1, <1>2, <2>1 DEF Seeded, RosterRows, NoRow, None
  <2>4. roster' = [roster EXCEPT ![m] = r]
    BY <1>3, <1>4, <2>1 DEF ScheduleEscalation
  <2>5. roster' \in [Members -> RosterRows]
    BY <1>1, <2>2, <2>4
  <2>6. RosterGrows
    BY <1>1, <1>2, <2>3, <2>4 DEF RosterGrows
  <2> QED BY <2>5, <2>6
<1>5. CASE RecordEscalation(c)
  <2>1. roster' = roster \/ roster' = [roster EXCEPT ![m].tier = "escalation"]
    BY <1>3, <1>5 DEF RecordEscalation
  <2>2. roster' \in [Members -> RosterRows]
    BY <1>1, <2>1 DEF RosterRows
  <2>3. \A n \in Members : roster'[n].answer = roster[n].answer
    BY <1>1, <2>1 DEF RosterRows
  <2> QED BY <1>2, <2>2, <2>3 DEF RosterGrows
<1>6. CASE UNCHANGED roster
  BY <1>1, <1>2, <1>6 DEF RosterGrows
<1> QED BY <1>4, <1>5, <1>6
        DEF CallStep, CallRuns, ReadRoster, IsInactive, PublishEscalation, CallFails

\* An escalation's step keeps the server's variables typed, and its posts and guards as they are.
LEMMA CallsTyped ==
  ASSUME Typed, NEW c \in Calls, CallStep(c)
  PROVE  AnswersTypeOK' /\ UNCHANGED <<guard, confirmed, post, active>>
<1>1. /\ AnswersTypeOK /\ call \in [Calls -> [pc : CallPcs, attempt : 1..MaxAttempts]]
      /\ Callee[c] \in Members
  BY AnswersConstants DEF Typed, AnswersTypeOK, CallPcs
<1>2. ASSUME NEW pc \in CallPcs, CallAt(c, pc)
      PROVE  call' \in [Calls -> [pc : CallPcs, attempt : 1..MaxAttempts]]
  BY <1>1, <1>2 DEF CallAt
<1>3. call' \in [Calls -> [pc : CallPcs, attempt : 1..MaxAttempts]]
  <2>1. CASE ScheduleEscalation(c)
    BY <1>1, <2>1 DEF ScheduleEscalation, CallPcs
  <2>2. CASE ReadRoster(c)
    <3>1. PICK pc \in CallPcs : CallAt(c, pc)
      BY <2>2 DEF ReadRoster, CallPcs
    <3> QED BY <1>2, <3>1
  <2>3. CASE IsInactive(c)
    <3>1. PICK pc \in CallPcs : CallAt(c, pc)
      BY <2>3 DEF IsInactive, CallPcs
    <3> QED BY <1>2, <3>1
  <2>4. CASE PublishEscalation(c)
    <3>1. PICK pc \in CallPcs : CallAt(c, pc)
      BY <2>4 DEF PublishEscalation, CallPcs
    <3> QED BY <1>2, <3>1
  <2>5. CASE RecordEscalation(c)
    <3>1. PICK pc \in CallPcs : CallAt(c, pc)
      BY <2>5 DEF RecordEscalation, CallPcs
    <3> QED BY <1>2, <3>1
  <2>6. CASE CallFails(c)
    <3>1. CASE Retried(call[c].attempt)
      <4>1. call[c].attempt + 1 \in 1..MaxAttempts
        BY <1>1, <3>1, AnswersConstants DEF Retried
      <4>2. PICK r : r = [pc |-> "scheduled", attempt |-> call[c].attempt + 1]
        OBVIOUS
      <4>3. r \in [pc : CallPcs, attempt : 1..MaxAttempts]
        BY <4>1, <4>2 DEF CallPcs
      <4>4. call' = [call EXCEPT ![c] = r]
        BY <2>6, <3>1, <4>2 DEF CallFails
      <4> QED BY <1>1, <4>3, <4>4
    <3>2. CASE ~Retried(call[c].attempt)
      <4>1. call' = [call EXCEPT ![c].pc = "failed"]
        BY <2>6, <3>2 DEF CallFails
      <4> QED BY <1>1, <4>1 DEF CallPcs
    <3> QED BY <3>1, <3>2
  <2> QED BY <2>1, <2>2, <2>3, <2>4, <2>5, <2>6 DEF CallStep, CallRuns
<1>4. failures' \in 0..MaxFailures
  BY <1>1, AnswersConstants
     DEF AnswersTypeOK, CallStep, CallRuns, ScheduleEscalation, ReadRoster, IsInactive,
         PublishEscalation, RecordEscalation, CallFails
<1>5. published' \subseteq Members /\ escalated' \subseteq Members
  BY <1>1 DEF AnswersTypeOK, CallStep, CallRuns, ScheduleEscalation, ReadRoster, IsInactive,
              PublishEscalation, RecordEscalation, CallFails
<1>6. UNCHANGED <<guard, confirmed, post, active>>
  BY DEF CallStep, CallRuns, ScheduleEscalation, ReadRoster, IsInactive,
         PublishEscalation, RecordEscalation, CallFails
<1>7. roster' \in [Members -> RosterRows]
  BY CallRosterKept
<1> QED BY <1>1, <1>3, <1>4, <1>5, <1>6, <1>7 DEF AnswersTypeOK, CallPcs, RosterRows

\* The server's steps: types, shapes and what they do not take back.
LEMMA ServerTyped ==
  ASSUME Typed, RosterStep
  PROVE  /\ AnswersTypeOK'
         /\ \A p \in Posts : PostShape(p)'
         /\ RosterGrows /\ GuardsStay
         /\ \A p \in Posts : /\ post'[p].answer = post[p].answer
                             /\ post'[p].sub = post[p].sub
<1>1. CASE \E p \in Posts : PostRuns(p) \/ PostFails(p)
  <2>1. PICK p \in Posts : PostRuns(p) \/ PostFails(p)
    BY <1>1
  <2>2. AnswersTypeOK'
    BY <2>1, PostRunsTyped
  <2>3. /\ \A q \in Posts \ {p} : post'[q] = post[q]
        /\ post'[p].answer = post[p].answer /\ post'[p].sub = post[p].sub
        /\ GuardsStay /\ RosterGrows
    BY <2>1, PostRunsFrame
  <2>4. \A q \in Posts : PostShape(q)'
    BY <2>1, PostRunsShape
  <2> QED BY <2>2, <2>3, <2>4
<1>2. CASE \E m \in Members : Leave(m)
  <2>1. UNCHANGED <<roster, guard, confirmed, post, failures, call, published, escalated>>
        /\ active' \subseteq active
    BY <1>2 DEF Leave
  <2>2. AnswersTypeOK'
    BY <2>1 DEF Typed, AnswersTypeOK
  <2>3. GuardsStay
    BY <2>1 DEF GuardsStay
  <2>4. RosterGrows
    BY <2>1, Distinct DEF Typed, AnswersTypeOK, RosterGrows, NoRow, None
  <2> QED BY <2>1, <2>2, <2>3, <2>4, ShapeFrame
<1>3. CASE \E c \in Calls : CallStep(c)
  <2>1. PICK c \in Calls : CallStep(c)
    BY <1>3
  <2>2. AnswersTypeOK' /\ UNCHANGED <<guard, confirmed, post, active>> /\ RosterGrows
    BY <2>1, CallsTyped, CallRosterKept
  <2>3. GuardsStay
    BY <2>2 DEF GuardsStay
  <2> QED BY <2>2, <2>3, ShapeFrame
<1> QED BY <1>1, <1>2, <1>3 DEF RosterStep, CallStep

-----------------------------------------------------------------------------
(* The phone's types.                                                      *)

\* A phone step that leaves the posts alone leaves all that the server says of them.
LEMMA ServerIdle ==
  ASSUME Typed, UNCHANGED answersVars
  PROVE  /\ AnswersTypeOK' /\ \A p \in Posts : PostShape(p)'
         /\ RosterGrows /\ GuardsStay
<1>1. AnswersTypeOK'
  BY DEF answersVars, Typed, AnswersTypeOK
<1>2. \A p \in Posts : PostShape(p)'
  BY DEF answersVars, Typed, PostShape
<1>3. GuardsStay
  BY DEF answersVars, GuardsStay
<1>4. RosterGrows
  BY Distinct DEF answersVars, Typed, AnswersTypeOK, RosterGrows, NoRow, None
<1> QED BY <1>1, <1>2, <1>3, <1>4

\* The outbox's own operators keep its rows typed.
LEMMA RowsTyped ==
  ASSUME Typed
  PROVE  /\ \A gone : Removed(gone) \in [Answers -> OutboxRows]
         /\ \A a \in Answers, status \in {"SYNCING", "REJECTED", "BACKOFF", "FAILED"} :
               Marked(a, status) \in [Answers -> OutboxRows]
         /\ Recovered(row) \in [Answers -> OutboxRows]
         /\ \A owner \in Members \cup {NoOne} : Stamp(owner) \in OutboxRows
<1>1. row \in [Answers -> OutboxRows] /\ session \in Members \cup {NoOne}
  BY DEF Typed, PhoneTypeOK
<1>2. \A gone : Removed(gone) \in [Answers -> OutboxRows]
  BY <1>1 DEF Removed, OutboxRows
<1>3. \A a \in Answers, status \in {"SYNCING", "REJECTED", "BACKOFF", "FAILED"} :
         Marked(a, status) \in [Answers -> OutboxRows]
  BY <1>1 DEF Marked, OutboxRows
<1>4. Recovered(row) \in [Answers -> OutboxRows]
  BY <1>1 DEF Recovered, OutboxRows
<1>5. \A owner \in Members \cup {NoOne} : Stamp(owner) \in OutboxRows
  BY <1>1 DEF Stamp, OutboxRows
<1> QED BY <1>2, <1>3, <1>4, <1>5

\* A drain that goes on to its next row is typed.
LEMMA DrainTyped ==
  ASSUME Typed
  PROVE  /\ NextPass \in DrainStates /\ NextPass.pc = "next" /\ NextPass.owner = drain.owner
         /\ NotDraining \in DrainStates /\ NotDraining.pc = "idle"
<1>1. drain \in DrainStates
  BY DEF Typed, PhoneTypeOK
<1> QED BY <1>1 DEF NextPass, NotDraining, DrainStates

\* An answer that is queued, or one whose rows are listed or discarded.
LEMMA AnswersStepsTyped ==
  ASSUME Typed, NEW a \in Answers,
         EnqueueResponse(a) \/ ListOlder(a) \/ DiscardOlder(a) \/ BackoffEnds(a)
  PROVE  Typed'
<1>1. PhoneTypeOK /\ DrainShape /\ row \in [Answers -> OutboxRows]
  BY DEF Typed, PhoneTypeOK
<1>2. UNCHANGED <<answersVars, session, configured, drain, told>>
  BY DEF EnqueueResponse, ListOlder, DiscardOlder, BackoffEnds, who, process, results
<1>3. row' \in [Answers -> OutboxRows]
  <2>1. CASE EnqueueResponse(a)
    <3>1. PICK owner \in Members \cup {NoOne} : row' = [row EXCEPT ![a] = Stamp(owner)]
      BY <1>1, <2>1 DEF EnqueueResponse, PhoneTypeOK
    <3>2. PICK r \in OutboxRows : r = Stamp(owner)
      BY RowsTyped
    <3> QED BY <1>1, <3>1, <3>2
  <2>2. CASE ListOlder(a)
    BY <1>1, <2>2 DEF ListOlder
  <2>3. CASE DiscardOlder(a)
    BY <2>3, RowsTyped DEF DiscardOlder
  <2>4. CASE BackoffEnds(a)
    BY <2>4, RowsTyped DEF BackoffEnds
  <2> QED BY <2>1, <2>2, <2>3, <2>4
<1>4. author' \in [Answers -> Members \cup {NoOne}]
  BY <1>1 DEF PhoneTypeOK, EnqueueResponse, ListOlder, DiscardOlder, BackoffEnds, who
<1>5. PhoneTypeOK'
  BY <1>1, <1>2, <1>3, <1>4 DEF PhoneTypeOK
<1>6. DrainShape'
  BY <1>1, <1>2 DEF DrainShape
<1> QED BY <1>2, <1>5, <1>6, ServerIdle DEF Typed

\* The session's steps.
LEMMA SessionStepsTyped ==
  ASSUME Typed, Configure \/ SignOut \/ Kill \/ \E m \in Members : SignIn(m)
  PROVE  Typed'
<1>1. PhoneTypeOK /\ DrainShape /\ drain \in DrainStates
  BY DEF Typed, PhoneTypeOK
<1>2. UNCHANGED <<answersVars, author, told>>
  BY DEF Configure, SignOut, Kill, SignIn, who, process, results
<1>3. session' \in Members \cup {NoOne} /\ configured' \in Members \cup {NoOne}
  BY <1>1 DEF PhoneTypeOK, Configure, SignOut, Kill, SignIn, who, process, results
<1>4. row' \in [Answers -> OutboxRows]
  <2>1. CASE SignOut
    <3>1. row' = row \/ \E gone : row' = Removed(gone)
      BY <2>1 DEF SignOut
    <3> QED BY <1>1, <3>1, RowsTyped DEF PhoneTypeOK
  <2>2. CASE UNCHANGED row
    BY <1>1, <2>2 DEF PhoneTypeOK
  <2> QED BY <2>1, <2>2 DEF Configure, Kill, SignIn
<1>5. drain' \in DrainStates /\ DrainShape'
  <2>1. CASE Configure
    <3>1. drain' = [drain EXCEPT !.pinned = FALSE]
      BY <2>1 DEF Configure
    <3>2. drain' \in DrainStates
      BY <1>1, <3>1 DEF DrainStates
    <3>3. drain'.pc = drain.pc /\ drain'.owner = drain.owner /\ drain'.row = drain.row
          /\ drain'.post = drain.post
      BY <1>1, <3>1 DEF DrainStates
    <3> QED BY <1>1, <3>2, <3>3 DEF DrainShape
  <2>2. CASE Kill
    <3>1. drain' = NotDraining
      BY <2>2 DEF Kill
    <3> QED BY <3>1, DrainTyped DEF DrainShape
  <2>3. CASE UNCHANGED drain
    BY <1>1, <2>3 DEF DrainShape
  <2> QED BY <2>1, <2>2, <2>3 DEF SignOut, SignIn, process
<1>6. PhoneTypeOK'
  BY <1>1, <1>2, <1>3, <1>4, <1>5 DEF PhoneTypeOK
<1> QED BY <1>2, <1>5, <1>6, ServerIdle DEF Typed

\* The drain's steps on the phone itself.
LEMMA DrainStepsTyped ==
  ASSUME Typed, StartDrain \/ NextRow \/ CheckRow \/ ClaimForSync \/ TimeOut
  PROVE  Typed'
<1>1. PhoneTypeOK /\ DrainShape /\ drain \in DrainStates /\ row \in [Answers -> OutboxRows]
  BY DEF Typed, PhoneTypeOK
<1>2. UNCHANGED <<answersVars, session, configured, author, told>>
  BY DEF StartDrain, NextRow, CheckRow, ClaimForSync, TimeOut, who, results
<1>3. row' \in [Answers -> OutboxRows]
  <2>1. CASE StartDrain
    BY <1>1, <2>1, RowsTyped DEF StartDrain
  <2>2. CASE NextRow
    BY <1>1, <2>2 DEF NextRow
  <2>3. CASE CheckRow
    <3>1. row' = row \/ row' = Removed({drain.row})
      BY <2>3 DEF CheckRow
    <3> QED BY <1>1, <3>1, RowsTyped
  <2>4. CASE ClaimForSync \/ TimeOut
    <3>1. drain.row \in Answers
      BY <1>1, <2>4 DEF ClaimForSync, TimeOut, DrainShape
    <3>2. row' = row \/ \E status \in {"SYNCING", "BACKOFF"} : row' = Marked(drain.row, status)
      BY <2>4 DEF ClaimForSync, TimeOut
    <3> QED BY <1>1, <3>1, <3>2, RowsTyped
  <2> QED BY <2>1, <2>2, <2>3, <2>4
<1>4. drain' \in DrainStates /\ DrainShape'
  <2>1. CASE StartDrain
    <3>1. drain' = [NotDraining EXCEPT !.pc = "next", !.owner = configured, !.pinned = TRUE]
      BY <2>1 DEF StartDrain
    <3>2. configured \in Members
      BY <1>1, <2>1 DEF StartDrain, PhoneTypeOK
    <3>3. drain' \in DrainStates
      BY <3>1, <3>2, DrainTyped DEF DrainStates
    <3>4. drain'.pc = "next" /\ drain'.owner \in Members
      BY <3>1, <3>2, DrainTyped DEF DrainStates
    <3> QED BY <3>3, <3>4 DEF DrainShape
  <2>2. CASE drain' = NextPass /\ drain.pc # "idle"
    BY <1>1, <2>2, DrainTyped DEF DrainShape
  <2>3. CASE drain' = NotDraining
    BY <2>3, DrainTyped DEF DrainShape
  <2>4. CASE drain.pc = "check" /\ drain' = [drain EXCEPT !.pc = "claim"]
    BY <1>1, <2>4 DEF DrainShape, DrainStates
  <2>5. CASE drain.pc = "claim" /\ drain' = [drain EXCEPT !.pc = "post"]
    BY <1>1, <2>5 DEF DrainShape, DrainStates
  <2>6. CASE /\ drain.pc = "next"
             /\ \E a \in Answers : drain' = [drain EXCEPT !.pc = "check", !.row = a,
                                                         !.attempted = @ \cup {a}]
    <3>1. PICK a \in Answers : drain' = [drain EXCEPT !.pc = "check", !.row = a,
                                                     !.attempted = @ \cup {a}]
      BY <2>6
    <3>2. drain.attempted \cup {a} \in SUBSET Answers
      BY <1>1 DEF DrainStates
    <3> QED BY <1>1, <2>6, <3>1, <3>2 DEF DrainShape, DrainStates
  <2> QED BY <2>1, <2>2, <2>3, <2>4, <2>5, <2>6
          DEF NextRow, CheckRow, ClaimForSync, TimeOut, Drainable, Rows
<1>5. PhoneTypeOK'
  BY <1>1, <1>2, <1>3, <1>4 DEF PhoneTypeOK
<1> QED BY <1>2, <1>4, <1>5, ServerIdle DEF Typed

\* A row is posted: its post is new, and the others are as they were.
LEMMA PostRowTyped ==
  ASSUME Typed, PostRow
  PROVE  /\ Typed' /\ RosterGrows /\ GuardsStay
         /\ \/ UNCHANGED post /\ drain' = NextPass
            \/ \E p \in Posts :
                  /\ \A q \in Posts \ {p} : post'[q] = post[q]
                  /\ post'[p] = [pc |-> "sent", answer |-> drain.row, sub |-> PinnedToken,
                                 outcome |-> "none"]
                  /\ drain'.post = p /\ drain'.row = drain.row /\ drain'.owner = drain.owner
                  /\ drain'.pc = "wait"
<1>1. /\ PhoneTypeOK /\ DrainShape /\ drain \in DrainStates /\ row \in [Answers -> OutboxRows]
      /\ post \in [Posts -> PostStates] /\ drain.row \in Answers /\ AnswersTypeOK
  BY DEF Typed, PhoneTypeOK, AnswersTypeOK, PostStates, PostRow, DrainShape
<1>2. /\ UNCHANGED <<roster, guard, confirmed, active, failures, call, published, escalated>>
      /\ UNCHANGED <<session, configured, author, row, told>>
  BY DEF PostRow, who
<1>3. GuardsStay /\ RosterGrows
  BY <1>1, <1>2, Distinct DEF GuardsStay, RosterGrows, AnswersTypeOK, NoRow, None
<1>4. CASE UNCHANGED post /\ drain' = NextPass
  <2>1. AnswersTypeOK' /\ \A p \in Posts : PostShape(p)'
    BY <1>2, <1>4, ServerIdle DEF answersVars
  <2>2. drain' \in DrainStates /\ DrainShape'
    BY <1>1, <1>4, DrainTyped DEF DrainShape, PostRow
  <2> QED BY <1>1, <1>2, <1>3, <1>4, <2>1, <2>2 DEF Typed, PhoneTypeOK
<1>5. CASE \E p \in Posts : /\ Post(p, drain.row, PinnedToken)
                            /\ drain' = [drain EXCEPT !.pc = "wait", !.post = p]
  <2>1. PICK p \in Posts : /\ Post(p, drain.row, PinnedToken)
                           /\ drain' = [drain EXCEPT !.pc = "wait", !.post = p]
    BY <1>5
  <2>2. PICK sub \in Members \cup {NoOne} : sub = PinnedToken
    BY <1>1 DEF PinnedToken, PhoneTypeOK
  <2>3. PICK r : r = [pc |-> "sent", answer |-> drain.row, sub |-> sub, outcome |-> "none"]
    OBVIOUS
  <2>4. r \in PostStates
    BY <1>1, <2>3 DEF PostStates
  <2>5. post' = [post EXCEPT ![p] = r]
    BY <2>1, <2>2, <2>3 DEF Post
  <2>6. /\ post' \in [Posts -> PostStates] /\ post'[p] = r
        /\ \A q \in Posts \ {p} : post'[q] = post[q]
    BY <1>1, <2>4, <2>5
  <2>7. AnswersTypeOK'
    BY <1>1, <1>2, <2>6 DEF AnswersTypeOK, PostStates
  <2>8. PostShape(p)'
    BY <1>1, <2>3, <2>6 DEF PostShape, Outcomes
  <2>9. \A q \in Posts : PostShape(q)'
    BY <1>3, <2>6, <2>8, ShapeFrame
  <2>10. /\ drain' \in DrainStates /\ drain'.pc = "wait" /\ drain'.post = p
         /\ drain'.row = drain.row /\ drain'.owner = drain.owner
    BY <1>1, <2>1 DEF DrainStates
  <2>11. DrainShape'
    BY <1>1, <2>10 DEF DrainShape, PostRow
  <2>12. PhoneTypeOK'
    BY <1>1, <1>2, <2>10 DEF PhoneTypeOK
  <2>13. Typed'
    BY <2>7, <2>9, <2>11, <2>12 DEF Typed
  <2> QED BY <1>3, <2>2, <2>3, <2>6, <2>10, <2>13
<1> QED BY <1>4, <1>5 DEF PostRow

\* An answer of the server is received, and its post is over.
LEMMA ReceiveTyped ==
  ASSUME Typed, ReceiveAnswer
  PROVE  /\ Typed' /\ RosterGrows /\ GuardsStay
         /\ drain.post \in Posts /\ drain.row \in Answers
         /\ \A q \in Posts : post'[q] = post[q] \/ post'[q] = NoPost
         /\ \/ told' = told
            \/ told' = [told EXCEPT ![drain.row] = post[drain.post].outcome]
<1>1. /\ PhoneTypeOK /\ DrainShape /\ drain \in DrainStates /\ row \in [Answers -> OutboxRows]
      /\ post \in [Posts -> PostStates] /\ drain.row \in Answers /\ drain.post \in Posts
      /\ AnswersTypeOK /\ told \in [Answers -> {"nothing", "ineligible"} \cup Outcomes]
  BY DEF Typed, PhoneTypeOK, AnswersTypeOK, PostStates, ReceiveAnswer, DrainShape
<1>2. /\ UNCHANGED <<roster, guard, confirmed, active, failures, call, published, escalated>>
      /\ UNCHANGED <<session, configured, author>>
  BY DEF ReceiveAnswer, who
<1>3. GuardsStay /\ RosterGrows
  BY <1>1, <1>2, Distinct DEF GuardsStay, RosterGrows, AnswersTypeOK, NoRow, None
<1>4. NoPost \in PostStates
  BY DEF NoPost, PostStates
<1>5. /\ post' \in [Posts -> PostStates]
      /\ \A q \in Posts : post'[q] = post[q] \/ post'[q] = NoPost
  BY <1>1, <1>4 DEF ReceiveAnswer
<1>6. AnswersTypeOK'
  BY <1>1, <1>2, <1>5 DEF AnswersTypeOK, PostStates
<1>7. ASSUME NEW q \in Posts PROVE PostShape(q)'
  <2>1. CASE post'[q] = post[q]
    BY <1>3, <2>1, ShapeFrame
  <2>2. CASE post'[q] = NoPost
    BY <2>2 DEF NoPost, PostShape, Outcomes
  <2> QED BY <1>5, <2>1, <2>2
<1>8. drain' \in DrainStates /\ DrainShape'
  BY <1>1, DrainTyped DEF ReceiveAnswer, DrainShape
<1>9. row' \in [Answers -> OutboxRows]
  <2>1. CASE row' = Removed({drain.row})
    BY <2>1, RowsTyped
  <2>2. CASE row' = Marked(drain.row, "REJECTED")
    BY <1>1, <2>2, RowsTyped
  <2>3. CASE row' = Marked(drain.row, "BACKOFF")
    BY <1>1, <2>3, RowsTyped
  <2> QED BY <2>1, <2>2, <2>3 DEF ReceiveAnswer
<1>10. told' \in [Answers -> {"nothing", "ineligible"} \cup Outcomes]
  <2>1. told' = told \/ \E outcome \in {"ineligible"} \cup Outcomes :
                           told' = [told EXCEPT ![drain.row] = outcome]
    BY DEF ReceiveAnswer, Outcomes
  <2> QED BY <1>1, <2>1
<1>11. PhoneTypeOK'
  BY <1>1, <1>2, <1>8, <1>9, <1>10 DEF PhoneTypeOK
<1>12. told' = told \/ told' = [told EXCEPT ![drain.row] = post[drain.post].outcome]
  BY DEF ReceiveAnswer
<1> QED BY <1>1, <1>3, <1>5, <1>6, <1>7, <1>8, <1>11, <1>12 DEF Typed

\* Types and shapes hold initially and are kept by every step.
LEMMA TypedInductive == (Init => Typed) /\ (Typed /\ [Next]_vars => Typed')
<1>1. Init => Typed
  <2> SUFFICES ASSUME Init PROVE Typed
    OBVIOUS
  <2>1. [answer |-> NoRow, tier |-> "none"] \in RosterRows
    BY DEF RosterRows
  <2>2. roster \in [Members -> RosterRows]
    BY <2>1 DEF Init, AnswersInit
  <2>3. NoPost \in PostStates
    BY DEF NoPost, PostStates
  <2>4. post \in [Posts -> PostStates] /\ \A p \in Posts : post[p] = NoPost
    BY <2>3 DEF Init, AnswersInit
  <2>5. call \in [Calls -> [pc : CallPcs, attempt : 1..MaxAttempts]]
    BY AnswersConstants DEF Init, AnswersInit, CallPcs
  <2>6. guard \in [Members -> [Answers -> {"absent", "open"} \cup Outcomes]]
    BY DEF Init, AnswersInit
  <2>7. /\ confirmed \in [Answers -> Nat] /\ active \subseteq Members
        /\ failures \in 0..MaxFailures /\ published \subseteq Members
        /\ escalated \subseteq Members
    BY AnswersConstants DEF Init, AnswersInit
  <2>8. AnswersTypeOK
    BY <2>2, <2>4, <2>5, <2>6, <2>7 DEF AnswersTypeOK, RosterRows, PostStates, CallPcs
  <2>9. \A p \in Posts : PostShape(p)
    BY <2>4 DEF NoPost, PostShape, Outcomes
  <2>10. Absent \in OutboxRows
    BY DEF Absent, OutboxRows
  <2>11. row \in [Answers -> OutboxRows]
    BY <2>10 DEF Init
  <2>12. drain \in DrainStates /\ DrainShape
    BY DEF Init, NotDraining, DrainStates, DrainShape
  <2>13. PhoneTypeOK
    BY <2>11, <2>12 DEF Init, PhoneTypeOK
  <2> QED BY <2>8, <2>9, <2>12, <2>13 DEF Typed
<1>2. Typed /\ [Next]_vars => Typed'
  <2> SUFFICES ASSUME Typed, [Next]_vars PROVE Typed'
    OBVIOUS
  <2>1. CASE RosterStep /\ UNCHANGED phoneVars
    <3>1. AnswersTypeOK' /\ \A p \in Posts : PostShape(p)'
      BY <2>1, ServerTyped
    <3>2. PhoneTypeOK' /\ DrainShape'
      BY <2>1 DEF phoneVars, who, process, results, Typed, PhoneTypeOK, DrainShape
    <3> QED BY <3>1, <3>2 DEF Typed
  <2>2. CASE UNCHANGED vars
    <3>1. AnswersTypeOK' /\ \A p \in Posts : PostShape(p)'
      BY <2>2, ServerIdle DEF vars
    <3>2. PhoneTypeOK' /\ DrainShape'
      BY <2>2 DEF vars, phoneVars, who, process, results, Typed, PhoneTypeOK, DrainShape
    <3> QED BY <3>1, <3>2 DEF Typed
  <2> QED BY <2>1, <2>2, AnswersStepsTyped, SessionStepsTyped, DrainStepsTyped, PostRowTyped,
             ReceiveTyped DEF Next, PhoneStep, DrainStep
<1> QED BY <1>1, <1>2

-----------------------------------------------------------------------------
(* Who an answer is recorded as.                                           *)

\* The app shows no member but the one of the stored session.
SessionShown == configured = NoOne \/ session = NoOne \/ configured = session

\* What a row says of its owner is true.
RowsAreTheirs ==
    \A a \in Answers : /\ row[a].owner # NoOne => row[a].owner = author[a]
                       /\ row[a].hint # NoOne => row[a].hint = author[a]

\* A drain sends its member's own rows, and waits for the row it sent.
DrainIsPinned ==
    /\ drain.pc \in {"check", "claim", "post", "wait"} => author[drain.row] = drain.owner
    /\ drain.pc = "wait" => post[drain.post].answer = drain.row

\* A post with a token carries the token of the answer's author.
PostsAreTheirs == \A p \in Posts : post[p].sub # NoOne => author[post[p].answer] = post[p].sub

Authored == SessionShown /\ RowsAreTheirs /\ DrainIsPinned /\ PostsAreTheirs /\ RecordedAsItsAuthor

AuthorsStay == \A a \in Answers : author[a] # NoOne => author'[a] = author[a]

LEMMA StepAuthorsStay ==
  ASSUME Typed, [Next]_vars
  PROVE  AuthorsStay
<1>1. author \in [Answers -> Members \cup {NoOne}]
  BY DEF Typed, PhoneTypeOK
<1>2. CASE \E a \in Answers : EnqueueResponse(a)
  <2>1. PICK a \in Answers : EnqueueResponse(a)
    BY <1>2
  <2>2. author[a] = NoOne /\ author' = [author EXCEPT ![a] = session]
    BY <2>1 DEF EnqueueResponse
  <2> QED BY <1>1, <2>2 DEF AuthorsStay
<1>3. CASE UNCHANGED author
  BY <1>3 DEF AuthorsStay
<1> QED BY <1>2, <1>3
        DEF Next, PhoneStep, DrainStep, phoneVars, vars, who, ListOlder, DiscardOlder, BackoffEnds,
            Configure, SignOut, SignIn, Kill, StartDrain, NextRow, CheckRow, ClaimForSync, PostRow,
            ReceiveAnswer, TimeOut

\* The server records an answer as the member whose token it was posted with.
LEMMA ServerAuthored ==
  ASSUME Typed, Authored, RosterStep, UNCHANGED phoneVars
  PROVE  Authored'
<1>1. /\ \A p \in Posts : post'[p].answer = post[p].answer /\ post'[p].sub = post[p].sub
      /\ UNCHANGED <<session, configured, author, row, drain>>
  BY ServerTyped DEF phoneVars, who, process
<1>2. SessionShown' /\ RowsAreTheirs' /\ PostsAreTheirs'
  BY <1>1 DEF Authored, SessionShown, RowsAreTheirs, PostsAreTheirs
<1>3. DrainIsPinned'
  BY <1>1 DEF Authored, DrainIsPinned, Typed, DrainShape
<1>4. guard \in [Members -> [Answers -> {"absent", "open"} \cup Outcomes]]
  BY DEF Typed, AnswersTypeOK
<1>5. RecordedAsItsAuthor'
  <2>1. CASE \E p \in Posts : WriteAnswer(p) \/ RecordGuardOutcome(p)
    <3>1. PICK p \in Posts : WriteAnswer(p) \/ RecordGuardOutcome(p)
      BY <2>1
    <3>2. /\ post[p].sub \in Members /\ post[p].answer \in Answers
      BY <3>1 DEF WriteAnswer, RecordGuardOutcome, Typed, PostShape
    <3>3. author[post[p].answer] = post[p].sub
      BY <3>2, AnswersConstants DEF Authored, PostsAreTheirs
    <3>4. PICK m \in Members, a \in Answers : m = post[p].sub /\ a = post[p].answer
      BY <3>2
    <3>5. guard' = guard \/ \E known : guard' = [guard EXCEPT ![m][a] = known]
      <4>1. CASE WriteAnswer(p)
        <5>1. guard' = guard \/ guard' = [guard EXCEPT ![m][a] = "open"]
          BY <3>4, <4>1 DEF WriteAnswer
        <5> QED BY <5>1
      <4>2. CASE RecordGuardOutcome(p)
        <5>1. PICK known : known = post[p].outcome
          OBVIOUS
        <5>2. guard' = guard \/ guard' = [guard EXCEPT ![m][a] = known]
          BY <3>4, <4>2, <5>1 DEF RecordGuardOutcome
        <5> QED BY <5>2
      <4> QED BY <3>1, <4>1, <4>2
    <3>6. \A n \in Members, b \in Answers : n # m \/ b # a => guard'[n][b] = guard[n][b]
      BY <1>4, <3>5
    <3> QED BY <1>1, <3>3, <3>4, <3>6 DEF Authored, RecordedAsItsAuthor
  <2>2. CASE UNCHANGED guard
    BY <1>1, <2>2 DEF Authored, RecordedAsItsAuthor
  <2> QED BY <2>1, <2>2, CallsTyped
          DEF RosterStep, CallStep, PostRuns, CheckMember, ReadGuard, ApplyToRoster, PostFails, Leave
<1> QED BY <1>2, <1>3, <1>5 DEF Authored

\* Steps of the phone that post nothing keep what is recorded, and the posts, theirs.
LEMMA QuietAuthored ==
  ASSUME Typed, Authored, AuthorsStay, UNCHANGED answersVars
  PROVE  PostsAreTheirs' /\ RecordedAsItsAuthor'
<1>1. PostsAreTheirs'
  <2> SUFFICES ASSUME NEW p \in Posts, post[p].sub # NoOne
               PROVE  author'[post[p].answer] = post[p].sub
    BY DEF answersVars, PostsAreTheirs
  <2>1. post[p].answer \in Answers /\ author[post[p].answer] = post[p].sub
    BY DEF Typed, PostShape, Authored, PostsAreTheirs
  <2>2. PICK a \in Answers : a = post[p].answer
    BY <2>1
  <2> QED BY <2>1, <2>2 DEF AuthorsStay
<1>2. RecordedAsItsAuthor'
  BY AnswersConstants DEF answersVars, Authored, RecordedAsItsAuthor, AuthorsStay
<1> QED BY <1>1, <1>2

\* A row as its owner and hint are left by every step that does not give an answer.
LEMMA OwnersStay ==
  ASSUME Typed, UNCHANGED author, Authored,
         \A a \in Answers : row'[a].owner = row[a].owner /\ row'[a].hint = row[a].hint
  PROVE  RowsAreTheirs'
BY DEF Authored, RowsAreTheirs

LEMMA OutboxKeepsOwners ==
  ASSUME Typed
  PROVE  \A b \in Answers :
           /\ \A gone : /\ Removed(gone)[b].owner = row[b].owner
                        /\ Removed(gone)[b].hint = row[b].hint
           /\ \A a \in Answers, status \in {"SYNCING", "REJECTED", "BACKOFF", "FAILED"} :
                 /\ Marked(a, status)[b].owner = row[b].owner
                 /\ Marked(a, status)[b].hint = row[b].hint
           /\ Recovered(row)[b].owner = row[b].owner
           /\ Recovered(row)[b].hint = row[b].hint
<1>1. row \in [Answers -> OutboxRows]
  BY DEF Typed, PhoneTypeOK
<1>2. ASSUME NEW b \in Answers, NEW gone
      PROVE  Removed(gone)[b].owner = row[b].owner /\ Removed(gone)[b].hint = row[b].hint
  BY <1>1 DEF Removed, OutboxRows
<1>3. ASSUME NEW b \in Answers, NEW a \in Answers,
             NEW status \in {"SYNCING", "REJECTED", "BACKOFF", "FAILED"}
      PROVE  Marked(a, status)[b].owner = row[b].owner /\ Marked(a, status)[b].hint = row[b].hint
  BY <1>1 DEF Marked, OutboxRows
<1>4. ASSUME NEW b \in Answers
      PROVE  Recovered(row)[b].owner = row[b].owner /\ Recovered(row)[b].hint = row[b].hint
  BY <1>1 DEF Recovered, OutboxRows
<1> QED BY <1>2, <1>3, <1>4

\* Giving an answer, and discarding the older ones.
LEMMA AnswersAuthored ==
  ASSUME Typed, Authored, AuthorsStay, NEW a \in Answers,
         EnqueueResponse(a) \/ ListOlder(a) \/ DiscardOlder(a) \/ BackoffEnds(a)
  PROVE  Authored'
<1>1. UNCHANGED <<answersVars, session, configured, drain>>
  BY DEF EnqueueResponse, ListOlder, DiscardOlder, BackoffEnds, who, process
<1>2. SessionShown'
  BY <1>1 DEF Authored, SessionShown
<1>3. PostsAreTheirs' /\ RecordedAsItsAuthor'
  BY <1>1, QuietAuthored
<1>4. DrainIsPinned'
  <2>1. ASSUME drain.pc \in {"check", "claim", "post", "wait"}
        PROVE  author'[drain.row] = drain.owner
    <3>1. /\ drain.row \in Answers /\ author[drain.row] = drain.owner /\ drain.owner \in Members
      BY <2>1 DEF Typed, DrainShape, Authored, DrainIsPinned
    <3>2. PICK b \in Answers : b = drain.row
      BY <3>1
    <3> QED BY <3>1, <3>2, AnswersConstants DEF AuthorsStay
  <2> QED BY <1>1, <2>1 DEF answersVars, DrainIsPinned, Authored
<1>5. RowsAreTheirs'
  <2>1. CASE EnqueueResponse(a)
    <3>1. row \in [Answers -> OutboxRows] /\ author \in [Answers -> Members \cup {NoOne}]
      BY DEF Typed, PhoneTypeOK
    <3>2. PICK owner \in {session, NoOne} : row' = [row EXCEPT ![a] = Stamp(owner)]
      BY <2>1 DEF EnqueueResponse, Authored, SessionShown
    <3>3. author' = [author EXCEPT ![a] = session]
      BY <2>1 DEF EnqueueResponse
    <3>4. PICK r : r = Stamp(owner)
      OBVIOUS
    <3>5. r.owner \in {session, NoOne} /\ r.hint \in {session, NoOne}
      BY <3>2, <3>4 DEF Stamp
    <3>6. row' = [row EXCEPT ![a] = r]
      BY <3>2, <3>4
    <3> QED BY <3>1, <3>3, <3>5, <3>6 DEF RowsAreTheirs, Authored
  <2>2. CASE ListOlder(a)
    BY <2>2, OwnersStay DEF ListOlder, who
  <2>3. CASE DiscardOlder(a)
    <3>1. UNCHANGED author /\ \E gone : row' = Removed(gone)
      BY <2>3 DEF DiscardOlder, who
    <3> QED BY <3>1, OutboxKeepsOwners, OwnersStay
  <2>4. CASE BackoffEnds(a)
    <3>1. UNCHANGED author /\ row' = Marked(a, "FAILED")
      BY <2>4 DEF BackoffEnds, who
    <3> QED BY <3>1, OutboxKeepsOwners, OwnersStay
  <2> QED BY <2>1, <2>2, <2>3, <2>4
<1> QED BY <1>2, <1>3, <1>4, <1>5 DEF Authored

\* The session's steps: the app shows a member only after the keychain holds him.
LEMMA SessionAuthored ==
  ASSUME Typed, Authored, AuthorsStay,
         Configure \/ SignOut \/ Kill \/ \E m \in Members : SignIn(m)
  PROVE  Authored'
<1>1. UNCHANGED <<answersVars, author>>
  BY DEF Configure, SignOut, Kill, SignIn, who
<1>2. SessionShown'
  BY DEF Configure, SignOut, Kill, SignIn, Authored, SessionShown
<1>3. PostsAreTheirs' /\ RecordedAsItsAuthor'
  BY <1>1, QuietAuthored
<1>4. DrainIsPinned'
  <2>1. CASE Configure
    <3>1. drain' = [drain EXCEPT !.pinned = FALSE] /\ drain \in DrainStates
      BY <2>1 DEF Configure, Typed, PhoneTypeOK
    <3>2. drain'.pc = drain.pc /\ drain'.owner = drain.owner /\ drain'.row = drain.row
          /\ drain'.post = drain.post
      BY <3>1 DEF DrainStates
    <3> QED BY <1>1, <3>2 DEF answersVars, DrainIsPinned, Authored
  <2>2. CASE Kill
    BY <2>2, DrainTyped DEF Kill, DrainIsPinned
  <2>3. CASE UNCHANGED drain
    BY <1>1, <2>3 DEF answersVars, DrainIsPinned, Authored
  <2> QED BY <2>1, <2>2, <2>3 DEF SignOut, SignIn, process
<1>5. RowsAreTheirs'
  <2>1. row' = row \/ \E gone : row' = Removed(gone)
    BY DEF Configure, SignOut, Kill, SignIn
  <2> QED BY <1>1, <2>1, OutboxKeepsOwners, OwnersStay
<1> QED BY <1>2, <1>3, <1>4, <1>5 DEF Authored

\* The drain takes up only rows of its own member.
LEMMA DrainAuthored ==
  ASSUME Typed, Authored, AuthorsStay, StartDrain \/ NextRow \/ CheckRow \/ ClaimForSync \/ TimeOut
  PROVE  Authored'
<1>1. UNCHANGED <<answersVars, author, session, configured>> /\ drain \in DrainStates
  BY DEF StartDrain, NextRow, CheckRow, ClaimForSync, TimeOut, who, Typed, PhoneTypeOK
<1>2. SessionShown'
  BY <1>1 DEF Authored, SessionShown
<1>3. PostsAreTheirs' /\ RecordedAsItsAuthor'
  BY <1>1, QuietAuthored
<1>4. RowsAreTheirs'
  <2>1. CASE ClaimForSync \/ TimeOut
    <3>1. drain.row \in Answers
      BY <2>1 DEF ClaimForSync, TimeOut, Typed, DrainShape
    <3>2. row' = row \/ \E status \in {"SYNCING", "BACKOFF"} : row' = Marked(drain.row, status)
      BY <2>1 DEF ClaimForSync, TimeOut
    <3> QED BY <1>1, <3>1, <3>2, OutboxKeepsOwners, OwnersStay
  <2>2. CASE StartDrain \/ NextRow \/ CheckRow
    <3>1. row' = row \/ row' = Recovered(row) \/ \E gone : row' = Removed(gone)
      BY <2>2 DEF StartDrain, NextRow, CheckRow
    <3> QED BY <1>1, <3>1, OutboxKeepsOwners, OwnersStay
  <2> QED BY <2>1, <2>2
<1>5. DrainIsPinned'
  <2>1. CASE StartDrain
    <3>1. drain' = [NotDraining EXCEPT !.pc = "next", !.owner = configured, !.pinned = TRUE]
      BY <2>1 DEF StartDrain
    <3>2. drain'.pc = "next"
      BY <3>1, DrainTyped DEF DrainStates
    <3> QED BY <3>2 DEF DrainIsPinned
  <2>2. CASE drain' = NextPass \/ drain' = NotDraining
    BY <2>2, DrainTyped DEF DrainIsPinned
  <2>3. CASE drain.pc = "check" /\ drain' = [drain EXCEPT !.pc = "claim"]
    BY <1>1, <2>3 DEF DrainIsPinned, DrainStates, Authored
  <2>4. CASE drain.pc = "claim" /\ drain' = [drain EXCEPT !.pc = "post"]
    BY <1>1, <2>4 DEF DrainIsPinned, DrainStates, Authored
  <2>5. CASE /\ drain.pc = "next"
             /\ \E a \in Drainable(drain.owner) :
                   drain' = [drain EXCEPT !.pc = "check", !.row = a, !.attempted = @ \cup {a}]
    <3>1. PICK a \in Drainable(drain.owner) :
             drain' = [drain EXCEPT !.pc = "check", !.row = a, !.attempted = @ \cup {a}]
      BY <2>5
    <3>2. a \in Answers /\ SendableBy(a, drain.owner)
      BY DEF Drainable, Rows
    <3>3. drain.owner # NoOne
      BY <2>5, AnswersConstants DEF Typed, DrainShape
    <3>4. author[a] = drain.owner
      BY <3>2, <3>3 DEF SendableBy, Authored, RowsAreTheirs
    <3>5. drain'.row = a /\ drain'.owner = drain.owner /\ drain'.pc = "check"
      BY <1>1, <3>1 DEF DrainStates
    <3> QED BY <1>1, <3>4, <3>5 DEF DrainIsPinned
  <2> QED BY <2>1, <2>2, <2>3, <2>4, <2>5 DEF NextRow, CheckRow, ClaimForSync, TimeOut
<1> QED BY <1>2, <1>3, <1>4, <1>5 DEF Authored

\* A post carries the token of the member the drain is pinned to, or none.
LEMMA PostRowAuthored ==
  ASSUME Typed, Authored, PostRow
  PROVE  Authored'
<1>1. /\ UNCHANGED <<session, configured, author, row, guard>>
      /\ drain.row \in Answers /\ drain.pc = "post"
      /\ author[drain.row] = drain.owner
  BY DEF PostRow, who, Typed, DrainShape, Authored, DrainIsPinned
<1>2. SessionShown' /\ RowsAreTheirs' /\ RecordedAsItsAuthor'
  BY <1>1 DEF Authored, SessionShown, RowsAreTheirs, RecordedAsItsAuthor
<1>3. CASE UNCHANGED post /\ drain' = NextPass
  BY <1>1, <1>2, <1>3, DrainTyped DEF Authored, PostsAreTheirs, DrainIsPinned
<1>4. CASE \E p \in Posts :
              /\ \A q \in Posts \ {p} : post'[q] = post[q]
              /\ post'[p] = [pc |-> "sent", answer |-> drain.row, sub |-> PinnedToken,
                             outcome |-> "none"]
              /\ drain'.post = p /\ drain'.row = drain.row /\ drain'.owner = drain.owner
              /\ drain'.pc = "wait"
  <2>1. PICK p \in Posts :
              /\ \A q \in Posts \ {p} : post'[q] = post[q]
              /\ post'[p] = [pc |-> "sent", answer |-> drain.row, sub |-> PinnedToken,
                             outcome |-> "none"]
              /\ drain'.post = p /\ drain'.row = drain.row /\ drain'.owner = drain.owner
              /\ drain'.pc = "wait"
    BY <1>4
  <2>2. post'[p].answer = drain.row /\ post'[p].sub = PinnedToken
    BY <2>1
  <2>3. PinnedToken # NoOne => author[drain.row] = PinnedToken
    BY <1>1 DEF PinnedToken
  <2>4. PostsAreTheirs'
    <3> SUFFICES ASSUME NEW q \in Posts PROVE post'[q].sub # NoOne => author[post'[q].answer] = post'[q].sub
      BY <1>1 DEF PostsAreTheirs
    <3>1. CASE q = p
      BY <2>2, <2>3, <3>1
    <3>2. CASE q # p
      BY <2>1, <3>2 DEF Authored, PostsAreTheirs
    <3> QED BY <3>1, <3>2
  <2>5. DrainIsPinned'
    BY <1>1, <2>1, <2>2 DEF DrainIsPinned
  <2> QED BY <1>2, <2>4, <2>5 DEF Authored
<1> QED BY <1>3, <1>4, PostRowTyped

\* Receiving an answer gives no post a token.
LEMMA ReceiveAuthored ==
  ASSUME Typed, Authored, ReceiveAnswer
  PROVE  Authored'
<1>1. /\ UNCHANGED <<session, configured, author, guard>> /\ drain' = NextPass
      /\ drain.row \in Answers
  BY DEF ReceiveAnswer, who, Typed, DrainShape
<1>2. SessionShown' /\ RecordedAsItsAuthor'
  BY <1>1 DEF Authored, SessionShown, RecordedAsItsAuthor
<1>3. RowsAreTheirs'
  <2>1. CASE row' = Removed({drain.row})
    BY <1>1, <2>1, OutboxKeepsOwners, OwnersStay
  <2>2. CASE row' = Marked(drain.row, "REJECTED") \/ row' = Marked(drain.row, "BACKOFF")
    BY <1>1, <2>2, OutboxKeepsOwners, OwnersStay
  <2> QED BY <2>1, <2>2 DEF ReceiveAnswer
<1>4. \A q \in Posts : post'[q] = post[q] \/ post'[q] = NoPost
  BY ReceiveTyped
<1>5. PostsAreTheirs'
  BY <1>1, <1>4 DEF Authored, PostsAreTheirs, NoPost
<1>6. DrainIsPinned'
  BY <1>1, DrainTyped DEF DrainIsPinned
<1> QED BY <1>2, <1>3, <1>5, <1>6 DEF Authored

\* Whose every row, post and record is holds initially and is kept by every step.
LEMMA AuthoredInductive == (Init => Authored) /\ (Typed /\ Authored /\ [Next]_vars => Authored')
<1>1. Init => Authored
  BY DEF Init, AnswersInit, Absent, NotDraining, NoPost, Authored, SessionShown, RowsAreTheirs,
         DrainIsPinned, PostsAreTheirs, RecordedAsItsAuthor
<1>2. Typed /\ Authored /\ [Next]_vars => Authored'
  <2> SUFFICES ASSUME Typed, Authored, [Next]_vars PROVE Authored'
    OBVIOUS
  <2>1. AuthorsStay
    BY StepAuthorsStay
  <2>2. CASE UNCHANGED vars
    BY <2>2 DEF vars, answersVars, phoneVars, who, process, results, Authored, SessionShown,
                RowsAreTheirs, DrainIsPinned, PostsAreTheirs, RecordedAsItsAuthor
  <2> QED BY <2>1, <2>2, ServerAuthored, AnswersAuthored, SessionAuthored, DrainAuthored,
             PostRowAuthored, ReceiveAuthored DEF Next, PhoneStep, DrainStep
<1> QED BY <1>1, <1>2

-----------------------------------------------------------------------------
(* What is said of an answer.                                              *)

\* An answer confirmed to the platform bus has its guard.
ConfirmedIsGuarded ==
    \A a \in Answers : confirmed[a] = 0 \/ (confirmed[a] = 1 /\ \E m \in Members : guard[m][a] # "absent")

\* An outcome is told only of an answer somebody gave.
ToldIsGiven == \A a \in Answers : told[a] \in Outcomes => author[a] \in Members

Truthful == OutcomeIsTrue /\ ToldTheTruth /\ ToldIsGiven /\ ConfirmedIsGuarded

\* What is true of an answer stays true of a roster that only grows.
LEMMA TrueStays ==
  ASSUME Typed, Typed', RosterGrows, NEW m \in Members, NEW a \in Answers, NEW outcome,
         TrueOf(outcome, m, a)
  PROVE  /\ outcome = "applied" => roster'[m].answer >= a
         /\ outcome = "superseded" => roster'[m].answer > a
<1>1. /\ roster[m].answer \in Int /\ roster'[m].answer \in Int /\ a \in Int
  BY Distinct DEF Typed, AnswersTypeOK, NoRow, None
<1> QED BY <1>1 DEF TrueOf, RosterGrows

\* Posts and guards that a step leaves alone stay true.
LEMMA OutcomesStay ==
  ASSUME Typed, Typed', Truthful, RosterGrows
  PROVE  /\ \A m \in Members, a \in Answers :
              guard'[m][a] = guard[m][a] => TrueOf(guard[m][a], m, a)'
         /\ \A p \in Posts :
              post'[p] = post[p] => TrueOf(post[p].outcome, post[p].sub, post[p].answer)'
<1>1. ASSUME NEW m \in Members, NEW a \in Answers, guard'[m][a] = guard[m][a]
      PROVE  TrueOf(guard[m][a], m, a)'
  <2>1. PICK outcome : outcome = guard[m][a]
    OBVIOUS
  <2>2. TrueOf(outcome, m, a)
    BY <2>1 DEF Truthful, OutcomeIsTrue
  <2> QED BY <1>1, <2>1, <2>2, TrueStays DEF TrueOf
<1>2. ASSUME NEW p \in Posts, post'[p] = post[p]
      PROVE  TrueOf(post[p].outcome, post[p].sub, post[p].answer)'
  <2>1. CASE post[p].outcome \in Outcomes
    <3>1. post[p].sub \in Members /\ post[p].answer \in Answers
      BY <2>1 DEF Typed, PostShape
    <3>2. PICK m \in Members, a \in Answers, outcome \in Outcomes :
             outcome = post[p].outcome /\ m = post[p].sub /\ a = post[p].answer
      BY <2>1, <3>1
    <3>3. TrueOf(outcome, m, a)
      BY <3>2 DEF Truthful, OutcomeIsTrue
    <3> QED BY <1>2, <3>2, <3>3, TrueStays DEF TrueOf
  <2>2. CASE post[p].outcome \notin Outcomes
    BY <1>2, <2>2 DEF Outcomes, TrueOf
  <2> QED BY <2>1, <2>2
<1> QED BY <1>1, <1>2

\* What the phone was told stays true while the roster grows.
LEMMA ToldStays ==
  ASSUME Typed, Typed', Truthful, RosterGrows, AuthorsStay, NEW a \in Answers, told'[a] = told[a]
  PROVE  /\ TrueOf(told[a], author[a], a)'
         /\ told'[a] \in Outcomes => author'[a] \in Members
<1>1. CASE told[a] \in Outcomes
  <2>1. author[a] \in Members /\ author'[a] = author[a]
    BY <1>1, AnswersConstants DEF Truthful, ToldIsGiven, AuthorsStay
  <2>2. PICK m \in Members, outcome \in Outcomes : outcome = told[a] /\ m = author[a]
    BY <1>1, <2>1
  <2>3. TrueOf(outcome, m, a)
    BY <2>2 DEF Truthful, ToldTheTruth
  <2> QED BY <2>1, <2>2, <2>3, TrueStays DEF TrueOf
<1>2. CASE told[a] \notin Outcomes
  BY <1>2 DEF Outcomes, TrueOf
<1> QED BY <1>1, <1>2

\* An answer is confirmed once, however many of its posts race for its guard.
LEMMA ConfirmedStays ==
  ASSUME Typed, Typed', Authored, Truthful, RosterStep, GuardsStay
  PROVE  ConfirmedIsGuarded'
<1>1. confirmed \in [Answers -> Nat]
  BY DEF Typed, AnswersTypeOK
<1>2. CASE \E p \in Posts : WriteAnswer(p)
  <2>1. PICK p \in Posts : WriteAnswer(p)
    BY <1>2
  <2>2. post[p].sub \in Members /\ post[p].answer \in Answers
    BY <2>1 DEF WriteAnswer, Typed, PostShape
  <2>3. PICK m \in Members, a \in Answers : m = post[p].sub /\ a = post[p].answer
    BY <2>2
  <2>4. CASE GuardIsFree(m, a)
    <3>1. confirmed' = [confirmed EXCEPT ![a] = @ + 1] /\ guard' = [guard EXCEPT ![m][a] = "open"]
      BY <2>1, <2>3, <2>4 DEF WriteAnswer
    <3>2. author[a] = m
      BY <2>3, AnswersConstants DEF Authored, PostsAreTheirs
    <3>3. \A n \in Members : guard[n][a] = "absent"
      BY <2>4, <3>2 DEF Authored, RecordedAsItsAuthor, GuardIsFree
    <3>4. confirmed[a] = 0
      BY <3>3 DEF Truthful, ConfirmedIsGuarded
    <3>5. guard'[m][a] = "open" /\ confirmed'[a] = 1
      BY <1>1, <3>1, <3>4 DEF Typed, AnswersTypeOK
    <3>6. \A b \in Answers : b # a => confirmed'[b] = confirmed[b]
      BY <1>1, <3>1
    <3> QED BY <3>5, <3>6 DEF Truthful, ConfirmedIsGuarded, GuardsStay
  <2>5. CASE ~GuardIsFree(m, a)
    BY <2>1, <2>3, <2>5 DEF WriteAnswer, Truthful, ConfirmedIsGuarded
  <2> QED BY <2>4, <2>5
<1>3. CASE UNCHANGED confirmed
  BY <1>3 DEF Truthful, ConfirmedIsGuarded, GuardsStay
<1> QED BY <1>2, <1>3, CallsTyped
        DEF RosterStep, CallStep, PostRuns, CheckMember, ReadGuard, ApplyToRoster,
            RecordGuardOutcome, PostFails, Leave

\* A post's call keeps what is said of every answer true.
LEMMA PostRunsTrue ==
  ASSUME Typed, Typed', Truthful, NEW p \in Posts, PostRuns(p) \/ PostFails(p)
  PROVE  OutcomeIsTrue'
<1>1. /\ post \in [Posts -> PostStates] /\ PostShape(p)
      /\ guard \in [Members -> [Answers -> {"absent", "open"} \cup Outcomes]]
      /\ \A q \in Posts \ {p} : post'[q] = post[q]
      /\ post'[p].answer = post[p].answer /\ post'[p].sub = post[p].sub
      /\ RosterGrows
      /\ TrueOf(post[p].outcome, post[p].sub, post[p].answer)
  BY PostRunsFrame DEF Typed, AnswersTypeOK, PostStates, Truthful, OutcomeIsTrue
<1>2. \A q \in Posts \ {p} : TrueOf(post[q].outcome, post[q].sub, post[q].answer)'
  BY <1>1, OutcomesStay
<1>3. \A m \in Members, a \in Answers : TrueOf(guard[m][a], m, a)'
  <2>1. CASE WriteAnswer(p)
    <3>1. PICK m \in Members, a \in Answers : m = post[p].sub /\ a = post[p].answer
      BY <1>1, <2>1 DEF WriteAnswer, PostShape
    <3>2. guard' = guard \/ guard' = [guard EXCEPT ![m][a] = "open"]
      BY <2>1, <3>1 DEF WriteAnswer
    <3>3. \A n \in Members, b \in Answers : guard'[n][b] = guard[n][b] \/ guard'[n][b] = "open"
      BY <1>1, <3>2
    <3>4. ASSUME NEW n \in Members, NEW b \in Answers PROVE TrueOf(guard[n][b], n, b)'
      BY <1>1, <3>3, OutcomesStay DEF TrueOf
    <3> QED BY <3>4
  <2>2. CASE RecordGuardOutcome(p)
    <3>1. PICK m \in Members, a \in Answers, outcome \in Outcomes :
             m = post[p].sub /\ a = post[p].answer /\ outcome = post[p].outcome
      BY <1>1, <2>2 DEF RecordGuardOutcome, PostShape
    <3>2. guard' = guard \/ guard' = [guard EXCEPT ![m][a] = outcome]
      BY <2>2, <3>1 DEF RecordGuardOutcome
    <3>3. \A n \in Members, b \in Answers :
             \/ guard'[n][b] = guard[n][b]
             \/ n = m /\ b = a /\ guard'[n][b] = outcome
      BY <1>1, <3>2
    <3>4. UNCHANGED roster
      BY <2>2 DEF RecordGuardOutcome
    <3>5. ASSUME NEW n \in Members, NEW b \in Answers PROVE TrueOf(guard[n][b], n, b)'
      <4>1. CASE guard'[n][b] = guard[n][b]
        BY <1>1, <4>1, OutcomesStay
      <4>2. CASE n = m /\ b = a /\ guard'[n][b] = outcome
        BY <1>1, <3>1, <3>4, <4>2 DEF TrueOf
      <4> QED BY <3>3, <4>1, <4>2
    <3> QED BY <3>5
  <2>3. CASE UNCHANGED guard
    BY <1>1, <2>3, OutcomesStay
  <2> QED BY <2>1, <2>2, <2>3 DEF PostRuns, CheckMember, ReadGuard, ApplyToRoster, PostFails
<1>4. TrueOf(post[p].outcome, post[p].sub, post[p].answer)'
  <2>1. CASE ApplyToRoster(p)
    <3>1. \/ /\ post'[p].outcome = "applied"
             /\ roster'[post[p].sub].answer = post[p].answer
          \/ /\ post'[p].outcome = "superseded"
             /\ roster' = roster
             /\ roster[post[p].sub].answer > post[p].answer
      BY <2>1, ApplyGrows
    <3>2. post[p].answer \in Int
      BY <1>1, <2>1, Distinct DEF ApplyToRoster, PostShape
    <3> QED BY <1>1, <3>1, <3>2 DEF TrueOf
  <2>2. CASE ReadGuard(p)
    <3>1. PICK m \in Members, a \in Answers : m = post[p].sub /\ a = post[p].answer
      BY <1>1, <2>2 DEF ReadGuard, PostShape
    <3>2. post'[p].outcome = post[p].outcome \/ post'[p].outcome = guard[m][a]
      BY <1>1, <2>2, <3>1 DEF ReadGuard, Answered, PostStates
    <3>3. UNCHANGED roster /\ TrueOf(guard[m][a], m, a)
      BY <2>2 DEF ReadGuard, Truthful, OutcomeIsTrue
    <3> QED BY <1>1, <3>1, <3>2, <3>3 DEF TrueOf
  <2>3. CASE CheckMember(p) \/ WriteAnswer(p) \/ RecordGuardOutcome(p) \/ PostFails(p)
    <3>1. UNCHANGED roster
      BY <2>3 DEF CheckMember, WriteAnswer, RecordGuardOutcome, PostFails
    <3>2. \/ post'[p].outcome = post[p].outcome
          \/ post'[p].outcome \in {"unauthorized", "ineligible", "unavailable"}
      BY <1>1, <2>3 DEF CheckMember, WriteAnswer, RecordGuardOutcome, PostFails, Answered, PostStates
    <3> QED BY <1>1, <3>1, <3>2 DEF TrueOf
  <2> QED BY <2>1, <2>2, <2>3 DEF PostRuns
<1> QED BY <1>2, <1>3, <1>4 DEF OutcomeIsTrue

\* Everything said of an answer stays true through the server's steps.
LEMMA ServerTrue ==
  ASSUME Typed, Typed', Authored, Truthful, RosterStep, UNCHANGED phoneVars
  PROVE  Truthful'
<1>1. RosterGrows /\ GuardsStay
  BY ServerTyped
<1>2. UNCHANGED <<told, author>>
  BY DEF phoneVars, results, who
<1>3. AuthorsStay
  BY <1>2 DEF AuthorsStay
<1>4. OutcomeIsTrue'
  <2>1. CASE \E p \in Posts : PostRuns(p) \/ PostFails(p)
    BY <2>1, PostRunsTrue
  <2>2. CASE UNCHANGED <<guard, post>>
    BY <1>1, <2>2, OutcomesStay DEF OutcomeIsTrue
  <2> QED BY <2>1, <2>2, CallsTyped DEF RosterStep, CallStep, Leave
<1>5. ToldTheTruth' /\ ToldIsGiven'
  <2>1. ASSUME NEW a \in Answers
        PROVE  TrueOf(told[a], author[a], a)' /\ (told'[a] \in Outcomes => author'[a] \in Members)
    BY <1>1, <1>2, <1>3, ToldStays
  <2> QED BY <2>1 DEF ToldTheTruth, ToldIsGiven
<1>6. ConfirmedIsGuarded'
  BY <1>1, ConfirmedStays
<1> QED BY <1>4, <1>5, <1>6 DEF Truthful

\* A phone step that neither posts nor hears anything leaves it true.
LEMMA QuietTrue ==
  ASSUME Typed, Typed', Truthful, AuthorsStay, UNCHANGED <<answersVars, told>>
  PROVE  Truthful'
<1>1. RosterGrows
  BY ServerIdle
<1>2. OutcomeIsTrue'
  BY <1>1, OutcomesStay DEF answersVars, OutcomeIsTrue
<1>3. ToldTheTruth' /\ ToldIsGiven'
  <2>1. ASSUME NEW a \in Answers
        PROVE  TrueOf(told[a], author[a], a)' /\ (told'[a] \in Outcomes => author'[a] \in Members)
    BY <1>1, ToldStays
  <2> QED BY <2>1 DEF ToldTheTruth, ToldIsGiven
<1>4. ConfirmedIsGuarded'
  BY DEF answersVars, Truthful, ConfirmedIsGuarded
<1> QED BY <1>2, <1>3, <1>4 DEF Truthful

\* A new post says nothing yet.
LEMMA PostRowTrue ==
  ASSUME Typed, Truthful, AuthorsStay, PostRow
  PROVE  Truthful'
<1>1. /\ Typed' /\ RosterGrows
      /\ UNCHANGED <<guard, confirmed, told>>
  BY PostRowTyped DEF PostRow
<1>2. \A q \in Posts : post'[q] = post[q] \/ post'[q].outcome = "none"
  <2>1. CASE UNCHANGED post
    BY <2>1
  <2>2. CASE ~UNCHANGED post
    <3>1. PICK p \in Posts : /\ \A q \in Posts \ {p} : post'[q] = post[q]
                             /\ post'[p] = [pc |-> "sent", answer |-> drain.row,
                                            sub |-> PinnedToken, outcome |-> "none"]
      BY <2>2, PostRowTyped
    <3>2. post'[p].outcome = "none"
      BY <3>1
    <3> QED BY <3>1, <3>2
  <2> QED BY <2>1, <2>2
<1>3. OutcomeIsTrue'
  <2>1. ASSUME NEW q \in Posts PROVE TrueOf(post[q].outcome, post[q].sub, post[q].answer)'
    BY <1>1, <1>2, OutcomesStay DEF TrueOf
  <2>2. \A m \in Members, a \in Answers : TrueOf(guard[m][a], m, a)'
    BY <1>1, OutcomesStay
  <2> QED BY <2>1, <2>2 DEF OutcomeIsTrue
<1>4. ToldTheTruth' /\ ToldIsGiven'
  <2>1. ASSUME NEW a \in Answers
        PROVE  TrueOf(told[a], author[a], a)' /\ (told'[a] \in Outcomes => author'[a] \in Members)
    BY <1>1, ToldStays
  <2> QED BY <2>1 DEF ToldTheTruth, ToldIsGiven
<1>5. ConfirmedIsGuarded'
  BY <1>1 DEF Truthful, ConfirmedIsGuarded
<1> QED BY <1>3, <1>4, <1>5 DEF Truthful

\* The phone hears of the row it sent, from the post that carried it as its author's.
LEMMA ReceiveTrue ==
  ASSUME Typed, Authored, Truthful, AuthorsStay, ReceiveAnswer
  PROVE  Truthful'
<1>1. /\ Typed' /\ RosterGrows
      /\ drain.post \in Posts /\ drain.row \in Answers /\ drain.pc = "wait"
      /\ \A q \in Posts : post'[q] = post[q] \/ post'[q] = NoPost
      /\ UNCHANGED <<roster, guard, confirmed, author>>
      /\ told \in [Answers -> {"nothing", "ineligible"} \cup Outcomes]
      /\ \/ told' = told
         \/ told' = [told EXCEPT ![drain.row] = post[drain.post].outcome]
  BY ReceiveTyped DEF ReceiveAnswer, who, Typed, PhoneTypeOK
<1>2. OutcomeIsTrue'
  <2>1. ASSUME NEW q \in Posts PROVE TrueOf(post[q].outcome, post[q].sub, post[q].answer)'
    <3>1. CASE post'[q] = post[q]
      BY <1>1, <3>1, OutcomesStay
    <3>2. CASE post'[q] = NoPost
      BY <3>2 DEF NoPost, TrueOf
    <3> QED BY <1>1, <3>1, <3>2
  <2>2. \A m \in Members, a \in Answers : TrueOf(guard[m][a], m, a)'
    BY <1>1, OutcomesStay
  <2> QED BY <2>1, <2>2 DEF OutcomeIsTrue
<1>3. PICK p \in Posts, a \in Answers : p = drain.post /\ a = drain.row
  BY <1>1
<1> DEFINE outcome == post[drain.post].outcome
<1>4. post[p].answer = a
  BY <1>1, <1>3 DEF Authored, DrainIsPinned
<1>5. outcome \in Outcomes => author[a] \in Members /\ post[p].sub = author[a]
  BY <1>3, <1>4, AnswersConstants DEF Authored, PostsAreTheirs, Typed, PostShape
<1>6. outcome \in Outcomes => TrueOf(outcome, author[a], a)
  BY <1>3, <1>4, <1>5 DEF Truthful, OutcomeIsTrue
<1>7. ASSUME NEW b \in Answers
      PROVE  /\ TrueOf(told[b], author[b], b)'
             /\ told'[b] \in Outcomes => author'[b] \in Members
  <2>1. CASE told'[b] = told[b]
    BY <1>1, <2>1, ToldStays
  <2>2. CASE b = a /\ told'[b] = outcome
    <3>1. CASE outcome \in Outcomes
      BY <1>1, <1>5, <1>6, <2>2, <3>1 DEF TrueOf
    <3>2. CASE outcome \notin Outcomes
      BY <2>2, <3>2 DEF TrueOf, Outcomes
    <3> QED BY <3>1, <3>2
  <2> QED BY <1>1, <1>3, <2>1, <2>2
<1>8. ConfirmedIsGuarded'
  BY <1>1 DEF Truthful, ConfirmedIsGuarded
<1> QED BY <1>2, <1>7, <1>8 DEF Truthful, ToldTheTruth, ToldIsGiven

\* What is said of an answer is true initially, and stays so.
LEMMA TruthfulInductive ==
  (Init => Truthful) /\ (Typed /\ Authored /\ Truthful /\ [Next]_vars => Truthful')
<1>1. Init => Truthful
  BY DEF Init, AnswersInit, NoPost, Truthful, OutcomeIsTrue, ToldTheTruth, ToldIsGiven,
         ConfirmedIsGuarded, TrueOf, Outcomes
<1>2. Typed /\ Authored /\ Truthful /\ [Next]_vars => Truthful'
  <2> SUFFICES ASSUME Typed, Authored, Truthful, [Next]_vars PROVE Truthful'
    OBVIOUS
  <2>1. Typed' /\ AuthorsStay
    BY TypedInductive, StepAuthorsStay
  <2>2. CASE UNCHANGED <<answersVars, told>>
    BY <2>1, <2>2, QuietTrue
  <2>3. CASE \/ UNCHANGED vars \/ Configure \/ SignOut \/ Kill \/ \E m \in Members : SignIn(m)
             \/ \E a \in Answers : EnqueueResponse(a) \/ ListOlder(a) \/ DiscardOlder(a)
                                   \/ BackoffEnds(a)
             \/ StartDrain \/ NextRow \/ CheckRow \/ ClaimForSync \/ TimeOut
    BY <2>2, <2>3 DEF vars, phoneVars, results, Configure, SignOut, Kill, SignIn, EnqueueResponse,
                      ListOlder, DiscardOlder, BackoffEnds, StartDrain, NextRow, CheckRow,
                      ClaimForSync, TimeOut
  <2> QED BY <2>1, <2>3, ServerTrue, PostRowTrue, ReceiveTrue DEF Next, PhoneStep, DrainStep
<1> QED BY <1>1, <1>2

-----------------------------------------------------------------------------
(* The voice escalation.                                                   *)

\* An escalation past its read of the roster is for a member who has a row, and one about to
\* be recorded has been published.
CallShape(c) ==
    /\ call[c].pc \in {"eligible", "publish", "record"} => roster[Callee[c]].answer # NoRow
    /\ call[c].pc = "record" => Callee[c] \in published

Escalating == TierFollowsEscalation /\ EscalationWasPublished /\ \A c \in Calls : CallShape(c)

\* A step that only adds answers to the roster, and tiers to rows without one.
LEMMA EscalationStays ==
  ASSUME Typed, Typed', RosterGrows, NEW c \in Calls, CallShape(c), call'[c].pc = call[c].pc,
         published \subseteq published'
  PROVE  CallShape(c)'
<1>1. /\ Callee[c] \in Members /\ roster[Callee[c]].answer \in {NoRow, None} \cup Answers
      /\ roster'[Callee[c]].answer \in {NoRow, None} \cup Answers
  BY AnswersConstants DEF Typed, AnswersTypeOK
<1>2. roster[Callee[c]].answer # NoRow => roster'[Callee[c]].answer # NoRow
  BY <1>1, Distinct DEF RosterGrows, NoRow, None
<1> QED BY <1>2 DEF CallShape

\* An answer that makes the row, or finds it, leaves its tier to the escalation.
LEMMA PostsEscalating ==
  ASSUME Typed, Typed', Escalating, NEW p \in Posts, PostRuns(p) \/ PostFails(p)
  PROVE  Escalating'
<1>1. UNCHANGED <<call, published, escalated>> /\ RosterGrows
  BY PostRunsFrame
     DEF PostRuns, CheckMember, WriteAnswer, ReadGuard, ApplyToRoster, RecordGuardOutcome, PostFails
<1>2. \A c \in Calls : CallShape(c)'
  BY <1>1, EscalationStays DEF Escalating
<1>3. TierFollowsEscalation'
  <2>1. CASE ApplyToRoster(p)
    <3>1. /\ post[p].sub \in Members /\ post[p].answer \in Answers
          /\ roster \in [Members -> RosterRows]
      BY <2>1 DEF ApplyToRoster, Typed, AnswersTypeOK, PostShape, RosterRows
    <3>2. PICK m \in Members, a \in Answers : m = post[p].sub /\ a = post[p].answer
      BY <3>1
    <3>3. PICK r : r = [answer |-> a, tier |-> Tiered(roster[m].tier)]
      OBVIOUS
    <3>4. roster' = roster \/ roster' = [roster EXCEPT ![m] = r]
      BY <2>1, <3>2, <3>3 DEF ApplyToRoster
    <3>5. /\ r.answer # NoRow /\ r.tier # "none"
          /\ r.tier = "escalation" <=> roster[m].tier = "escalation"
      BY <3>1, <3>3, Distinct DEF Tiered, RosterRows
    <3> QED BY <1>1, <3>1, <3>4, <3>5 DEF Escalating, TierFollowsEscalation
  <2>2. CASE UNCHANGED roster
    BY <1>1, <2>2 DEF Escalating, TierFollowsEscalation
  <2> QED BY <2>1, <2>2
          DEF PostRuns, CheckMember, WriteAnswer, ReadGuard, RecordGuardOutcome, PostFails
<1> QED BY <1>1, <1>2, <1>3 DEF Escalating, EscalationWasPublished

\* The seed makes a primary row, and the record of an escalation marks the row it found.
LEMMA CallsEscalating ==
  ASSUME Typed, Typed', Escalating, NEW c \in Calls, CallStep(c)
  PROVE  Escalating'
<1>1. /\ roster \in [Members -> RosterRows] /\ Callee[c] \in Members /\ RosterGrows
      /\ call \in [Calls -> [pc : CallPcs, attempt : 1..MaxAttempts]]
      /\ CallShape(c)
  BY CallRosterKept, AnswersConstants DEF Typed, AnswersTypeOK, RosterRows, CallPcs, Escalating
<1>2. PICK m \in Members : m = Callee[c]
  BY <1>1
<1>3. published \subseteq published' /\ \A d \in Calls \ {c} : call'[d] = call[d]
  BY <1>1 DEF CallStep, CallRuns, ScheduleEscalation, ReadRoster, IsInactive, PublishEscalation,
              RecordEscalation, CallFails, CallAt
<1>4. \A d \in Calls \ {c} : CallShape(d)'
  BY <1>1, <1>3, EscalationStays DEF Escalating
<1>5. CASE ScheduleEscalation(c)
  <2>1. PICK r : r = Seeded(roster[m])
    OBVIOUS
  <2>2. roster' = [roster EXCEPT ![m] = r] /\ UNCHANGED <<published, escalated>>
    BY <1>2, <1>5, <2>1 DEF ScheduleEscalation
  <2>3. /\ r.answer # NoRow /\ r.tier # "none"
        /\ r.tier = "escalation" <=> roster[m].tier = "escalation"
    BY <1>1, <2>1, Distinct DEF Seeded, Tiered, RosterRows
  <2>4. call'[c].pc = "scheduled"
    BY <1>1, <1>5 DEF ScheduleEscalation
  <2> QED BY <1>1, <1>4, <2>2, <2>3, <2>4
          DEF Escalating, TierFollowsEscalation, EscalationWasPublished, CallShape
<1>6. CASE ReadRoster(c)
  <2>1. UNCHANGED <<roster, published, escalated>>
    BY <1>6 DEF ReadRoster
  <2>2. \/ call'[c].pc \in {"skippedNotFound", "skippedAcked"}
        \/ call'[c].pc = "eligible" /\ roster[m].answer # NoRow
    BY <1>1, <1>2, <1>6 DEF ReadRoster, CallAt
  <2> QED BY <1>2, <1>4, <2>1, <2>2
          DEF Escalating, TierFollowsEscalation, EscalationWasPublished, CallShape
<1>7. CASE IsInactive(c)
  <2>1. UNCHANGED <<roster, published, escalated>> /\ roster[m].answer # NoRow
    BY <1>1, <1>2, <1>7 DEF IsInactive, CallShape
  <2>2. call'[c].pc \in {"publish", "skippedInactive"}
    BY <1>1, <1>7 DEF IsInactive, CallAt
  <2> QED BY <1>2, <1>4, <2>1, <2>2
          DEF Escalating, TierFollowsEscalation, EscalationWasPublished, CallShape
<1>8. CASE PublishEscalation(c)
  <2>1. /\ UNCHANGED <<roster, escalated>> /\ roster[m].answer # NoRow
        /\ published' = published \cup {m}
    BY <1>1, <1>2, <1>8 DEF PublishEscalation, CallShape
  <2>2. call'[c].pc = "record"
    BY <1>1, <1>8 DEF PublishEscalation, CallAt
  <2> QED BY <1>2, <1>4, <2>1, <2>2
          DEF Escalating, TierFollowsEscalation, EscalationWasPublished, CallShape
<1>9. CASE RecordEscalation(c)
  <2>1. m \in published /\ roster[m].answer # NoRow /\ UNCHANGED published
    BY <1>1, <1>2, <1>9 DEF RecordEscalation, CallShape
  <2>2. call'[c].pc \in {"escalated", "skippedAlready"}
    BY <1>1, <1>9 DEF RecordEscalation, CallAt
  <2>3. CASE roster' = roster /\ escalated' = escalated
    BY <1>4, <2>1, <2>2, <2>3
       DEF Escalating, TierFollowsEscalation, EscalationWasPublished, CallShape
  <2>4. CASE roster' = [roster EXCEPT ![m].tier = "escalation"] /\ escalated' = escalated \cup {m}
    <3>1. /\ roster'[m].answer = roster[m].answer /\ roster'[m].tier = "escalation"
          /\ \A n \in Members \ {m} : roster'[n] = roster[n]
      BY <1>1, <2>4 DEF RosterRows
    <3>2. TierFollowsEscalation'
      BY <2>1, <2>4, <3>1 DEF Escalating, TierFollowsEscalation
    <3> QED BY <1>4, <2>1, <2>2, <2>4, <3>2
            DEF Escalating, EscalationWasPublished, CallShape
  <2> QED BY <1>2, <1>9, <2>3, <2>4 DEF RecordEscalation
<1>10. CASE CallFails(c)
  <2>1. UNCHANGED <<roster, published, escalated>>
    BY <1>10 DEF CallFails
  <2>2. call'[c].pc \in {"scheduled", "failed"}
    BY <1>1, <1>10 DEF CallFails
  <2> QED BY <1>4, <2>1, <2>2
          DEF Escalating, TierFollowsEscalation, EscalationWasPublished, CallShape
<1> QED BY <1>5, <1>6, <1>7, <1>8, <1>9, <1>10 DEF CallStep, CallRuns

\* Rows, tiers and escalations agree initially and after every step.
LEMMA EscalatingInductive ==
  (Init => Escalating) /\ (Typed /\ Escalating /\ [Next]_vars => Escalating')
<1>1. Init => Escalating
  BY DEF Init, AnswersInit, Escalating, TierFollowsEscalation, EscalationWasPublished, CallShape
<1>2. Typed /\ Escalating /\ [Next]_vars => Escalating'
  <2> SUFFICES ASSUME Typed, Escalating, [Next]_vars PROVE Escalating'
    OBVIOUS
  <2>1. Typed'
    BY TypedInductive
  <2>2. CASE RosterStep
    BY <2>1, <2>2, PostsEscalating, CallsEscalating
       DEF RosterStep, CallStep, Leave, Escalating, TierFollowsEscalation, EscalationWasPublished,
           CallShape
  <2>3. CASE UNCHANGED <<roster, call, published, escalated>>
    BY <2>3 DEF Escalating, TierFollowsEscalation, EscalationWasPublished, CallShape
  <2> QED BY <2>2, <2>3
          DEF Next, PhoneStep, DrainStep, vars, answersVars, EnqueueResponse, ListOlder,
              DiscardOlder, BackoffEnds, Configure, SignOut, SignIn, Kill, StartDrain, NextRow,
              CheckRow, ClaimForSync, PostRow, ReceiveAnswer, TimeOut
<1> QED BY <1>1, <1>2

-----------------------------------------------------------------------------
(* Theorems.                                                               *)

IInv == Typed /\ Authored /\ Truthful /\ Escalating

\* In every reachable state the types, the owners, what is said and what is escalated agree:
\* the inductive invariant of recordResponse, its clients' outbox and the escalation.
THEOREM AnswersInductive == Spec => []IInv
<1>1. Init => IInv
  BY TypedInductive, AuthoredInductive, TruthfulInductive, EscalatingInductive DEF IInv
<1>2. IInv /\ [Next]_vars => IInv'
  BY TypedInductive, AuthoredInductive, TruthfulInductive, EscalatingInductive DEF IInv
<1> QED BY <1>1, <1>2, PTL DEF Spec

\* The roster, the guards, the posts and the escalations keep their types.
THEOREM AnswersTypeCorrect == Spec => []AnswersTypeOK
<1>1. IInv => AnswersTypeOK
  BY DEF IInv, Typed
<1> QED BY <1>1, AnswersInductive, PTL

\* However often an answer is posted, the platform bus hears of it once (writeAnswer).
THEOREM ConfirmedAtMostOnce == Spec => []ConfirmedOnce
<1>1. IInv => ConfirmedOnce
  BY DEF IInv, Truthful, ConfirmedIsGuarded, ConfirmedOnce
<1> QED BY <1>1, AnswersInductive, PTL

\* Every outcome answered, or kept for a replay, is true of the roster (applyToRoster,
\* recordGuardOutcome, replayAnswer).
THEOREM OutcomesAreTrue == Spec => []OutcomeIsTrue
<1>1. IInv => OutcomeIsTrue
  BY DEF IInv, Truthful
<1> QED BY <1>1, AnswersInductive, PTL

\* No answer is recorded as another's than its author's, on one phone that members share
\* (pinnedTokenSource, the owner stamp and the hint).
THEOREM AuthorsAreKept == Spec => []RecordedAsItsAuthor
<1>1. IInv => RecordedAsItsAuthor
  BY DEF IInv, Authored
<1> QED BY <1>1, AnswersInductive, PTL

\* What the phone tells its member of an answer is true (processEntry).
THEOREM PhonesTellTheTruth == Spec => []ToldTheTruth
<1>1. IInv => ToldTheTruth
  BY DEF IInv, Truthful
<1> QED BY <1>1, AnswersInductive, PTL

\* A row says escalation exactly when one is recorded, and a row that exists has a tier.
THEOREM TiersFollowEscalations == Spec => []TierFollowsEscalation
<1>1. IInv => TierFollowsEscalation
  BY DEF IInv, Escalating
<1> QED BY <1>1, AnswersInductive, PTL

\* An escalation is recorded only of a member whose call was published.
THEOREM EscalationsWerePublished == Spec => []EscalationWasPublished
<1>1. IInv => EscalationWasPublished
  BY DEF IInv, Escalating
<1> QED BY <1>1, AnswersInductive, PTL

\* No step of the server or the phone takes a roster row back to an older answer, or to none.
THEOREM RostersOnlyGrow == Spec => RosterNeverGoesBack
<1>1. IInv /\ [Next]_vars => [\A m \in Members : roster'[m].answer >= roster[m].answer]_answersVars
  <2> SUFFICES ASSUME Typed, [Next]_vars
               PROVE  \/ \A m \in Members : roster'[m].answer >= roster[m].answer
                      \/ UNCHANGED answersVars
    BY DEF IInv
  <2>1. Typed'
    BY TypedInductive
  <2>2. RosterGrows \/ UNCHANGED answersVars
    BY ServerTyped, PostRowTyped, ReceiveTyped
       DEF Next, PhoneStep, DrainStep, vars, EnqueueResponse, ListOlder, DiscardOlder, BackoffEnds,
           Configure, SignOut, SignIn, Kill, StartDrain, NextRow, CheckRow, ClaimForSync, TimeOut
  <2>3. \A m \in Members : roster[m].answer \in Int /\ roster'[m].answer \in Int
    BY <2>1, Distinct DEF Typed, AnswersTypeOK, NoRow, None
  <2> QED BY <2>2, <2>3 DEF RosterGrows
<1> QED BY <1>1, AnswersInductive, PTL DEF Spec, RosterNeverGoesBack

-----------------------------------------------------------------------------
(* No newest answer is lost.                                               *)

\* No two answers were given while the keychain could not be read.
OneOwnerless ==
    \A a, b \in Answers : /\ author[a] # NoOne /\ row[a].owner = NoOne
                          /\ author[b] # NoOne /\ row[b].owner = NoOne
                          => a = b

RowsAreGiven == \A a \in Rows : author[a] # NoOne

\* What an answer being queued will discard is older, and of its author.
DroppingOlder ==
    \A a \in Answers :
        /\ dropping[a].pc # "no" => author[a] # NoOne
        /\ dropping[a].pc # "discard" => dropping[a].rows = {}
        /\ \A b \in dropping[a].rows : b \in Answers => b < a /\ author[b] = author[a]

\* A guard, and an outcome, stand for an answer the platform bus has heard of.
RecordedIsConfirmed ==
    /\ \A m \in Members, a \in Answers : guard[m][a] # "absent" => confirmed[a] # 0
    /\ \A p \in Posts : post[p].outcome \in Outcomes => confirmed[post[p].answer] # 0

DroppingStates == [pc : {"no", "list", "discard"}, rows : SUBSET Answers]

Kept == /\ dropping \in [Answers -> DroppingStates]
        /\ OneOwnerless /\ RowsAreGiven /\ DroppingOlder /\ RecordedIsConfirmed
        /\ NewestAnswerIsKept

\* Rows that the outbox takes for one member's are.
LEMMA SiblingsShareTheirAuthor ==
  ASSUME Authored, OneOwnerless, NEW a \in Answers, NEW b \in Answers, a # b,
         author[a] # NoOne, author[b] # NoOne, SameOwner(a, b)
  PROVE  author[a] = author[b]
BY DEF Authored, RowsAreTheirs, OneOwnerless, SameOwner

\* The server's steps forget no confirmation, and answer an outcome only of a confirmed answer.
LEMMA ServerConfirms ==
  ASSUME Typed, Typed', RecordedIsConfirmed, RosterStep
  PROVE  /\ RecordedIsConfirmed'
         /\ \A a \in Answers : confirmed[a] # 0 => confirmed'[a] # 0
<1>1. /\ confirmed \in [Answers -> Nat] /\ post \in [Posts -> PostStates]
      /\ guard \in [Members -> [Answers -> {"absent", "open"} \cup Outcomes]]
      /\ \A p \in Posts : PostShape(p)
  BY DEF Typed, AnswersTypeOK, PostStates
<1>2. ASSUME NEW p \in Posts, PostRuns(p) \/ PostFails(p)
      PROVE  /\ \A m \in Members, a \in Answers : guard'[m][a] # "absent" => confirmed'[a] # 0
             /\ \A a \in Answers : confirmed[a] # 0 => confirmed'[a] # 0
  <2>1. CASE WriteAnswer(p)
    <3>1. PICK m \in Members, a \in Answers : m = post[p].sub /\ a = post[p].answer
      BY <1>1, <2>1 DEF WriteAnswer, PostShape
    <3>2. CASE GuardIsFree(m, a)
      <4>1. confirmed' = [confirmed EXCEPT ![a] = @ + 1] /\ guard' = [guard EXCEPT ![m][a] = "open"]
        BY <2>1, <3>1, <3>2 DEF WriteAnswer
      <4>2. \A b \in Answers : confirmed'[b] = IF b = a THEN confirmed[a] + 1 ELSE confirmed[b]
        BY <1>1, <4>1
      <4>3. \A n \in Members, b \in Answers : b # a => guard'[n][b] = guard[n][b]
        BY <1>1, <4>1
      <4>4. confirmed[a] \in Nat
        BY <1>1
      <4> QED BY <4>2, <4>3, <4>4 DEF RecordedIsConfirmed
    <3>3. CASE ~GuardIsFree(m, a)
      BY <2>1, <3>1, <3>3 DEF WriteAnswer, RecordedIsConfirmed
    <3> QED BY <3>2, <3>3
  <2>2. CASE RecordGuardOutcome(p)
    <3>1. PICK m \in Members, a \in Answers, outcome \in Outcomes :
             m = post[p].sub /\ a = post[p].answer /\ outcome = post[p].outcome
      BY <1>1, <2>2 DEF RecordGuardOutcome, PostShape
    <3>2. guard' = guard \/ guard' = [guard EXCEPT ![m][a] = outcome]
      BY <2>2, <3>1 DEF RecordGuardOutcome
    <3>3. UNCHANGED confirmed /\ confirmed[a] # 0
      BY <2>2, <3>1 DEF RecordGuardOutcome, RecordedIsConfirmed
    <3>4. \A n \in Members, b \in Answers : b # a => guard'[n][b] = guard[n][b]
      BY <1>1, <3>2
    <3> QED BY <3>3, <3>4 DEF RecordedIsConfirmed
  <2>3. CASE UNCHANGED <<guard, confirmed>>
    BY <2>3 DEF RecordedIsConfirmed
  <2> QED BY <1>2, <2>1, <2>2, <2>3
          DEF PostRuns, CheckMember, ReadGuard, ApplyToRoster, PostFails
<1>3. CASE \E p \in Posts : PostRuns(p) \/ PostFails(p)
  <2>1. PICK p \in Posts : PostRuns(p) \/ PostFails(p)
    BY <1>3
  <2>2. /\ \A q \in Posts \ {p} : post'[q] = post[q]
        /\ post'[p].answer = post[p].answer
    BY <2>1, PostRunsFrame
  <2>3. \A a \in Answers : confirmed[a] # 0 => confirmed'[a] # 0
    BY <1>2, <2>1
  <2>4. ASSUME NEW q \in Posts, q # p, post'[q].outcome \in Outcomes
        PROVE  confirmed'[post'[q].answer] # 0
    <3>1. post'[q] = post[q] /\ post[q].answer \in Answers
      BY <1>1, <2>2, <2>4 DEF PostShape
    <3> QED BY <2>3, <2>4, <3>1 DEF RecordedIsConfirmed
  <2>5. ASSUME post'[p].outcome \in Outcomes
        PROVE  confirmed[post[p].answer] # 0 /\ post[p].answer \in Answers
    <3>1. CASE post[p].outcome \in Outcomes
      BY <1>1, <3>1 DEF RecordedIsConfirmed, PostShape
    <3>2. CASE ReadGuard(p) \/ ApplyToRoster(p)
      <4>1. PICK m \in Members, a \in Answers : m = post[p].sub /\ a = post[p].answer
        BY <1>1, <3>2 DEF ReadGuard, ApplyToRoster, PostShape
      <4>2. guard[m][a] # "absent"
        BY <1>1, <3>2, <4>1 DEF ReadGuard, ApplyToRoster, PostShape
      <4> QED BY <4>1, <4>2 DEF RecordedIsConfirmed
    <3>3. CASE CheckMember(p) \/ WriteAnswer(p) \/ RecordGuardOutcome(p) \/ PostFails(p)
      <4>1. \/ post'[p].outcome = post[p].outcome
            \/ post'[p].outcome \in {"unauthorized", "ineligible", "unavailable"}
        BY <1>1, <3>3 DEF CheckMember, WriteAnswer, RecordGuardOutcome, PostFails, Answered, PostStates
      <4> QED BY <2>5, <3>1, <4>1 DEF Outcomes
    <3> QED BY <2>1, <3>2, <3>3 DEF PostRuns
  <2> QED BY <1>2, <2>1, <2>2, <2>3, <2>4, <2>5 DEF RecordedIsConfirmed
<1>4. CASE UNCHANGED <<guard, confirmed, post>>
  BY <1>4 DEF RecordedIsConfirmed
<1> QED BY <1>3, <1>4, CallsTyped DEF RosterStep, CallStep, Leave

\* Rows are taken from the outbox only with a reason.
LEMMA GoneForAReason ==
  ASSUME Kept, NEW gone, row' = Removed(gone), UNCHANGED <<author, confirmed>>,
         discarded \subseteq discarded',
         \A b \in gone \cap Rows :
            \/ b \in discarded' \/ confirmed[b] > 0
            \/ \E c \in Answers : c > b /\ author[c] = author[b]
  PROVE  NewestAnswerIsKept' /\ Rows' \subseteq Rows
<1>1. Rows' \subseteq Rows /\ \A b \in Rows : b \notin gone => b \in Rows'
  BY DEF Rows, Removed
<1> QED BY <1>1 DEF Kept, NewestAnswerIsKept

\* Steps that keep every row in the outbox keep every answer.
LEMMA NothingGone ==
  ASSUME Kept, UNCHANGED author, Rows' = Rows, discarded \subseteq discarded',
         \A a \in Answers : confirmed[a] # 0 => confirmed'[a] # 0,
         confirmed \in [Answers -> Nat], confirmed' \in [Answers -> Nat]
  PROVE  NewestAnswerIsKept'
BY DEF Kept, NewestAnswerIsKept

\* The owners of the rows, and what is about to be discarded, as most steps leave them.
LEMMA OwnersKept ==
  ASSUME Typed, Kept, UNCHANGED author, Rows' \subseteq Rows,
         \A a \in Answers : row'[a].owner = row[a].owner,
         dropping' \in [Answers -> DroppingStates],
         \A a \in Answers : dropping'[a] = dropping[a] \/ dropping'[a] = NotDropping
  PROVE  /\ dropping' \in [Answers -> DroppingStates]
         /\ OneOwnerless' /\ RowsAreGiven' /\ DroppingOlder'
<1>1. OneOwnerless'
  BY DEF Kept, OneOwnerless
<1>2. RowsAreGiven'
  BY DEF Kept, RowsAreGiven
<1>3. DroppingOlder'
  BY DEF Kept, DroppingOlder, NotDropping
<1> QED BY <1>1, <1>2, <1>3

LEMMA RowsOfTheOutbox ==
  ASSUME Typed
  PROVE  /\ \A a \in Answers, status \in {"SYNCING", "REJECTED", "BACKOFF", "FAILED"} :
               row' = Marked(a, status) => Rows' = Rows
         /\ row' = Recovered(row) => Rows' = Rows
         /\ row' = row => Rows' = Rows
<1>1. row \in [Answers -> OutboxRows]
  BY DEF Typed, PhoneTypeOK
<1>2. ASSUME NEW a \in Answers, NEW status \in {"SYNCING", "REJECTED", "BACKOFF", "FAILED"},
             row' = Marked(a, status)
      PROVE  Rows' = Rows
  <2>1. CASE a \in Rows
    <3>1. row' = [row EXCEPT ![a].status = status]
      BY <1>2, <2>1 DEF Marked
    <3>2. row'[a].status = status /\ \A b \in Answers \ {a} : row'[b] = row[b]
      BY <1>1, <3>1 DEF OutboxRows
    <3>3. status # "absent" /\ row[a].status # "absent"
      BY <2>1 DEF Rows
    <3> QED BY <3>2, <3>3 DEF Rows
  <2>2. CASE a \notin Rows
    BY <1>2, <2>2 DEF Marked, Rows
  <2> QED BY <2>1, <2>2
<1>3. ASSUME row' = Recovered(row) PROVE Rows' = Rows
  <2>1. \A a \in Answers : row'[a].status = IF row[a].status = "SYNCING" THEN "QUEUED"
                                            ELSE row[a].status
    BY <1>1, <1>3 DEF Recovered, OutboxRows
  <2> QED BY <2>1 DEF Rows
<1>4. row' = row => Rows' = Rows
  BY DEF Rows
<1> QED BY <1>2, <1>3, <1>4

\* Giving an answer puts it in the outbox; at most one is there without its owner.
LEMMA EnqueueKept ==
  ASSUME MaxUnread <= 1, Typed, Authored, Kept, NEW a \in Answers, EnqueueResponse(a)
  PROVE  Kept'
<1>1. /\ row \in [Answers -> OutboxRows] /\ author \in [Answers -> Members \cup {NoOne}]
      /\ dropping \in [Answers -> DroppingStates]
      /\ author[a] = NoOne /\ session # NoOne /\ author' = [author EXCEPT ![a] = session]
      /\ UNCHANGED <<guard, confirmed, post, discarded>>
  BY DEF Typed, PhoneTypeOK, Kept, EnqueueResponse, answersVars, results
<1>2. \A b \in Answers \ {a} : author'[b] = author[b]
  BY <1>1
<1>3. author'[a] = session
  BY <1>1
<1>4. PICK owner : /\ row' = [row EXCEPT ![a] = Stamp(owner)]
                   /\ owner = NoOne => Cardinality(Unowned) < MaxUnread
  BY <1>1 DEF EnqueueResponse
<1>5. row'[a] = Stamp(owner) /\ \A b \in Answers \ {a} : row'[b] = row[b]
  BY <1>1, <1>4
<1>6. row'[a].owner = owner /\ row'[a].status = "QUEUED"
  BY <1>5 DEF Stamp
<1>7. Rows' = Rows \cup {a}
  BY <1>5, <1>6 DEF Rows
<1>8. owner = NoOne => Unowned = {}
  <2> SUFFICES ASSUME owner = NoOne PROVE Unowned = {}
    OBVIOUS
  <2>1. IsFiniteSet(Answers)
    BY FS_Interval, AnswersConstants DEF Answers
  <2>2. IsFiniteSet(Unowned)
    BY <2>1, FS_Subset DEF Unowned
  <2>3. Cardinality(Unowned) \in Nat
    BY <2>2, FS_CardinalityType
  <2>4. Cardinality(Unowned) = 0
    BY <1>4, <2>3, AnswerOutboxConstants
  <2> QED BY <2>2, <2>4, FS_EmptySet
<1>9. OneOwnerless'
  BY <1>2, <1>5, <1>6, <1>8 DEF Kept, OneOwnerless, Unowned
<1>10. RowsAreGiven'
  BY <1>1, <1>2, <1>3, <1>7 DEF Kept, RowsAreGiven, Rows
<1>11. dropping' \in [Answers -> DroppingStates]
  BY <1>1 DEF EnqueueResponse, DroppingStates
<1>12. DroppingOlder'
  <2>1. /\ dropping'[a].rows = {} /\ dropping'[a].pc # "discard"
        /\ \A b \in Answers \ {a} : dropping'[b] = dropping[b]
    BY <1>1 DEF EnqueueResponse, DroppingStates, Kept, DroppingOlder
  <2>2. ASSUME NEW b \in Answers, b # a, NEW c \in dropping'[b].rows, c \in Answers
        PROVE  c < b /\ author'[c] = author'[b]
    <3>1. /\ c < b /\ author[c] = author[b] /\ author[b] # NoOne
      BY <2>1, <2>2 DEF Kept, DroppingOlder
    <3> QED BY <1>1, <1>2, <2>2, <3>1
  <2>3. \A b \in Answers : dropping'[b].pc # "no" => author'[b] # NoOne
    BY <1>1, <1>2, <1>3, <2>1 DEF Kept, DroppingOlder
  <2> QED BY <2>1, <2>2, <2>3 DEF Kept, DroppingOlder
<1>13. RecordedIsConfirmed'
  BY <1>1 DEF Kept, RecordedIsConfirmed
<1>14. NewestAnswerIsKept'
  <2> SUFFICES ASSUME NEW b \in Answers, b # a, author[b] # NoOne
               PROVE  \/ b \in Rows' \/ b \in discarded' \/ confirmed'[b] > 0
                      \/ \E c \in Answers : c > b /\ author'[c] = author'[b]
    BY <1>2, <1>7 DEF NewestAnswerIsKept
  <2> QED BY <1>1, <1>2, <1>7 DEF Kept, NewestAnswerIsKept
<1> QED BY <1>9, <1>10, <1>11, <1>12, <1>13, <1>14 DEF Kept

\* Only an older answer of the same author is discarded for the one that is queued.
LEMMA DiscardKept ==
  ASSUME Typed, Authored, Kept, NEW a \in Answers, ListOlder(a) \/ DiscardOlder(a)
  PROVE  Kept'
<1>1. /\ UNCHANGED <<guard, confirmed, post, author, discarded>>
      /\ dropping \in [Answers -> DroppingStates]
      /\ confirmed \in [Answers -> Nat]
  BY DEF ListOlder, DiscardOlder, answersVars, results, who, Kept, Typed, AnswersTypeOK
<1>2. RecordedIsConfirmed'
  BY <1>1 DEF Kept, RecordedIsConfirmed
<1>3. CASE ListOlder(a)
  <2>1. PICK rows : rows = {b \in OlderSiblings(a) : row[b].status # "SYNCING"}
    OBVIOUS
  <2>2. /\ dropping' = [dropping EXCEPT ![a] = [pc |-> "discard", rows |-> rows]]
        /\ UNCHANGED row /\ author[a] # NoOne
    BY <1>3, <2>1 DEF ListOlder, Kept, DroppingOlder
  <2>3. ASSUME NEW b \in rows PROVE b \in Answers /\ b < a /\ author[b] = author[a]
    <3>1. b \in Rows /\ b < a /\ SameOwner(a, b) /\ b \in Answers
      BY <2>1 DEF OlderSiblings, Rows
    <3>2. author[b] # NoOne /\ a # b
      BY <3>1, Distinct DEF Kept, RowsAreGiven
    <3> QED BY <2>2, <3>1, <3>2, SiblingsShareTheirAuthor DEF Kept
  <2>4. dropping' \in [Answers -> DroppingStates]
    BY <1>1, <2>2, <2>3 DEF DroppingStates
  <2>5. /\ dropping'[a].pc = "discard" /\ dropping'[a].rows = rows
        /\ \A b \in Answers \ {a} : dropping'[b] = dropping[b]
    BY <1>1, <2>2
  <2>6. DroppingOlder'
    BY <1>1, <2>2, <2>3, <2>5 DEF Kept, DroppingOlder
  <2>7. OneOwnerless' /\ RowsAreGiven' /\ NewestAnswerIsKept'
    BY <1>1, <2>2 DEF Kept, OneOwnerless, RowsAreGiven, NewestAnswerIsKept, Rows
  <2> QED BY <1>2, <2>4, <2>6, <2>7 DEF Kept
<1>4. CASE DiscardOlder(a)
  <2>1. row' = Removed(dropping[a].rows) /\ dropping' = [dropping EXCEPT ![a] = NotDropping]
    BY <1>4 DEF DiscardOlder
  <2>2. \A b \in dropping[a].rows \cap Rows : a > b /\ author[a] = author[b]
    BY Distinct DEF Kept, DroppingOlder, Rows
  <2>3. NewestAnswerIsKept' /\ Rows' \subseteq Rows
    BY <1>1, <2>1, <2>2, GoneForAReason
  <2>4. NotDropping \in DroppingStates
    BY DEF NotDropping, DroppingStates
  <2>5. /\ dropping' \in [Answers -> DroppingStates]
        /\ \A b \in Answers : dropping'[b] = dropping[b] \/ dropping'[b] = NotDropping
    BY <1>1, <2>1, <2>4
  <2>6. OneOwnerless' /\ RowsAreGiven' /\ DroppingOlder'
    BY <1>1, <2>1, <2>3, <2>5, OwnersKept, OutboxKeepsOwners
  <2> QED BY <1>2, <2>3, <2>5, <2>6 DEF Kept
<1> QED BY <1>3, <1>4

\* What a sign-out, a superseded row and an answer of the server take from the outbox.
LEMMA RemovalsKept ==
  ASSUME Typed, Typed', Authored, Kept, SignOut \/ CheckRow \/ ReceiveAnswer
  PROVE  Kept'
<1>1. /\ UNCHANGED <<guard, confirmed, author, dropping>>
      /\ dropping \in [Answers -> DroppingStates]
      /\ confirmed \in [Answers -> Nat]
      /\ discarded \subseteq discarded'
  BY DEF SignOut, CheckRow, ReceiveAnswer, answersVars, results, who, Kept, Typed, AnswersTypeOK
<1>2. RecordedIsConfirmed'
  <2>1. \A q \in Posts : post'[q] = post[q] \/ post'[q] = NoPost
    BY ReceiveTyped DEF SignOut, CheckRow, answersVars
  <2> QED BY <1>1, <2>1 DEF Kept, RecordedIsConfirmed, NoPost, Outcomes
<1>3. PICK gone : \/ row' = Removed(gone)
                  \/ /\ gone = {}
                     /\ \/ row' = row
                        \/ \E a \in Answers, status \in {"REJECTED", "BACKOFF"} :
                              row' = Marked(a, status)
  <2>1. CASE SignOut
    <3>1. row' = row \/ \E gone : row' = Removed(gone)
      BY <2>1 DEF SignOut
    <3>2. \E gone : gone = {}
      OBVIOUS
    <3> QED BY <3>1, <3>2
  <2>2. CASE CheckRow
    <3>1. row' = row \/ \E gone : row' = Removed(gone)
      BY <2>2 DEF CheckRow
    <3>2. \E gone : gone = {}
      OBVIOUS
    <3> QED BY <3>1, <3>2
  <2>3. CASE ReceiveAnswer
    <3>1. drain.row \in Answers
      BY <2>3 DEF ReceiveAnswer, Typed, DrainShape
    <3>2. \/ \E gone : row' = Removed(gone)
          \/ \E status \in {"REJECTED", "BACKOFF"} : row' = Marked(drain.row, status)
      BY <2>3 DEF ReceiveAnswer
    <3>3. \E gone : gone = {}
      OBVIOUS
    <3> QED BY <3>1, <3>2, <3>3
  <2> QED BY <2>1, <2>2, <2>3
<1>4. NewestAnswerIsKept' /\ Rows' \subseteq Rows
  <2>1. CASE SignOut
    <3>1. CASE row' = row
      BY <1>1, <3>1 DEF Kept, NewestAnswerIsKept, Rows
    <3>2. CASE \E unsent : row' = Removed(unsent) /\ discarded' = discarded \cup unsent
      <4>1. PICK unsent : row' = Removed(unsent) /\ discarded' = discarded \cup unsent
        BY <3>2
      <4> QED BY <1>1, <4>1, GoneForAReason
    <3> QED BY <2>1, <3>1, <3>2 DEF SignOut
  <2>2. CASE CheckRow
    <3>1. CASE row' = row
      BY <1>1, <3>1 DEF Kept, NewestAnswerIsKept, Rows
    <3>2. CASE ~(drain.row \in Rows /\ ~IsSuperseded(drain.row)) /\ row' = Removed({drain.row})
      <4>1. ASSUME drain.row \in Rows
            PROVE  \E b \in Answers : b > drain.row /\ author[b] = author[drain.row]
        <5>1. PICK b \in Rows : b > drain.row /\ SameOwner(drain.row, b)
          BY <3>2, <4>1 DEF IsSuperseded
        <5>2. /\ drain.row \in Answers /\ b \in Answers /\ drain.row # b
              /\ author[drain.row] # NoOne /\ author[b] # NoOne
          BY <4>1, <5>1, Distinct DEF Rows, Kept, RowsAreGiven
        <5> QED BY <5>1, <5>2, SiblingsShareTheirAuthor DEF Kept
      <4> QED BY <1>1, <3>2, <4>1, GoneForAReason
    <3> QED BY <2>2, <3>1, <3>2 DEF CheckRow
  <2>3. CASE ReceiveAnswer
    <3>1. drain.row \in Answers /\ drain.post \in Posts
      BY <2>3, ReceiveTyped
    <3>2. CASE post[drain.post].outcome = "applied" /\ row' = Removed({drain.row})
      <4>1. post[drain.post].answer = drain.row
        BY <2>3 DEF ReceiveAnswer, Authored, DrainIsPinned
      <4>2. confirmed[drain.row] > 0
        BY <1>1, <3>1, <3>2, <4>1 DEF Kept, RecordedIsConfirmed, Outcomes
      <4> QED BY <1>1, <3>2, <4>2, GoneForAReason
    <3>3. CASE row' = Marked(drain.row, "REJECTED") \/ row' = Marked(drain.row, "BACKOFF")
      BY <1>1, <3>1, <3>3, RowsOfTheOutbox, NothingGone
    <3> QED BY <2>3, <3>2, <3>3 DEF ReceiveAnswer
  <2> QED BY <2>1, <2>2, <2>3
<1>5. \A a \in Answers : row'[a].owner = row[a].owner
  BY <1>3, OutboxKeepsOwners
<1>6. OneOwnerless' /\ RowsAreGiven' /\ DroppingOlder'
  BY <1>1, <1>4, <1>5, OwnersKept
<1> QED BY <1>1, <1>2, <1>4, <1>6 DEF Kept

\* The server's steps, and those of the phone that take nothing from the outbox.
LEMMA OthersKept ==
  ASSUME Typed, Typed', Kept,
         \/ RosterStep /\ UNCHANGED phoneVars
         \/ Configure \/ Kill \/ \E m \in Members : SignIn(m)
         \/ \E a \in Answers : BackoffEnds(a)
         \/ StartDrain \/ NextRow \/ ClaimForSync \/ PostRow \/ TimeOut
         \/ UNCHANGED vars
  PROVE  Kept'
<1>1. UNCHANGED <<author, discarded>> /\ confirmed \in [Answers -> Nat] /\ confirmed' \in [Answers -> Nat]
  BY DEF phoneVars, who, results, Configure, Kill, SignIn, BackoffEnds, StartDrain, NextRow,
         ClaimForSync, PostRow, TimeOut, vars, Typed, AnswersTypeOK
<1>2. Rows' = Rows /\ \A a \in Answers : row'[a].owner = row[a].owner
  <2>1. CASE row' = row
    BY <2>1 DEF Rows
  <2>2. CASE row' = Recovered(row)
    BY <2>2, RowsOfTheOutbox, OutboxKeepsOwners
  <2>3. CASE \E a \in Answers, status \in {"SYNCING", "BACKOFF", "FAILED"} : row' = Marked(a, status)
    BY <2>3, RowsOfTheOutbox, OutboxKeepsOwners
  <2>4. CASE ClaimForSync \/ TimeOut
    <3>1. drain.row \in Answers
      BY <2>4 DEF ClaimForSync, TimeOut, Typed, DrainShape
    <3> QED BY <2>1, <2>3, <2>4, <3>1 DEF ClaimForSync, TimeOut
  <2> QED BY <2>1, <2>2, <2>3, <2>4
          DEF phoneVars, Configure, Kill, SignIn, BackoffEnds, StartDrain, NextRow, PostRow, vars
<1>3. /\ dropping' \in [Answers -> DroppingStates]
      /\ \A a \in Answers : dropping'[a] = dropping[a] \/ dropping'[a] = NotDropping
  <2>1. NotDropping \in DroppingStates
    BY DEF NotDropping, DroppingStates
  <2> QED BY <2>1 DEF Kept, phoneVars, Configure, Kill, SignIn, BackoffEnds, StartDrain, NextRow,
                      ClaimForSync, PostRow, TimeOut, vars
<1>4. RecordedIsConfirmed' /\ \A a \in Answers : confirmed[a] # 0 => confirmed'[a] # 0
  <2>1. CASE RosterStep
    BY <2>1, ServerConfirms DEF Kept
  <2>2. CASE PostRow
    <3>1. UNCHANGED <<guard, confirmed>>
      BY <2>2 DEF PostRow
    <3>2. CASE UNCHANGED post
      BY <3>1, <3>2 DEF Kept, RecordedIsConfirmed
    <3>3. CASE ~UNCHANGED post
      <4>1. PICK p \in Posts : /\ \A q \in Posts \ {p} : post'[q] = post[q]
                               /\ post'[p] = [pc |-> "sent", answer |-> drain.row,
                                              sub |-> PinnedToken, outcome |-> "none"]
        BY <2>2, <3>3, PostRowTyped
      <4>2. post'[p].outcome \notin Outcomes
        BY <4>1 DEF Outcomes
      <4> QED BY <3>1, <4>1, <4>2 DEF Kept, RecordedIsConfirmed
    <3> QED BY <3>2, <3>3
  <2>3. CASE UNCHANGED <<guard, confirmed, post>>
    BY <2>3 DEF Kept, RecordedIsConfirmed
  <2> QED BY <2>1, <2>2, <2>3
          DEF answersVars, Configure, Kill, SignIn, BackoffEnds, StartDrain, NextRow, ClaimForSync,
              TimeOut, vars
<1>5. NewestAnswerIsKept'
  BY <1>1, <1>2, <1>4, NothingGone
<1>6. OneOwnerless' /\ RowsAreGiven' /\ DroppingOlder'
  BY <1>1, <1>2, <1>3, OwnersKept
<1> QED BY <1>3, <1>4, <1>5, <1>6 DEF Kept

\* If at most one answer is given while the keychain cannot be read, a member's newest answer is
\* on the phone until it is recorded, or its author has it discarded (enqueueResponse, runDrain,
\* processEntry).
THEOREM NewestAnswersAreKept ==
  ASSUME MaxUnread <= 1
  PROVE  Spec => []NewestAnswerIsKept
<1>1. Init => Kept
  BY DEF Init, AnswersInit, Absent, NotDropping, NoPost, Kept, DroppingStates, OneOwnerless,
         RowsAreGiven, DroppingOlder, RecordedIsConfirmed, NewestAnswerIsKept, Rows, Outcomes
<1>2. IInv /\ Kept /\ [Next]_vars => Kept'
  <2> SUFFICES ASSUME Typed, Authored, Kept, [Next]_vars PROVE Kept'
    BY DEF IInv
  <2>1. Typed'
    BY TypedInductive
  <2> QED BY <2>1, EnqueueKept, DiscardKept, RemovalsKept, OthersKept DEF Next, PhoneStep, DrainStep
<1>3. Kept => NewestAnswerIsKept
  BY DEF Kept
<1> QED BY <1>1, <1>2, <1>3, AnswersInductive, PTL DEF Spec

-----------------------------------------------------------------------------
(* No silent member is skipped.                                            *)

RunningCalls == {"scheduled", "eligible", "publish", "record", "escalated"}

EndedCalls == {"escalated", "skippedNotFound", "skippedAcked", "skippedInactive",
               "skippedAlready", "failed"}

\* What an escalation found, and what it has done, still accounts for where it is; and it has failed
\* as often as it was tried before.
CallAccounts(c) ==
    /\ call[c].attempt <= failures + 1
    /\ call[c].pc = "failed" => MaxAttempts <= failures
    /\ call[c].pc \in RunningCalls => roster[Callee[c]].answer # NoRow
    /\ call[c].pc # "skippedNotFound"
    /\ call[c].pc = "skippedAcked" => roster[Callee[c]].answer > None
    /\ call[c].pc = "skippedInactive" => Callee[c] \notin active
    /\ call[c].pc \in {"escalated", "skippedAlready"} => Callee[c] \in published

AllAccountedFor == \A c \in Calls : CallAccounts(c)

\* An escalation that is over has called its member, or the member answered or left, unless every
\* one of its attempts failed.
NoSilentMemberIsSkipped ==
    \A c \in Calls : call[c].pc \in EndedCalls =>
        \/ Callee[c] \in published \cup (Members \ active)
        \/ roster[Callee[c]].answer > None
        \/ call[c].pc = "failed" /\ MaxAttempts <= failures

\* What accounts for an escalation is never taken back.
NothingTakenBack ==
    /\ RosterGrows /\ failures <= failures'
    /\ active' \subseteq active /\ published \subseteq published'

\* So it accounts for an escalation that does not move.
LEMMA AccountsStay ==
  ASSUME Typed, Typed', NothingTakenBack, NEW c \in Calls, CallAccounts(c), call'[c] = call[c]
  PROVE  CallAccounts(c)'
<1>1. /\ Callee[c] \in Members
      /\ roster[Callee[c]].answer \in Int /\ roster'[Callee[c]].answer \in Int
      /\ roster[Callee[c]].answer \in {NoRow, None} \cup Answers
      /\ roster'[Callee[c]].answer \in {NoRow, None} \cup Answers
  BY AnswersConstants, Distinct DEF Typed, AnswersTypeOK, NoRow, None
<1>2. roster[Callee[c]].answer # NoRow => roster'[Callee[c]].answer # NoRow
  BY <1>1, Distinct DEF NothingTakenBack, RosterGrows, NoRow, None
<1>3. roster[Callee[c]].answer > None => roster'[Callee[c]].answer > None
  BY <1>1 DEF NothingTakenBack, RosterGrows, None
<1>4. /\ failures \in Nat /\ failures' \in Nat /\ MaxAttempts \in Nat /\ call[c].attempt \in Nat
  BY AnswersConstants DEF Typed, AnswersTypeOK
<1>5. call'[c].attempt <= failures' + 1 /\ (call'[c].pc = "failed" => MaxAttempts <= failures')
  BY <1>4 DEF CallAccounts, NothingTakenBack
<1> QED BY <1>2, <1>3, <1>5 DEF CallAccounts, NothingTakenBack

\* An escalation's step leaves the others alone and takes nothing back.
LEMMA CallsTakeNothingBack ==
  ASSUME Typed, NEW c \in Calls, CallStep(c)
  PROVE  /\ NothingTakenBack
         /\ \A d \in Calls \ {c} : call'[d] = call[d]
<1>1. failures \in Nat /\ call \in [Calls -> [pc : CallPcs, attempt : 1..MaxAttempts]]
  BY AnswersConstants DEF Typed, AnswersTypeOK, CallPcs
<1>2. RosterGrows /\ UNCHANGED active
  BY CallRosterKept, CallsTyped
<1>3. failures <= failures' /\ published \subseteq published'
  BY <1>1 DEF CallStep, CallRuns, ScheduleEscalation, ReadRoster, IsInactive, PublishEscalation,
              RecordEscalation, CallFails
<1>4. \A d \in Calls \ {c} : call'[d] = call[d]
  BY <1>1 DEF CallStep, CallRuns, ScheduleEscalation, ReadRoster, IsInactive, PublishEscalation,
              RecordEscalation, CallFails, CallAt
<1> QED BY <1>2, <1>3, <1>4 DEF NothingTakenBack

\* An escalation's own step keeps its account.
LEMMA CallKeepsAccount ==
  ASSUME Typed, Escalating, Escalating', NEW c \in Calls, CallAccounts(c), CallStep(c)
  PROVE  CallAccounts(c)'
<1>1. /\ Callee[c] \in Members /\ roster \in [Members -> RosterRows]
      /\ call \in [Calls -> [pc : CallPcs, attempt : 1..MaxAttempts]]
      /\ failures \in Nat /\ MaxAttempts \in Nat /\ call[c].attempt \in 1..MaxAttempts
      /\ call[c].attempt \in Nat
      /\ CallShape(c)
  BY AnswersConstants DEF Typed, AnswersTypeOK, RosterRows, CallPcs, Escalating
<1>2. /\ roster[Callee[c]].answer \in {NoRow, None} \cup Answers
      /\ roster[Callee[c]].answer # NoRow => roster'[Callee[c]].answer # NoRow
  <2>1. roster' \in [Members -> RosterRows] /\ RosterGrows
    BY CallRosterKept
  <2>2. /\ roster[Callee[c]].answer \in {NoRow, None} \cup Answers
        /\ roster'[Callee[c]].answer \in {NoRow, None} \cup Answers
    BY <1>1, <2>1 DEF RosterRows
  <2> QED BY <1>1, <2>1, <2>2, Distinct DEF RosterGrows, NoRow, None
<1>3. CASE ScheduleEscalation(c)
  <2> DEFINE m == Callee[c]
             r == Seeded(roster[m])
  <2>1. m \in Members
    BY <1>1
  <2>2. roster' = [roster EXCEPT ![m] = r] /\ UNCHANGED failures
    BY <1>3, <2>1 DEF ScheduleEscalation
  <2>3. r.answer # NoRow
    BY <1>2, <2>1, Distinct DEF Seeded
  <2>4. roster'[Callee[c]].answer # NoRow
    BY <1>1, <2>1, <2>2, <2>3
  <2>5. call'[c].pc = "scheduled" /\ call'[c].attempt = call[c].attempt
    BY <1>1, <1>3 DEF ScheduleEscalation
  <2> QED BY <2>2, <2>4, <2>5 DEF CallAccounts, RunningCalls
<1>4. ASSUME NEW pc \in CallPcs, CallAt(c, pc)
      PROVE  call'[c].pc = pc /\ call'[c].attempt = call[c].attempt
  BY <1>1, <1>4 DEF CallAt
<1>5. CASE ReadRoster(c)
  <2>1. UNCHANGED <<failures, roster>> /\ roster[Callee[c]].answer # NoRow
    BY <1>5 DEF ReadRoster, CallAccounts, RunningCalls
  <2>2. CASE roster[Callee[c]].answer # None
    <3>1. CallAt(c, "skippedAcked")
      BY <1>5, <2>1, <2>2 DEF ReadRoster
    <3>2. call'[c].pc = "skippedAcked" /\ call'[c].attempt = call[c].attempt
      BY <1>4, <3>1 DEF CallPcs
    <3>3. roster[Callee[c]].answer > None
      BY <1>2, <2>1, <2>2, Distinct
    <3> QED BY <2>1, <3>2, <3>3 DEF CallAccounts, RunningCalls
  <2>3. CASE roster[Callee[c]].answer = None
    <3>1. CallAt(c, "eligible")
      BY <1>5, <2>1, <2>3 DEF ReadRoster
    <3>2. call'[c].pc = "eligible" /\ call'[c].attempt = call[c].attempt
      BY <1>4, <3>1 DEF CallPcs
    <3> QED BY <2>1, <3>2 DEF CallAccounts, RunningCalls
  <2> QED BY <2>2, <2>3
<1>6. CASE IsInactive(c)
  <2>1. UNCHANGED active /\ failures' \in {failures, failures + 1}
    BY <1>6 DEF IsInactive
  <2>4. roster'[Callee[c]].answer # NoRow
    BY <1>2, <1>6 DEF IsInactive, CallAccounts, RunningCalls
  <2>2. CASE CallAt(c, "publish")
    <3>1. call'[c].pc = "publish" /\ call'[c].attempt = call[c].attempt
      BY <1>4, <2>2 DEF CallPcs
    <3> QED BY <1>1, <2>1, <2>4, <3>1 DEF CallAccounts, RunningCalls
  <2>3. CASE CallAt(c, "skippedInactive") /\ Callee[c] \notin active
    <3>1. call'[c].pc = "skippedInactive" /\ call'[c].attempt = call[c].attempt
      BY <1>4, <2>3 DEF CallPcs
    <3> QED BY <1>1, <2>1, <2>3, <3>1 DEF CallAccounts, RunningCalls
  <2> QED BY <1>6, <2>2, <2>3 DEF IsInactive
<1>7. CASE PublishEscalation(c)
  <2>1. call'[c].pc = "record" /\ call'[c].attempt = call[c].attempt /\ UNCHANGED failures
    BY <1>4, <1>7 DEF PublishEscalation, CallPcs
  <2>2. roster'[Callee[c]].answer # NoRow
    BY <1>2, <1>7 DEF PublishEscalation, CallAccounts, RunningCalls
  <2> QED BY <2>1, <2>2 DEF CallAccounts, RunningCalls
<1>8. CASE RecordEscalation(c)
  <2>1. PICK pc \in {"escalated", "skippedAlready"} : CallAt(c, pc)
    BY <1>8 DEF RecordEscalation
  <2>2. /\ call'[c].pc \in {"escalated", "skippedAlready"} /\ call'[c].attempt = call[c].attempt
        /\ UNCHANGED <<failures, published>>
    BY <1>4, <1>8, <2>1 DEF RecordEscalation, CallPcs
  <2>3. Callee[c] \in published'
    BY <1>1, <1>8, <2>2 DEF RecordEscalation, CallShape
  <2>4. roster'[Callee[c]].answer # NoRow
    BY <1>2, <1>8 DEF RecordEscalation, CallAccounts, RunningCalls
  <2> QED BY <2>2, <2>3, <2>4 DEF CallAccounts, RunningCalls
<1>9. CASE CallFails(c)
  <2>1. failures' = failures + 1 /\ UNCHANGED roster /\ call[c].attempt <= failures + 1
    BY <1>9 DEF CallFails, CallAccounts
  <2>2. CASE Retried(call[c].attempt)
    <3>1. PICK r : r = [pc |-> "scheduled", attempt |-> call[c].attempt + 1]
      OBVIOUS
    <3>2. call' = [call EXCEPT ![c] = r]
      BY <1>9, <2>2, <3>1 DEF CallFails
    <3>3. call'[c].pc = "scheduled" /\ call'[c].attempt = call[c].attempt + 1
      BY <1>1, <3>1, <3>2
    <3>4. roster[Callee[c]].answer # NoRow
      BY <1>9 DEF CallFails, CallAccounts, RunningCalls
    <3> QED BY <1>1, <2>1, <3>3, <3>4 DEF CallAccounts, RunningCalls
  <2>3. CASE ~Retried(call[c].attempt)
    <3>1. call' = [call EXCEPT ![c].pc = "failed"]
      BY <1>9, <2>3 DEF CallFails
    <3>2. call'[c].pc = "failed" /\ call'[c].attempt = call[c].attempt
      BY <1>1, <3>1
    <3>3. MaxAttempts <= failures'
      BY <1>1, <2>1, <2>3 DEF Retried
    <3> QED BY <1>1, <2>1, <3>2, <3>3 DEF CallAccounts, RunningCalls
  <2> QED BY <2>2, <2>3
<1> QED BY <1>3, <1>5, <1>6, <1>7, <1>8, <1>9 DEF CallStep, CallRuns

\* Every escalation is accounted for initially and after every step.
LEMMA AccountsInductive ==
  (Init => AllAccountedFor) /\ (IInv /\ AllAccountedFor /\ [Next]_vars => AllAccountedFor')
<1>1. Init => AllAccountedFor
  BY AnswersConstants DEF Init, AnswersInit, AllAccountedFor, CallAccounts, RunningCalls
<1>2. IInv /\ AllAccountedFor /\ [Next]_vars => AllAccountedFor'
  <2> SUFFICES ASSUME Typed, Escalating, AllAccountedFor, [Next]_vars PROVE AllAccountedFor'
    BY DEF IInv
  <2>1. Typed' /\ Escalating' /\ failures \in Nat
    BY TypedInductive, EscalatingInductive DEF Typed, AnswersTypeOK
  <2>2. ASSUME NEW c \in Calls, CallStep(c) PROVE AllAccountedFor'
    <3>1. NothingTakenBack /\ \A d \in Calls \ {c} : call'[d] = call[d]
      BY <2>2, CallsTakeNothingBack
    <3> QED BY <2>1, <2>2, <3>1, AccountsStay, CallKeepsAccount DEF AllAccountedFor
  <2>3. CASE NothingTakenBack /\ UNCHANGED call
    BY <2>1, <2>3, AccountsStay DEF AllAccountedFor
  <2>4. CASE \E p \in Posts : PostRuns(p) \/ PostFails(p)
    <3>1. RosterGrows
      BY <2>4, ServerTyped DEF RosterStep
    <3>2. UNCHANGED <<call, active, published>> /\ failures <= failures'
      BY <2>1, <2>4 DEF PostRuns, CheckMember, WriteAnswer, ReadGuard, ApplyToRoster,
                        RecordGuardOutcome, PostFails
    <3> QED BY <2>3, <3>1, <3>2 DEF NothingTakenBack
  <2>5. CASE \E m \in Members : Leave(m)
    <3>1. RosterGrows
      BY <2>5, ServerTyped DEF RosterStep
    <3>2. UNCHANGED <<call, failures, published>> /\ active' \subseteq active
      BY <2>5 DEF Leave
    <3> QED BY <2>1, <2>3, <3>1, <3>2 DEF NothingTakenBack
  <2>6. CASE UNCHANGED <<roster, call, failures, active, published>>
    <3>1. RosterGrows
      BY <2>6, Distinct DEF Typed, AnswersTypeOK, RosterGrows, NoRow, None
    <3> QED BY <2>1, <2>3, <2>6, <3>1 DEF NothingTakenBack
  <2>7. CASE RosterStep
    BY <2>2, <2>4, <2>5, <2>7 DEF RosterStep, CallStep
  <2>8. CASE ~RosterStep
    BY <2>6, <2>8
       DEF Next, PhoneStep, DrainStep, vars, answersVars, EnqueueResponse, ListOlder,
           DiscardOlder, BackoffEnds, Configure, SignOut, SignIn, Kill, StartDrain, NextRow,
           CheckRow, ClaimForSync, PostRow, ReceiveAnswer, TimeOut
  <2> QED BY <2>7, <2>8
<1> QED BY <1>1, <1>2

\* An escalation that is over has called its member, unless the member answered or left or every
\* attempt of it failed: none ends because another did, or for want of a row, before the member
\* was called (escalationHandler.ts, which reads the roster the fan-out seeded).
THEOREM SilentMembersAreCalled == Spec => []NoSilentMemberIsSkipped
<1>1. AllAccountedFor => NoSilentMemberIsSkipped
  <2> SUFFICES ASSUME AllAccountedFor, NEW c \in Calls, call[c].pc \in EndedCalls
               PROVE  \/ Callee[c] \in published \cup (Members \ active)
                      \/ roster[Callee[c]].answer > None
                      \/ call[c].pc = "failed" /\ MaxAttempts <= failures
    BY DEF NoSilentMemberIsSkipped
  <2>1. CallAccounts(c) /\ Callee[c] \in Members
    BY AnswersConstants DEF AllAccountedFor
  <2> QED BY <2>1 DEF CallAccounts, EndedCalls
<1> QED BY <1>1, AnswersInductive, AccountsInductive, PTL DEF Spec
=============================================================================
