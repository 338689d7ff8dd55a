------------------------ MODULE EligibilitySnapshot ------------------------
(***************************************************************************)
(* One member's eligibility snapshot, from which fan-out, ladder and       *)
(* workers take whom to page and where: the consumers of the personnel     *)
(* service's events (eligibility/*.ts), which write it field by field, and *)
(* the push worker, which marks a dead token on it                         *)
(* (receipts/invalidatePushToken.ts).                                      *)
(*                                                                         *)
(* Events come through the outbox and standard queues: in any order, more  *)
(* than once, in several invocations at a time.  An event is a record      *)
(*   [kind |-> "member", time, sets]      sets: the fields it carries      *)
(*   [kind |-> "qual", time, qual, eligible]                               *)
(*   [kind |-> "availability", time, state]                                *)
(* A token on the push list is a registration [token, reg]: reg stands for *)
(* registeredAt.  The SMS and voice entries of a phone are one field.      *)
(***************************************************************************)
EXTENDS OutboxDrain

CONSTANTS
    Histories,     \* what may be committed, and on what snapshot: records
                   \*   [rows, created, quals, legacy]
                   \* created: the member has a snapshot; quals, legacy: its quals and, if it
                   \* is from before the clocks, its member-wide qualsUpdatedAt (else 0)
    Quals,         \* qualification codes
    Consumers,     \* invocations, of any consumer
    MaxReceives,   \* maxReceiveCount of the queues
    MaxFaults,     \* bound on failed records and refused invalidations
    MaxTries,      \* attempts of a contact write (MAX_ATTEMPTS)
    MaxQualTries,  \* attempts of a qualification write (MAX_SNAPSHOT_UPDATE_ATTEMPTS)
    Rejections,    \* push workers whose gateway has answered that a token is dead
    Since          \* what a gateway may say of when: a time, or 0 for nothing

ASSUME SnapshotConstants ==
    /\ Since \subseteq Nat
    /\ MaxReceives \in Nat \ {0} /\ MaxFaults \in Nat
    /\ MaxTries \in Nat \ {0} /\ MaxQualTries \in Nat \ {0}

SimpleFields == {"active", "availability", "roles"}
Position == [active |-> 1, availability |-> 2, roles |-> 3]   \* the handler's order of writes
Groups == {"push", "phone"}                                   \* of contactChannels
Fields == SimpleFields \cup Groups
Never == 0                                                    \* a clock that is not there

\* The personnel service lists a token once, as valid, at its registration.
OneEntryPerToken(list) == \A x, y \in list : x.token = y.token => x = y
IsPushList(list) ==
    /\ OneEntryPerToken(list)
    /\ \A x \in list : x = [token |-> x.token, reg |-> x.reg, valid |-> TRUE] /\ x.reg \in Nat

IsEvent(e) ==
    /\ e.time \in Nat
    /\ \/ /\ e.kind = "member"
          /\ DOMAIN e.sets \subseteq Fields
          /\ "push" \in DOMAIN e.sets => IsPushList(e.sets.push)
       \/ e.kind = "qual" /\ e.qual \in Quals /\ e.eligible \in BOOLEAN
       \/ e.kind = "availability"

ASSUME CommittedEvents ==
    \A history \in Histories :
        /\ history.legacy \in Nat
        /\ DOMAIN history.rows = 1 .. Len(history.rows)
        /\ \A i \in DOMAIN history.rows :
              Publishable(history.rows[i]) => IsEvent(history.rows[i])

VARIABLES
    snapshot,   \* the MEMBER_ELIGIBILITY_SNAPSHOT item
    dedup,      \* DEDUP rows of the two consumers that write them
    record,     \* the invocations' processing of one event
    receives,   \* how often each event has been received: a bag, as a function
    handled,    \* history: events whose processing has succeeded
    unheard,    \* history: availability events that found no snapshot
    dead,       \* events in a dead-letter queue
    rejection,  \* the push workers' invalidations
    killed,     \* history: the registrations marked dead, each with the registration that the
                \* gateway rejected and the time that it named
    faults      \* failures so far

snapshotVars == <<snapshot, dedup, record, receives, handled, unheard, dead, rejection, killed, faults>>
vars == <<drainVars, snapshotVars>>

\* The item a member's first event creates has these, seeded with if_not_exists.
NewSnapshot ==
    [exists |-> FALSE,
     value |-> [active |-> TRUE, availability |-> "AVAILABLE", roles |-> {}],
     clock |-> [f \in Fields |-> Never],
     push |-> {}, phone |-> "none", version |-> 0,
     quals |-> {}, qualClock |-> [q \in Quals |-> Never], clocked |-> FALSE,
     floor |-> Never, qualsUpdatedAt |-> Never]

IdleRecord == [pc |-> "idle"]
IdleRejection == [pc |-> "idle"]

SnapshotInit(history) ==
    /\ snapshot = [NewSnapshot EXCEPT !.exists = history.created, !.quals = history.quals,
                                      !.qualsUpdatedAt = history.legacy]
    /\ dedup = {} /\ handled = {} /\ unheard = {} /\ dead = {} /\ killed = {}
    /\ record = [c \in Consumers |-> IdleRecord]
    /\ receives = [e \in {} |-> 0]
    /\ rejection = [w \in Rejections |-> IdleRejection]
    /\ faults = 0

-----------------------------------------------------------------------------
(* Receiving an event, and the ends of its processing.                     *)

Receives(e) == IF e \in DOMAIN receives THEN receives[e] ELSE 0
Busy(c) == record[c].pc # "idle"
EventOf(c) == record[c].event

FirstCall(e) ==
    CASE e.kind = "member" -> "fields"
      [] e.kind = "qual" -> "dedup"
      [] e.kind = "availability" -> "availability"

\* A queue delivers an event again until it is handled, and perhaps once more after that.
Receive(c, e) ==
    /\ ~Busy(c) /\ e \notin dead /\ Receives(e) < MaxReceives
    /\ record' = [record EXCEPT ![c] =
         [pc |-> FirstCall(e), event |-> e, tries |-> 1, write |-> <<>>,
          left |-> IF e.kind = "member" THEN SimpleFields \cap DOMAIN e.sets ELSE {}]]
    /\ receives' = [d \in DOMAIN receives \cup {e} |-> Receives(d) + (IF d = e THEN 1 ELSE 0)]
    /\ UNCHANGED <<snapshot, dedup, handled, unheard, dead, rejection, killed, faults, drainVars>>

Handled(c) ==
    /\ record' = [record EXCEPT ![c] = IdleRecord]
    /\ handled' = handled \cup {EventOf(c)}
    /\ UNCHANGED dead

\* The record is reported as a batch item failure; after its last receive it is dead-lettered.
Exhausted(e) == Receives(e) = MaxReceives /\ e \notin handled

Failed(c) ==
    /\ record' = [record EXCEPT ![c] = IdleRecord]
    /\ dead' = IF Exhausted(EventOf(c)) THEN dead \cup {EventOf(c)} ELSE dead
    /\ UNCHANGED handled

RecordFails(c) ==
    /\ Busy(c) /\ faults < MaxFaults
    /\ faults' = faults + 1
    /\ Failed(c)
    /\ UNCHANGED <<snapshot, dedup, receives, unheard, rejection, killed, drainVars>>

-----------------------------------------------------------------------------
(* personnel.member.updated: each simple field under its own clock, then   *)
(* the contact groups.                                                     *)

Carries(e, f) == e.kind = "member" /\ f \in DOMAIN e.sets

SharedClock(f, time) ==                \* mutant: one clock for all the fields
    \A g \in SimpleFields : snapshot.clock[g] < time
FieldIsNewer(f, time) == snapshot.clock[f] < time

NextCall(c, f) ==
    LET left == record[c].left \ {f}
    IN  IF left # {} \/ \E g \in Groups : Carries(EventOf(c), g)
        THEN /\ record' = [record EXCEPT ![c].left = left]
             /\ UNCHANGED <<handled, dead>>
        ELSE Handled(c)

WriteField(c) ==
    LET e == EventOf(c)
    IN  /\ Busy(c) /\ record[c].pc = "fields"
        /\ \E f \in record[c].left :
              /\ \A g \in record[c].left : Position[f] <= Position[g]
              /\ snapshot' = IF FieldIsNewer(f, e.time)
                             THEN [snapshot EXCEPT !.exists = TRUE, !.value[f] = e.sets[f],
                                                   !.clock[f] = e.time]
                             ELSE snapshot
              /\ NextCall(c, f)
        /\ UNCHANGED <<dedup, receives, unheard, rejection, killed, faults, drainVars>>

\* A token the push worker found dead stays dead until it is registered again.
TakesTheList(existing, incoming) == incoming   \* mutant: the sent list as it is
DeadForEver(existing, incoming) ==             \* mutant: whatever is registered since
    {[entry EXCEPT !.valid = @ /\ ~\E old \in existing :
          ~old.valid /\ old.token = entry.token] : entry \in incoming}
KeepInvalidated(existing, incoming) ==
    {[entry EXCEPT !.valid = @ /\ ~\E old \in existing :
          ~old.valid /\ old.token = entry.token /\ entry.reg <= old.reg] : entry \in incoming}

\* Reads the item and merges the groups for which this event is newer than their last one.
GroupsToApply(e) == {g \in Groups : Carries(e, g) /\ snapshot.clock[g] < e.time}

ReadContact(c) ==
    LET e == EventOf(c)
        apply == GroupsToApply(e)
    IN  /\ Busy(c) /\ record[c].pc = "fields" /\ record[c].left = {}
        /\ IF apply = {}
           THEN Handled(c)
           ELSE /\ record' = [record EXCEPT ![c].pc = "writeContact", ![c].write =
                     [version |-> snapshot.version, groups |-> apply,
                      push |-> IF "push" \in apply
                               THEN KeepInvalidated(snapshot.push, e.sets.push)
                               ELSE snapshot.push,
                      phone |-> IF "phone" \in apply THEN e.sets.phone ELSE snapshot.phone]]
                /\ UNCHANGED <<handled, dead>>
        /\ UNCHANGED <<snapshot, dedup, receives, unheard, rejection, killed, faults, drainVars>>

\* The write holds only on the contactVersion that was read; a lost race reads again.
SameVersion(version) == snapshot.version = version

Again(c, bound) ==
    IF record[c].tries < bound
    THEN /\ record' = [record EXCEPT ![c].tries = @ + 1, ![c].write = <<>>, ![c].pc =
                          IF @ = "writeContact" THEN "fields" ELSE "readQual"]
         /\ UNCHANGED <<handled, dead>>
    ELSE Failed(c)

WriteContact(c) ==
    LET e == EventOf(c)
        w == record[c].write
    IN  /\ Busy(c) /\ record[c].pc = "writeContact"
        /\ IF SameVersion(w.version)
           THEN /\ snapshot' = [snapshot EXCEPT !.exists = TRUE, !.version = @ + 1,
                                    !.push = w.push, !.phone = w.phone,
                                    !.clock = [f \in Fields |->
                                                 IF f \in w.groups THEN e.time ELSE @[f]]]
                /\ Handled(c)
           ELSE Again(c, MaxTries) /\ UNCHANGED snapshot
        /\ UNCHANGED <<dedup, receives, unheard, rejection, killed, faults, drainVars>>

-----------------------------------------------------------------------------
(* personnel.eligibility.changed: one clock per qualification.             *)

CheckDedup(c) ==
    /\ Busy(c) /\ record[c].pc = "dedup"
    /\ IF EventOf(c) \in dedup
       THEN Handled(c)
       ELSE /\ record' = [record EXCEPT ![c].pc = "readQual"] /\ UNCHANGED <<handled, dead>>
    /\ UNCHANGED <<snapshot, dedup, receives, unheard, rejection, killed, faults, drainVars>>

\* A snapshot from before the clocks gets its member-wide time as a floor, which then stays.
Floor ==
    IF snapshot.floor # Never THEN snapshot.floor
    ELSE IF snapshot.clocked THEN Never ELSE snapshot.qualsUpdatedAt

MemberWideClock(q) == snapshot.qualsUpdatedAt   \* mutant: one clock for all qualifications
PriorClock(q) == IF snapshot.qualClock[q] # Never THEN snapshot.qualClock[q] ELSE Floor

ReadQual(c) ==
    LET e == EventOf(c)
    IN  /\ Busy(c) /\ record[c].pc = "readQual"
        /\ IF PriorClock(e.qual) > e.time
           THEN Handled(c)
           ELSE /\ record' = [record EXCEPT ![c].pc = "writeQual", ![c].write =
                     [existed |-> snapshot.exists, quals |-> snapshot.quals,
                      qualClock |-> snapshot.qualClock, floor |-> Floor,
                      updatedAt |-> snapshot.qualsUpdatedAt]]
                /\ UNCHANGED <<handled, dead>>
        /\ UNCHANGED <<snapshot, dedup, receives, unheard, rejection, killed, faults, drainVars>>

\* The write holds only on the quals and clocks that were read.
QualsAsRead(w) ==
    /\ snapshot.exists = w.existed
    /\ snapshot.quals = w.quals /\ snapshot.qualClock = w.qualClock

Latest(s, t) == IF s >= t THEN s ELSE t

WriteQual(c) ==
    LET e == EventOf(c)
        w == record[c].write
    IN  /\ Busy(c) /\ record[c].pc = "writeQual"
        /\ IF QualsAsRead(w)
           THEN /\ snapshot' = [snapshot EXCEPT
                        !.exists = TRUE, !.clocked = TRUE, !.floor = w.floor,
                        !.quals = IF e.eligible THEN w.quals \cup {e.qual}
                                                ELSE w.quals \ {e.qual},
                        !.qualClock = [w.qualClock EXCEPT ![e.qual] = e.time],
                        !.qualsUpdatedAt = Latest(w.updatedAt, e.time)]
                /\ record' = [record EXCEPT ![c].pc = "putDedup", ![c].write = <<>>]
                /\ UNCHANGED <<handled, dead>>
           ELSE Again(c, MaxQualTries) /\ UNCHANGED snapshot
        /\ UNCHANGED <<dedup, receives, unheard, rejection, killed, faults, drainVars>>

PutDedup(c) ==
    /\ Busy(c) /\ record[c].pc = "putDedup"
    /\ dedup' = dedup \cup {EventOf(c)}
    /\ Handled(c)
    /\ UNCHANGED <<snapshot, receives, unheard, rejection, killed, faults, drainVars>>

-----------------------------------------------------------------------------
(* personnel.availability.changed: one transaction, which a duplicate, an  *)
(* older event and a missing snapshot cancel, for good.                    *)

ApplyAvailability(c) ==
    LET e == EventOf(c)
        isNew == e \notin dedup
        applies == isNew /\ snapshot.exists /\ FieldIsNewer("availability", e.time)
    IN  /\ Busy(c) /\ record[c].pc = "availability"
        /\ IF applies
           THEN /\ snapshot' = [snapshot EXCEPT !.value["availability"] = e.state,
                                                !.clock["availability"] = e.time]
                /\ dedup' = dedup \cup {e}
           ELSE UNCHANGED <<snapshot, dedup>>
        /\ unheard' = IF isNew /\ ~snapshot.exists THEN unheard \cup {e} ELSE unheard
        /\ Handled(c)
        /\ UNCHANGED <<receives, rejection, killed, faults, drainVars>>

-----------------------------------------------------------------------------
(* A push worker marks a token its gateway has called dead.                *)

\* The gateway's answer is for a registration the worker has read as valid: the code keeps
\* only its token, reg is history.
Reject(w) ==
    /\ rejection[w].pc = "idle"
    /\ \E entry \in snapshot.push, since \in Since :
          /\ entry.valid
          /\ rejection' = [rejection EXCEPT ![w] =
                [pc |-> "read", token |-> entry.token, reg |-> entry.reg, since |-> since,
                 tries |-> 1, admitted |-> FALSE, version |-> 0, push |-> {}]]
    /\ UNCHANGED <<snapshot, dedup, record, receives, handled, unheard, dead, killed, faults,
                   drainVars>>

RejectionEnds(w) == rejection' = [rejection EXCEPT ![w].pc = "done", ![w].push = {}]

\* A device that has registered again at or after the time the gateway names is left alone.
NeverReregistered(entry, since) == FALSE   \* mutant: the gateway's time is not looked at
Reregistered(entry, since) == since # 0 /\ entry.reg >= since

ReadTarget(w) ==
    LET r == rejection[w]
        entries == {entry \in snapshot.push : entry.token = r.token}
    IN  /\ r.pc = "read"
        /\ IF entries = {} \/ \E entry \in entries : Reregistered(entry, r.since)
           THEN RejectionEnds(w)
           ELSE rejection' = [rejection EXCEPT ![w].pc = IF r.admitted THEN "write" ELSE "admit",
                                ![w].version = snapshot.version,
                                ![w].push = {[entry EXCEPT !.valid = @ /\ entry.token # r.token] :
                                               entry \in snapshot.push}]
        /\ UNCHANGED <<snapshot, dedup, record, receives, handled, unheard, dead, killed, faults,
                       drainVars>>

\* The mass-invalidation guard, asked once; it may refuse, and the page is redelivered.
Admit(w) ==
    /\ rejection[w].pc = "admit"
    /\ \/ /\ rejection' = [rejection EXCEPT ![w].pc = "write", ![w].admitted = TRUE]
          /\ UNCHANGED faults
       \/ /\ faults < MaxFaults /\ faults' = faults + 1
          /\ RejectionEnds(w)
    /\ UNCHANGED <<snapshot, dedup, record, receives, handled, unheard, dead, killed, drainVars>>

WriteInvalid(w) ==
    LET r == rejection[w]
    IN  /\ r.pc = "write"
        /\ IF SameVersion(r.version)
           THEN /\ snapshot' = [snapshot EXCEPT !.push = r.push, !.version = @ + 1]
                /\ killed' = killed \cup {[token |-> r.token, marked |-> entry.reg, rejected |-> r.reg,
                                           since |-> r.since] :
                                          entry \in {x \in r.push : x.token = r.token}}
                /\ RejectionEnds(w)
           ELSE /\ rejection' = IF r.tries < MaxTries
                                THEN [rejection EXCEPT ![w].pc = "read", ![w].tries = @ + 1]
                                ELSE [rejection EXCEPT ![w].pc = "done", ![w].push = {}]
                /\ UNCHANGED <<snapshot, killed>>
        /\ UNCHANGED <<dedup, record, receives, handled, unheard, dead, faults, drainVars>>

-----------------------------------------------------------------------------
ConsumerStep(c) ==
    WriteField(c) \/ ReadContact(c) \/ WriteContact(c) \/ CheckDedup(c) \/ ReadQual(c)
      \/ WriteQual(c) \/ PutDedup(c) \/ ApplyAvailability(c)

SnapshotNext ==
    \/ \E c \in Consumers : ConsumerStep(c) \/ RecordFails(c)
    \/ \E c \in Consumers, e \in published : Receive(c, e)
    \/ \E w \in Rejections : Reject(w) \/ ReadTarget(w) \/ Admit(w) \/ WriteInvalid(w)

Init == \E history \in Histories :
           stream = history.rows /\ DrainInit /\ SnapshotInit(history)
Next == (DrainNext /\ UNCHANGED snapshotVars) \/ SnapshotNext
Spec == Init /\ [][Next]_vars

\* The mapping polls and its invocations run on; an event that is neither handled nor dead is
\* received again, and its invocation runs on or fails.
Fairness ==
    /\ WF_vars(DrainNext /\ UNCHANGED snapshotVars)
    /\ \A c \in Consumers : WF_vars(ConsumerStep(c) \/ RecordFails(c))
    /\ WF_vars(\E c \in Consumers, e \in published \ handled : Receive(c, e))

FairSpec == Spec /\ Fairness

-----------------------------------------------------------------------------
(* Properties.                                                             *)

Writes(e, f) == Carries(e, f) \/ (e.kind = "availability" /\ f = "availability")
Tokens(list) == {<<entry.token, entry.reg>> : entry \in list}

Shows(e, f) ==
    CASE f = "push"  -> Tokens(snapshot.push) = Tokens(e.sets.push)
      [] f = "phone" -> snapshot.phone = e.sets.phone
      [] e.kind = "availability" -> snapshot.value[f] = e.state
      [] OTHER -> snapshot.value[f] = e.sets[f]

\* Whatever the order and the races, a field shows the newest event that has been handled or a
\* newer one: no consumer drops an event because of another field's, or overwrites a group it
\* does not carry (memberUpdatedHandler.ts, contactProjection.ts).
FieldsShowTheNewest ==
    \A f \in Fields :
        /\ \A e \in handled \ unheard : Writes(e, f) => e.time <= snapshot.clock[f]
        /\ snapshot.clock[f] # Never =>
             \E e \in published : Writes(e, f) /\ e.time = snapshot.clock[f] /\ Shows(e, f)

\* The same of each qualification, with a clock of its own (eligibilityChangedConsumer.ts): a
\* redelivered change to one is neither lost to a newer change of another nor undone.
QualsShowTheNewest ==
    \A q \in Quals :
        /\ \A e \in handled : e.kind = "qual" /\ e.qual = q =>
             e.time <= snapshot.qualClock[q] \/ e.time < Floor
        /\ snapshot.qualClock[q] # Never =>
             \E e \in published : /\ e.kind = "qual" /\ e.qual = q
                                  /\ e.time = snapshot.qualClock[q]
                                  /\ e.eligible <=> q \in snapshot.quals

\* A dead token is paged again only after a newer registration, although the personnel row
\* still lists it and every other device's event sends it again.
DeadTokensStayDead ==
    [][\A old \in snapshot.push, new \in snapshot'.push :
          ~old.valid /\ new.token = old.token => ~new.valid \/ new.reg > old.reg]_vars

\* The gateway rejected this registration of the token or a newer one; or an older one, and the
\* device registered again before the worker marked the token, which is what the write goes by.
RejectedFor(entry, k) == k.token = entry.token /\ entry.reg <= k.rejected
MarkedAfter(entry, k) ==
    k.token = entry.token /\ entry.reg <= k.marked /\ (k.since = 0 \/ entry.reg < k.since)

\* A device is disabled for a rejection of its registration or a newer one.  One that registered
\* after the page that was rejected is disabled with it only if it registered before the token
\* was marked, and before the time that the gateway names, if it names one: a registration that
\* arrives after the mark is live, whatever lists, events and races carry it
\* (receipts/invalidatePushToken.ts, contactProjection.ts).
DisabledOnTheGatewaysWord ==
    \A entry \in snapshot.push : ~entry.valid =>
        \E k \in killed : RejectedFor(entry, k) \/ MarkedAfter(entry, k)

\* Every event committed is handled in the end, or is in a place that alarms: the drain's
\* failure destination or a dead-letter queue.
Settled(i) ==
    Publishable(stream[i]) => stream[i] \in handled \cup dead \cup abandoned
EveryEventIsHandled == <>(\A i \in 1..Len(stream) : Settled(i))
=============================================================================
