------------------------- MODULE EligibilityProofs -------------------------
(***************************************************************************)
(* For any histories of a member, any order, duplicates and concurrency of *)
(* their events, and any faults: a field and a qualification show the      *)
(* newest event handled or a newer one, a dead token stays dead until it   *)
(* is registered again, and no device is disabled that registers after the *)
(* token is marked, or after the time the gateway names.                   *)
(* The three invariants share the shapes (Typed) and are kept separately;  *)
(* a fourth follows an event from its row to its consumers.                *)
(***************************************************************************)
EXTENDS EligibilitySnapshot, WellFoundedInduction, TLAPS

\* The parts of the snapshot, of a record in progress and of a rejection in progress.
SnapshotParts ==
    {"exists", "value", "clock", "push", "phone", "version", "quals", "qualClock", "clocked",
     "floor", "qualsUpdatedAt"}
RecordParts == {"pc", "event", "tries", "write", "left"}
RejectionParts == {"pc", "token", "reg", "since", "tries", "admitted", "version", "push"}

Clocks ==
    /\ snapshot.clock \in [Fields -> Nat] /\ snapshot.version \in Nat
    /\ snapshot.qualClock \in [Quals -> Nat]
    /\ snapshot.floor \in Nat /\ snapshot.qualsUpdatedAt \in Nat

IsSnapshot ==
    DOMAIN snapshot = SnapshotParts /\ DOMAIN snapshot.value = SimpleFields /\ Clocks

\* The call a record is at fits its event.
MemberCalls == {"fields", "writeContact"}
QualCalls == {"dedup", "readQual", "writeQual", "putDedup"}
FitsItsEvent(c) ==
    /\ EventOf(c) \in published
    /\ \/ /\ EventOf(c).kind = "member" /\ record[c].pc \in MemberCalls
          /\ record[c].left \subseteq SimpleFields \cap DOMAIN EventOf(c).sets
       \/ /\ EventOf(c).kind = "qual" /\ record[c].pc \in QualCalls
          /\ record[c].pc = "writeQual" =>
                record[c].write.floor \in Nat /\ record[c].write.updatedAt \in Nat
       \/ EventOf(c).kind = "availability" /\ record[c].pc = "availability"

Typed ==
    /\ \A i \in DOMAIN stream : Publishable(stream[i]) => IsEvent(stream[i])
    /\ \A e \in published : IsEvent(e)
    /\ handled \cup dedup \subseteq published
    /\ IsSnapshot
    /\ record = [c \in Consumers |-> record[c]]
    /\ \A c \in Consumers : Busy(c) => DOMAIN record[c] = RecordParts /\ FitsItsEvent(c)
    /\ rejection = [w \in Rejections |-> rejection[w]]
    /\ \A w \in Rejections :
          rejection[w].pc # "idle" =>
             /\ DOMAIN rejection[w] = RejectionParts
             /\ rejection[w].reg \in Nat /\ rejection[w].since \in Nat

-----------------------------------------------------------------------------
(* The fields.                                                             *)

Reflected(e, f) == e.time <= snapshot.clock[f]

\* The fields of a member's event that its record has passed have a time as new.
FieldsPassed(c) ==
    record[c].pc \in MemberCalls =>
       \A f \in SimpleFields \ record[c].left :
          Carries(EventOf(c), f) => Reflected(EventOf(c), f)

\* A contact write in progress has what it read, as long as no other has committed since.
ContactRead(c) ==
    record[c].pc = "writeContact" =>
       LET e == EventOf(c)
           w == record[c].write
       IN  /\ record[c].left = {}
           /\ w.version \in Nat /\ w.version <= snapshot.version
           /\ w.groups \subseteq {g \in Groups : Carries(e, g)}
           /\ \A g \in Groups \ w.groups : Carries(e, g) => Reflected(e, g)
           /\ "push" \in w.groups => Tokens(w.push) = Tokens(e.sets.push)
           /\ "phone" \in w.groups => w.phone = e.sets.phone
           /\ w.version = snapshot.version =>
                 /\ \A g \in w.groups : snapshot.clock[g] < e.time
                 /\ "push" \notin w.groups => w.push = snapshot.push
                 /\ "phone" \notin w.groups => w.phone = snapshot.phone

AvailabilityOnce ==
    \A e \in dedup : e.kind = "availability" => Reflected(e, "availability")

\* A rejection's list is the one it read, but for the token it marks.
ListRead(w) ==
    rejection[w].pc \in {"admit", "write"} =>
       LET r == rejection[w]
       IN  /\ r.version \in Nat /\ r.version <= snapshot.version
           /\ r.version = snapshot.version => Tokens(r.push) = Tokens(snapshot.push)

\* The two parts of FieldsShowTheNewest.
HandledReflected(f) == \A e \in handled \ unheard : Writes(e, f) => Reflected(e, f)
ShowsAnEvent(f) ==
    snapshot.clock[f] # Never =>
       \E e \in published : Writes(e, f) /\ e.time = snapshot.clock[f] /\ Shows(e, f)

FieldsInv ==
    /\ \A f \in Fields : HandledReflected(f) /\ ShowsAnEvent(f)
    /\ AvailabilityOnce
    /\ \A c \in Consumers : FieldsPassed(c) /\ ContactRead(c)
    /\ \A w \in Rejections : ListRead(w)

-----------------------------------------------------------------------------
(* The qualifications.                                                     *)

QualReflected(e) == e.time <= snapshot.qualClock[e.qual] \/ e.time < Floor

QualRead(c) ==
    /\ record[c].pc = "writeQual" =>
          LET e == EventOf(c)
              w == record[c].write
          IN  /\ w.floor = Floor
              /\ w.qualClock[e.qual] <= e.time
    /\ record[c].pc = "putDedup" => EventOf(c).time <= snapshot.qualClock[EventOf(c).qual]

QualsOnce == \A e \in dedup : e.kind = "qual" => QualReflected(e)

QualsInv == QualsShowTheNewest /\ QualsOnce /\ \A c \in Consumers : QualRead(c)

-----------------------------------------------------------------------------
(* The tokens.                                                             *)

IsList(list) ==
    /\ OneEntryPerToken(list)
    /\ \A x \in list : /\ DOMAIN x = {"token", "reg", "valid"}
                       /\ x.reg \in Nat /\ x.valid \in BOOLEAN

\* A rejection accounts for the entry's being disabled.
Disabled(entry) == \E k \in killed : RejectedFor(entry, k) \/ MarkedAfter(entry, k)

\* An entry that was dead in the old list is dead in the new one, or registered anew.
StaysDead(list, next) ==
    \A old \in list, new \in next :
        ~old.valid /\ new.token = old.token => ~new.valid \/ new.reg > old.reg

ContactList(c) ==
    record[c].pc = "writeContact" =>
       LET w == record[c].write
       IN  /\ IsList(w.push) /\ \A x \in w.push : ~x.valid => Disabled(x)
           /\ w.version = snapshot.version => StaysDead(snapshot.push, w.push)

RejectedList(w) ==
    rejection[w].pc \in {"admit", "write"} =>
       LET r == rejection[w]
       IN  /\ IsList(r.push)
           /\ \A x \in r.push : ~x.valid => x.token = r.token \/ Disabled(x)
           /\ \A x \in r.push : x.token = r.token /\ r.since # 0 => x.reg < r.since
           /\ r.version = snapshot.version => StaysDead(snapshot.push, r.push)

TokensInv ==
    /\ IsList(snapshot.push) /\ DisabledOnTheGatewaysWord
    /\ \A k \in killed : k.marked \in Nat /\ k.rejected \in Nat /\ k.since \in Nat
    /\ \A c \in Consumers : ContactList(c)
    /\ \A w \in Rejections : RejectedList(w)

-----------------------------------------------------------------------------
(* The shapes.                                                             *)

\* A step of one invocation leaves the others' records alone.
LEMMA OneRecord ==
  ASSUME Typed, NEW c \in Consumers,
         ConsumerStep(c) \/ RecordFails(c) \/ \E e \in published : Receive(c, e)
  PROVE  /\ record' = [d \in Consumers |-> record'[d]]
         /\ \A d \in Consumers \ {c} : record'[d] = record[d]
         /\ UNCHANGED <<rejection, killed, drainVars>>
BY DEF Typed, ConsumerStep, RecordFails, Receive, WriteField, NextCall, ReadContact, WriteContact,
       CheckDedup, ReadQual, WriteQual, PutDedup, ApplyAvailability, Handled, Failed, Again

\* A step of one rejection leaves the others alone, and every record.
LEMMA OneRejection ==
  ASSUME Typed, NEW w \in Rejections, Reject(w) \/ ReadTarget(w) \/ Admit(w) \/ WriteInvalid(w)
  PROVE  /\ rejection' = [v \in Rejections |-> rejection'[v]]
         /\ \A v \in Rejections \ {w} : rejection'[v] = rejection[v]
         /\ UNCHANGED <<record, dedup, handled, unheard, drainVars>>
BY DEF Typed, Reject, ReadTarget, Admit, WriteInvalid, RejectionEnds

\* The drain publishes rows of the stream and forgets none.
LEMMA DrainPublishes ==
  ASSUME DrainNext
  PROVE  /\ stream' = stream /\ published \subseteq published'
         /\ \A e \in published' \ published :
               \E i \in DOMAIN stream : Publishable(stream[i]) /\ e = stream[i]
BY DEF DrainNext, Poll, PutEvents, PutEventsThrows, MarkSent, DrainDies, Report, Batch

\* Nothing but the values and clocks of fields in the given set changes.
OnlyFields(S) ==
    /\ \A g \in SimpleFields \ S : snapshot'.value[g] = snapshot.value[g]
    /\ \A g \in Fields \ S : snapshot'.clock[g] = snapshot.clock[g]
    /\ UNCHANGED <<snapshot.push, snapshot.phone, snapshot.version, snapshot.quals,
                   snapshot.qualClock, Floor>>

\* What the writes of the snapshot change, and what they leave.
LEMMA FieldWritten ==
  ASSUME IsSnapshot, NEW f \in SimpleFields, NEW v, NEW t \in Nat,
         \/ snapshot' = [snapshot EXCEPT !.exists = TRUE, !.value[f] = v, !.clock[f] = t]
         \/ snapshot' = [snapshot EXCEPT !.value[f] = v, !.clock[f] = t]
  PROVE  /\ IsSnapshot'
         /\ snapshot'.value[f] = v /\ snapshot'.clock[f] = t /\ OnlyFields({f})
<1>1. /\ DOMAIN snapshot = SnapshotParts /\ DOMAIN snapshot.value = SimpleFields
      /\ snapshot.clock \in [Fields -> Nat] /\ f \in Fields
  BY DEF IsSnapshot, Clocks, Fields
<1>2. DOMAIN snapshot' = SnapshotParts
  BY <1>1 DEF SnapshotParts
<1>3. snapshot'.value = [snapshot.value EXCEPT ![f] = v]
  BY <1>1 DEF SnapshotParts
<1>4. snapshot'.clock = [snapshot.clock EXCEPT ![f] = t]
  BY <1>1 DEF SnapshotParts
<1>5. UNCHANGED <<snapshot.push, snapshot.phone, snapshot.version, snapshot.quals,
                  snapshot.qualClock, snapshot.clocked, snapshot.floor,
                  snapshot.qualsUpdatedAt>>
  BY <1>1 DEF SnapshotParts
<1>6. IsSnapshot'
  BY <1>1, <1>2, <1>3, <1>4, <1>5 DEF IsSnapshot, Clocks
<1> QED BY <1>1, <1>3, <1>4, <1>5, <1>6 DEF OnlyFields, Floor

LEMMA ContactWritten ==
  ASSUME IsSnapshot, NEW push, NEW phone, NEW clock \in [Fields -> Nat],
         snapshot' = [snapshot EXCEPT !.exists = TRUE, !.version = @ + 1,
                                      !.push = push, !.phone = phone, !.clock = clock]
  PROVE  /\ IsSnapshot'
         /\ snapshot'.push = push /\ snapshot'.phone = phone
         /\ snapshot'.version = snapshot.version + 1
         /\ snapshot'.clock = clock
         /\ UNCHANGED <<snapshot.value, snapshot.quals, snapshot.qualClock, Floor>>
<1>1. /\ DOMAIN snapshot = SnapshotParts /\ DOMAIN snapshot.value = SimpleFields
      /\ Clocks
  BY DEF IsSnapshot
<1>2. DOMAIN snapshot' = SnapshotParts
  BY <1>1 DEF SnapshotParts
<1>3. /\ snapshot'.push = push /\ snapshot'.phone = phone
      /\ snapshot'.version = snapshot.version + 1
  BY <1>1 DEF SnapshotParts
<1>4. snapshot'.clock = clock
  BY <1>1 DEF SnapshotParts
<1>5. UNCHANGED <<snapshot.value, snapshot.quals, snapshot.qualClock, snapshot.clocked,
                  snapshot.floor, snapshot.qualsUpdatedAt>>
  BY <1>1 DEF SnapshotParts
<1>6. IsSnapshot'
  BY <1>1, <1>2, <1>3, <1>4, <1>5 DEF IsSnapshot, Clocks
<1> QED BY <1>3, <1>4, <1>5, <1>6 DEF Floor

LEMMA QualWritten ==
  ASSUME IsSnapshot, NEW quals, NEW clock \in [Quals -> Nat], NEW floor \in Nat, NEW t \in Nat,
         snapshot' = [snapshot EXCEPT !.exists = TRUE, !.clocked = TRUE, !.floor = floor,
                                      !.quals = quals, !.qualClock = clock, !.qualsUpdatedAt = t]
  PROVE  /\ IsSnapshot'
         /\ snapshot'.quals = quals /\ snapshot'.qualClock = clock /\ Floor' = floor
         /\ UNCHANGED <<snapshot.value, snapshot.clock, snapshot.push, snapshot.phone,
                        snapshot.version>>
<1>1. /\ DOMAIN snapshot = SnapshotParts /\ DOMAIN snapshot.value = SimpleFields
      /\ Clocks
  BY DEF IsSnapshot
<1>2. DOMAIN snapshot' = SnapshotParts
  BY <1>1 DEF SnapshotParts
<1>3. /\ snapshot'.quals = quals /\ snapshot'.qualClock = clock /\ snapshot'.floor = floor
      /\ snapshot'.clocked = TRUE /\ snapshot'.qualsUpdatedAt = t
  BY <1>1 DEF SnapshotParts
<1>4. UNCHANGED <<snapshot.value, snapshot.clock, snapshot.push, snapshot.phone,
                  snapshot.version>>
  BY <1>1 DEF SnapshotParts
<1>5. IsSnapshot'
  BY <1>1, <1>2, <1>3, <1>4 DEF IsSnapshot, Clocks
<1> QED BY <1>3, <1>4, <1>5 DEF Floor, Never

LEMMA ListWritten ==
  ASSUME IsSnapshot, NEW push,
         snapshot' = [snapshot EXCEPT !.push = push, !.version = @ + 1]
  PROVE  /\ IsSnapshot'
         /\ snapshot'.push = push /\ snapshot'.version = snapshot.version + 1
         /\ UNCHANGED <<snapshot.value, snapshot.clock, snapshot.phone, snapshot.quals,
                        snapshot.qualClock, Floor>>
<1>1. /\ DOMAIN snapshot = SnapshotParts /\ DOMAIN snapshot.value = SimpleFields
      /\ Clocks
  BY DEF IsSnapshot
<1>2. DOMAIN snapshot' = SnapshotParts
  BY <1>1 DEF SnapshotParts
<1>3. snapshot'.push = push /\ snapshot'.version = snapshot.version + 1
  BY <1>1 DEF SnapshotParts
<1>4. UNCHANGED <<snapshot.value, snapshot.clock, snapshot.phone, snapshot.quals,
                  snapshot.qualClock, snapshot.clocked, snapshot.floor,
                  snapshot.qualsUpdatedAt>>
  BY <1>1 DEF SnapshotParts
<1>5. IsSnapshot'
  BY <1>1, <1>2, <1>3, <1>4 DEF IsSnapshot, Clocks
<1> QED BY <1>3, <1>4, <1>5 DEF Floor

\* Every step keeps the shape of the snapshot.
LEMMA SnapshotKept ==
  ASSUME Typed, [Next]_vars
  PROVE  IsSnapshot'
<1>1. IsSnapshot
  BY DEF Typed
<1>2. CASE UNCHANGED snapshot
  BY <1>1, <1>2 DEF IsSnapshot, Clocks
<1>3. ASSUME NEW c \in Consumers, Busy(c)
      PROVE  EventOf(c).time \in Nat /\ FitsItsEvent(c)
  BY <1>3 DEF Typed, FitsItsEvent, IsEvent
<1>4. ASSUME NEW c \in Consumers, WriteField(c) PROVE IsSnapshot'
  <2>1. PICK f \in record[c].left :
          snapshot' = IF FieldIsNewer(f, EventOf(c).time)
                      THEN [snapshot EXCEPT !.exists = TRUE, !.value[f] = EventOf(c).sets[f],
                                            !.clock[f] = EventOf(c).time]
                      ELSE snapshot
    BY <1>4 DEF WriteField
  <2>2. f \in SimpleFields /\ EventOf(c).time \in Nat
    BY <1>3, <1>4 DEF WriteField, FitsItsEvent, QualCalls
  <2> QED BY <1>1, <1>2, <2>1, <2>2, FieldWritten
<1>5. ASSUME NEW c \in Consumers, WriteContact(c) PROVE IsSnapshot'
  <2>1. CASE UNCHANGED snapshot
    BY <1>2, <2>1
  <2>2. CASE ~UNCHANGED snapshot
    <3> DEFINE w == record[c].write
               clock == [f \in Fields |-> IF f \in w.groups THEN EventOf(c).time
                                          ELSE snapshot.clock[f]]
    <3>1. snapshot' = [snapshot EXCEPT !.exists = TRUE, !.version = @ + 1,
                                       !.push = w.push, !.phone = w.phone, !.clock = clock]
      BY <1>5, <2>2 DEF WriteContact
    <3>2. clock \in [Fields -> Nat]
      BY <1>1, <1>3, <1>5 DEF WriteContact, IsSnapshot, Clocks
    <3> HIDE DEF clock
    <3> QED BY <1>1, <3>1, <3>2, ContactWritten
  <2> QED BY <2>1, <2>2
<1>6. ASSUME NEW c \in Consumers, WriteQual(c) PROVE IsSnapshot'
  <2>1. CASE UNCHANGED snapshot
    BY <1>2, <2>1
  <2>2. CASE ~UNCHANGED snapshot
    <3> DEFINE e == EventOf(c)
               w == record[c].write
               quals == IF e.eligible THEN w.quals \cup {e.qual} ELSE w.quals \ {e.qual}
               clock == [w.qualClock EXCEPT ![e.qual] = e.time]
               time  == Latest(w.updatedAt, e.time)
    <3>1. /\ QualsAsRead(w)
          /\ snapshot' = [snapshot EXCEPT !.exists = TRUE, !.clocked = TRUE, !.floor = w.floor,
                                          !.quals = quals, !.qualClock = clock,
                                          !.qualsUpdatedAt = time]
      BY <1>6, <2>2 DEF WriteQual
    <3>2. e.time \in Nat /\ w.floor \in Nat /\ w.updatedAt \in Nat
      BY <1>3, <1>6 DEF WriteQual, FitsItsEvent, MemberCalls
    <3>3. clock \in [Quals -> Nat] /\ time \in Nat
      BY <1>1, <3>1, <3>2 DEF QualsAsRead, IsSnapshot, Clocks, Latest
    <3> HIDE DEF quals, clock, time
    <3> QED BY <1>1, <3>1, <3>2, <3>3, QualWritten
  <2> QED BY <2>1, <2>2
<1>7. ASSUME NEW c \in Consumers, ApplyAvailability(c) PROVE IsSnapshot'
  <2>1. EventOf(c).time \in Nat /\ "availability" \in SimpleFields
    BY <1>3, <1>7 DEF ApplyAvailability, SimpleFields
  <2>2. CASE snapshot' = [snapshot EXCEPT !.value["availability"] = EventOf(c).state,
                                          !.clock["availability"] = EventOf(c).time]
    BY <1>1, <2>1, <2>2, FieldWritten
  <2> QED BY <1>2, <1>7, <2>2 DEF ApplyAvailability
<1>8. ASSUME NEW w \in Rejections, WriteInvalid(w) PROVE IsSnapshot'
  BY <1>1, <1>2, <1>8, ListWritten DEF WriteInvalid
<1> QED BY <1>2, <1>4, <1>5, <1>6, <1>7, <1>8
        DEF Next, snapshotVars, vars, SnapshotNext, ConsumerStep, Receive, RecordFails, ReadContact,
            CheckDedup, ReadQual, PutDedup, Reject, ReadTarget, Admit

\* A record that has ended is idle.
LEMMA Ended ==
  ASSUME Typed, NEW c \in Consumers, Handled(c) \/ Failed(c)
  PROVE  record'[c] = IdleRecord /\ ~Busy(c)' /\ record'[c].pc = "idle"
BY DEF Typed, Handled, Failed, Busy, IdleRecord

\* A step of a record keeps its shape.
LEMMA RecordKept ==
  ASSUME Typed, NEW c \in Consumers,
         ConsumerStep(c) \/ RecordFails(c) \/ \E e \in published : Receive(c, e)
  PROVE  Busy(c)' => (DOMAIN record[c] = RecordParts /\ FitsItsEvent(c))'
<1> DEFINE Fine == (DOMAIN record[c] = RecordParts /\ FitsItsEvent(c))'
<1>1. published' = published /\ c \in DOMAIN record
  BY OneRecord DEF drainVars, Typed
<1>2. Busy(c) => DOMAIN record[c] = RecordParts /\ FitsItsEvent(c) /\ IsEvent(EventOf(c))
  BY DEF Typed, FitsItsEvent
<1>3. ASSUME NEW e \in published, Receive(c, e) PROVE Fine
  <2>1. /\ DOMAIN record'[c] = RecordParts /\ record'[c].event = e
        /\ record'[c].pc = FirstCall(e)
        /\ record'[c].left = IF e.kind = "member" THEN SimpleFields \cap DOMAIN e.sets ELSE {}
    BY <1>1, <1>3 DEF Receive, RecordParts, Typed
  <2>2. e.kind \in {"member", "qual", "availability"}
    BY DEF Typed, IsEvent
  <2> QED BY <1>1, <2>1, <2>2 DEF FirstCall, FitsItsEvent, EventOf, MemberCalls, QualCalls
<1>4. ASSUME WriteField(c), Busy(c)' PROVE Fine
  <2>1. PICK f \in record[c].left : record' = [record EXCEPT ![c].left = record[c].left \ {f}]
    BY <1>4, Ended DEF WriteField, NextCall
  <2>2. /\ DOMAIN record'[c] = RecordParts /\ record'[c].event = record[c].event
        /\ record'[c].pc = record[c].pc /\ record'[c].left = record[c].left \ {f}
    BY <1>1, <1>2, <1>4, <2>1 DEF WriteField, RecordParts
  <2> QED BY <1>1, <1>2, <1>4, <2>2 DEF WriteField, FitsItsEvent, EventOf, QualCalls
<1>5. ASSUME NEW pc, NEW write, Busy(c),
             \/ record' = [record EXCEPT ![c].pc = pc, ![c].write = write]
             \/ record' = [record EXCEPT ![c].tries = @ + 1, ![c].write = write, ![c].pc = pc],
             EventOf(c).kind = "member", pc \in MemberCalls
      PROVE  Fine
  <2>1. /\ DOMAIN record'[c] = RecordParts /\ record'[c].event = record[c].event
        /\ record'[c].pc = pc /\ record'[c].left = record[c].left
    <3>1. DOMAIN record[c] = RecordParts
      BY <1>2, <1>5
    <3>2. CASE record' = [record EXCEPT ![c].pc = pc, ![c].write = write]
      BY <1>1, <3>1, <3>2 DEF RecordParts
    <3>3. CASE record' = [record EXCEPT ![c].tries = @ + 1, ![c].write = write, ![c].pc = pc]
      BY <1>1, <3>1, <3>3 DEF RecordParts
    <3> QED BY <1>5, <3>2, <3>3
  <2> QED BY <1>1, <1>2, <1>5, <2>1 DEF FitsItsEvent, EventOf, QualCalls, MemberCalls
<1>6. ASSUME ReadContact(c), Busy(c)' PROVE Fine
  BY <1>2, <1>5, <1>6, Ended DEF ReadContact, FitsItsEvent, QualCalls, MemberCalls
<1>7. ASSUME WriteContact(c), Busy(c)' PROVE Fine
  BY <1>2, <1>5, <1>7, Ended DEF WriteContact, Again, FitsItsEvent, QualCalls, MemberCalls
<1>8. ASSUME CheckDedup(c), Busy(c)' PROVE Fine
  <2>1. record' = [record EXCEPT ![c].pc = "readQual"]
    BY <1>8, Ended DEF CheckDedup
  <2>2. /\ DOMAIN record'[c] = RecordParts /\ record'[c].event = record[c].event
        /\ record'[c].pc = "readQual"
    BY <1>1, <1>2, <1>8, <2>1 DEF CheckDedup, RecordParts
  <2> QED BY <1>1, <1>2, <1>8, <2>2 DEF CheckDedup, FitsItsEvent, EventOf, QualCalls, MemberCalls
<1>9. ASSUME ReadQual(c), Busy(c)' PROVE Fine
  <2>1. /\ DOMAIN record'[c] = RecordParts /\ record'[c].event = record[c].event
        /\ record'[c].pc = "writeQual" /\ record'[c].write.floor = Floor
        /\ record'[c].write.updatedAt = snapshot.qualsUpdatedAt
    <3>1. Busy(c) /\ ~Handled(c)
      BY <1>9, Ended DEF ReadQual
    <3> DEFINE write == [existed |-> snapshot.exists, quals |-> snapshot.quals,
                         qualClock |-> snapshot.qualClock, floor |-> Floor,
                         updatedAt |-> snapshot.qualsUpdatedAt]
    <3>2. record' = [record EXCEPT ![c].pc = "writeQual", ![c].write = write]
      BY <1>9, <3>1 DEF ReadQual
    <3>3. write.floor = Floor /\ write.updatedAt = snapshot.qualsUpdatedAt
      OBVIOUS
    <3> HIDE DEF write
    <3> QED BY <1>1, <1>2, <3>1, <3>2, <3>3 DEF RecordParts
  <2>2. Floor \in Nat /\ snapshot.qualsUpdatedAt \in Nat
    BY DEF Floor, Never, Typed, IsSnapshot, Clocks
  <2> QED BY <1>1, <1>2, <1>9, <2>1, <2>2 DEF ReadQual, FitsItsEvent, EventOf, QualCalls, MemberCalls
<1>10. ASSUME WriteQual(c), Busy(c)' PROVE Fine
  <2>1. Busy(c) /\ EventOf(c).kind = "qual" /\ ~Failed(c)
    BY <1>2, <1>10, Ended DEF WriteQual, FitsItsEvent, MemberCalls
  <2>2. CASE record' = [record EXCEPT ![c].pc = "putDedup", ![c].write = <<>>]
    <3>1. /\ DOMAIN record'[c] = RecordParts /\ record'[c].event = record[c].event
          /\ record'[c].pc = "putDedup"
      BY <1>1, <1>2, <2>1, <2>2 DEF RecordParts
    <3> QED BY <1>1, <1>2, <2>1, <3>1 DEF FitsItsEvent, EventOf, QualCalls
  <2>3. CASE Again(c, MaxQualTries)
    <3>1. record' = [record EXCEPT ![c].tries = @ + 1, ![c].write = <<>>, ![c].pc = "readQual"]
      BY <1>10, <2>1, <2>3 DEF WriteQual, Again
    <3>2. /\ DOMAIN record'[c] = RecordParts /\ record'[c].event = record[c].event
          /\ record'[c].pc = "readQual"
      BY <1>1, <1>2, <2>1, <3>1 DEF RecordParts
    <3> QED BY <1>1, <1>2, <2>1, <3>2 DEF FitsItsEvent, EventOf, QualCalls
  <2> QED BY <1>10, <2>2, <2>3 DEF WriteQual
<1>11. ASSUME RecordFails(c) \/ PutDedup(c) \/ ApplyAvailability(c) PROVE ~Busy(c)'
  BY <1>11, Ended DEF RecordFails, PutDedup, ApplyAvailability
<1> QED BY <1>3, <1>4, <1>6, <1>7, <1>8, <1>9, <1>10, <1>11 DEF ConsumerStep

\* A step of a rejection keeps its shape.
LEMMA RejectionKept ==
  ASSUME Typed, IsList(snapshot.push), NEW w \in Rejections,
         Reject(w) \/ ReadTarget(w) \/ Admit(w) \/ WriteInvalid(w)
  PROVE  rejection'[w].pc # "idle" =>
            /\ DOMAIN rejection'[w] = RejectionParts
            /\ rejection'[w].reg \in Nat /\ rejection'[w].since \in Nat
<1>1. w \in DOMAIN rejection
  BY DEF Typed
<1>2. CASE Reject(w)
  BY <1>1, <1>2, SnapshotConstants DEF Reject, RejectionParts, IsList
<1>3. ASSUME ReadTarget(w) \/ Admit(w) \/ WriteInvalid(w)
      PROVE  /\ DOMAIN rejection[w] = RejectionParts
             /\ rejection[w].reg \in Nat /\ rejection[w].since \in Nat
  BY <1>3 DEF Typed, ReadTarget, Admit, WriteInvalid
<1>4. CASE ReadTarget(w)
  BY <1>1, <1>3, <1>4 DEF ReadTarget, RejectionEnds, RejectionParts
<1>5. CASE Admit(w)
  BY <1>1, <1>3, <1>5 DEF Admit, RejectionEnds, RejectionParts
<1>6. CASE WriteInvalid(w)
  BY <1>1, <1>3, <1>6 DEF WriteInvalid, RejectionEnds, RejectionParts
<1> QED BY <1>2, <1>4, <1>5, <1>6

\* The shapes are kept.
LEMMA TypedKept ==
  ASSUME Typed, IsList(snapshot.push), [Next]_vars
  PROVE  Typed'
<1>1. IsSnapshot'
  BY SnapshotKept
<1>2. /\ stream' = stream /\ published \subseteq published'
      /\ \A e \in published' : IsEvent(e)
  <2>1. CASE DrainNext
    BY <2>1, DrainPublishes DEF Typed
  <2>2. CASE UNCHANGED <<stream, published>>
    BY <2>2 DEF Typed
  <2> QED BY <2>1, <2>2 DEF Next, vars, drainVars, SnapshotNext, ConsumerStep, Receive, RecordFails, WriteField,
      ReadContact, WriteContact, CheckDedup, ReadQual, WriteQual, PutDedup, ApplyAvailability,
      Reject, ReadTarget, Admit, WriteInvalid
<1>3. ASSUME UNCHANGED <<record, rejection, handled, dedup>> PROVE Typed'
  BY <1>1, <1>2, <1>3 DEF Typed, Busy, EventOf, FitsItsEvent
<1>4. ASSUME NEW c \in Consumers,
             ConsumerStep(c) \/ RecordFails(c) \/ \E e \in published : Receive(c, e)
      PROVE  Typed'
  <2>1. (handled \cup dedup)' \subseteq published'
    <3>1. Busy(c) => EventOf(c) \in published
      BY DEF Typed, FitsItsEvent
    <3> QED BY <1>2, <1>4, <3>1 DEF Typed, ConsumerStep, Receive, RecordFails, WriteField, NextCall,
              ReadContact, WriteContact, CheckDedup, ReadQual, WriteQual, PutDedup,
              ApplyAvailability, Handled, Failed, Again
  <2>2. \A d \in Consumers : Busy(d)' => (DOMAIN record[d] = RecordParts /\ FitsItsEvent(d))'
    <3>1. ASSUME NEW d \in Consumers \ {c}, Busy(d)'
          PROVE  (DOMAIN record[d] = RecordParts /\ FitsItsEvent(d))'
      BY <1>2, <1>4, <3>1, OneRecord DEF Typed, Busy, EventOf, FitsItsEvent
    <3> QED BY <1>4, <3>1, RecordKept
  <2> QED BY <1>1, <1>2, <1>4, <2>1, <2>2, OneRecord DEF Typed
<1>5. ASSUME NEW w \in Rejections, Reject(w) \/ ReadTarget(w) \/ Admit(w) \/ WriteInvalid(w)
      PROVE  Typed'
  <2>1. /\ UNCHANGED <<record, handled, dedup>>
        /\ rejection' = [v \in Rejections |-> rejection'[v]]
        /\ \A v \in Rejections :
              rejection'[v].pc # "idle" =>
                 /\ DOMAIN rejection'[v] = RejectionParts
                 /\ rejection'[v].reg \in Nat /\ rejection'[v].since \in Nat
    BY <1>5, OneRejection, RejectionKept DEF Typed
  <2> QED BY <1>1, <1>2, <2>1 DEF Typed, Busy, EventOf, FitsItsEvent
<1> QED BY <1>3, <1>4, <1>5 DEF Next, vars, snapshotVars, SnapshotNext

LEMMA TypedInit ==
  ASSUME Init
  PROVE  Typed
<1>1. PICK history \in Histories : stream = history.rows /\ DrainInit /\ SnapshotInit(history)
  BY DEF Init
<1>2. \A i \in DOMAIN stream : Publishable(stream[i]) => IsEvent(stream[i])
  BY <1>1, CommittedEvents
<1>3. IsSnapshot
  <2>1. history.legacy \in Nat
    BY CommittedEvents
  <2> QED BY <1>1, <2>1 DEF SnapshotInit, NewSnapshot, IsSnapshot, SnapshotParts, Clocks, SimpleFields, Never
<1>4. /\ published = {} /\ handled = {} /\ dedup = {}
      /\ record = [c \in Consumers |-> record[c]] /\ \A c \in Consumers : record[c].pc = "idle"
      /\ rejection = [w \in Rejections |-> rejection[w]]
      /\ \A w \in Rejections : rejection[w].pc = "idle"
  BY <1>1 DEF DrainInit, SnapshotInit, IdleRecord, IdleRejection
<1> QED BY <1>2, <1>3, <1>4 DEF Typed, Busy

-----------------------------------------------------------------------------
(* What each write does.                                                   *)

\* A busy record's event, and what it carries.
LEMMA BusyEvent ==
  ASSUME Typed, NEW c \in Consumers, Busy(c)
  PROVE  /\ DOMAIN record[c] = RecordParts /\ FitsItsEvent(c)
         /\ EventOf(c) \in published /\ IsEvent(EventOf(c)) /\ EventOf(c).time \in Nat
BY DEF Typed, FitsItsEvent, IsEvent

\* A field is written if the event is newer than its last one.
LEMMA WriteFieldDoes ==
  ASSUME Typed, NEW c \in Consumers, WriteField(c)
  PROVE  \E f \in record[c].left :
            /\ f \in SimpleFields /\ Carries(EventOf(c), f)
            /\ NextCall(c, f)
            /\ \/ UNCHANGED snapshot /\ EventOf(c).time <= snapshot.clock[f]
               \/ /\ snapshot.clock[f] < EventOf(c).time
                  /\ snapshot'.value[f] = EventOf(c).sets[f]
                  /\ snapshot'.clock[f] = EventOf(c).time
                  /\ OnlyFields({f})
<1>1. IsSnapshot /\ snapshot.clock \in [Fields -> Nat]
  BY DEF Typed, IsSnapshot, Clocks
<1>2. PICK f \in record[c].left :
        /\ NextCall(c, f)
        /\ snapshot' = IF FieldIsNewer(f, EventOf(c).time)
                       THEN [snapshot EXCEPT !.exists = TRUE, !.value[f] = EventOf(c).sets[f],
                                             !.clock[f] = EventOf(c).time]
                       ELSE snapshot
  BY DEF WriteField
<1>3. f \in SimpleFields /\ Carries(EventOf(c), f) /\ EventOf(c).time \in Nat /\ f \in Fields
  BY BusyEvent DEF WriteField, FitsItsEvent, QualCalls, Carries, Fields
<1>4. CASE FieldIsNewer(f, EventOf(c).time)
  <2>1. snapshot' = [snapshot EXCEPT !.exists = TRUE, !.value[f] = EventOf(c).sets[f],
                                     !.clock[f] = EventOf(c).time]
    BY <1>2, <1>4
  <2>2. /\ snapshot'.value[f] = EventOf(c).sets[f] /\ snapshot'.clock[f] = EventOf(c).time
        /\ OnlyFields({f})
    BY <1>1, <1>3, <2>1, FieldWritten
  <2> QED BY <1>2, <1>3, <1>4, <2>2 DEF FieldIsNewer
<1>5. CASE ~FieldIsNewer(f, EventOf(c).time)
  BY <1>1, <1>2, <1>3, <1>5 DEF FieldIsNewer
<1> QED BY <1>4, <1>5

\* So is the availability, if there is a snapshot and the event is not a duplicate.
LEMMA ApplyAvailabilityDoes ==
  ASSUME Typed, NEW c \in Consumers, ApplyAvailability(c)
  PROVE  LET e == EventOf(c)
         IN  \/ /\ UNCHANGED <<snapshot, dedup>>
                /\ e \in dedup \/ e \in unheard' \/ Reflected(e, "availability")
             \/ /\ snapshot.clock["availability"] < e.time
                /\ snapshot'.value["availability"] = e.state
                /\ snapshot'.clock["availability"] = e.time
                /\ dedup' = dedup \cup {e}
                /\ OnlyFields({"availability"})
<1> DEFINE e == EventOf(c)
<1>1. IsSnapshot /\ snapshot.clock \in [Fields -> Nat] /\ "availability" \in SimpleFields \cap Fields
  BY DEF Typed, IsSnapshot, Clocks, SimpleFields, Fields
<1>2. e.time \in Nat
  BY BusyEvent DEF ApplyAvailability
<1>3. CASE e \notin dedup /\ snapshot.exists /\ FieldIsNewer("availability", e.time)
  <2>1. /\ snapshot' = [snapshot EXCEPT !.value["availability"] = e.state,
                                        !.clock["availability"] = e.time]
        /\ dedup' = dedup \cup {e}
    BY <1>3 DEF ApplyAvailability
  <2>2. /\ snapshot'.value["availability"] = e.state /\ snapshot'.clock["availability"] = e.time
        /\ OnlyFields({"availability"})
    BY <1>1, <1>2, <2>1, FieldWritten
  <2> QED BY <1>3, <2>1, <2>2 DEF FieldIsNewer
<1>4. CASE ~(e \notin dedup /\ snapshot.exists /\ FieldIsNewer("availability", e.time))
  BY <1>1, <1>2, <1>4 DEF ApplyAvailability, FieldIsNewer, Reflected
<1> QED BY <1>3, <1>4

\* A contact write that is not refused puts what was merged, at the event's time.
LEMMA WriteContactDoes ==
  ASSUME Typed, NEW c \in Consumers, WriteContact(c)
  PROVE  LET e == EventOf(c)
             w == record[c].write
         IN  \/ UNCHANGED snapshot /\ snapshot.version # w.version /\ Again(c, MaxTries)
             \/ /\ snapshot.version = w.version /\ Handled(c)
                /\ snapshot'.push = w.push /\ snapshot'.phone = w.phone
                /\ snapshot'.version = snapshot.version + 1
                /\ \A f \in Fields : snapshot'.clock[f] =
                      IF f \in w.groups THEN e.time ELSE snapshot.clock[f]
                /\ UNCHANGED <<snapshot.value, snapshot.quals, snapshot.qualClock, Floor>>
<1> DEFINE e == EventOf(c)
           w == record[c].write
           clock == [f \in Fields |-> IF f \in w.groups THEN e.time ELSE snapshot.clock[f]]
<1>1. CASE SameVersion(w.version)
  <2>1. Handled(c) /\ snapshot' = [snapshot EXCEPT !.exists = TRUE, !.version = @ + 1,
                                       !.push = w.push, !.phone = w.phone, !.clock = clock]
    BY <1>1 DEF WriteContact
  <2>2. clock \in [Fields -> Nat] /\ IsSnapshot
    BY BusyEvent DEF WriteContact, Typed, IsSnapshot, Clocks
  <2>3. \A f \in Fields : clock[f] = IF f \in w.groups THEN e.time ELSE snapshot.clock[f]
    OBVIOUS
  <2> HIDE DEF clock, w
  <2>4. /\ snapshot'.push = w.push /\ snapshot'.phone = w.phone /\ snapshot'.clock = clock
        /\ snapshot'.version = snapshot.version + 1
        /\ UNCHANGED <<snapshot.value, snapshot.quals, snapshot.qualClock, Floor>>
    BY <2>1, <2>2, ContactWritten
  <2> QED BY <1>1, <2>1, <2>3, <2>4 DEF SameVersion, w
<1>2. CASE ~SameVersion(w.version)
  BY <1>2 DEF WriteContact, SameVersion
<1> QED BY <1>1, <1>2

\* A qualification write that is not refused changes one qualification and its clock.
LEMMA WriteQualDoes ==
  ASSUME Typed, NEW c \in Consumers, WriteQual(c)
  PROVE  LET e == EventOf(c)
             w == record[c].write
         IN  \/ UNCHANGED snapshot /\ Again(c, MaxQualTries)
             \/ /\ w.qualClock = snapshot.qualClock
                /\ e.kind = "qual" /\ e.qual \in Quals /\ e.eligible \in BOOLEAN
                /\ e.qual \in snapshot'.quals <=> e.eligible
                /\ snapshot'.qualClock[e.qual] = e.time
                /\ \A q \in Quals \ {e.qual} :
                      /\ q \in snapshot'.quals <=> q \in snapshot.quals
                      /\ snapshot'.qualClock[q] = snapshot.qualClock[q]
                /\ Floor' = w.floor
                /\ record' = [record EXCEPT ![c].pc = "putDedup", ![c].write = <<>>]
                /\ UNCHANGED <<handled, snapshot.value, snapshot.clock, snapshot.push,
                               snapshot.phone, snapshot.version>>
<1> DEFINE e == EventOf(c)
           w == record[c].write
           quals == IF e.eligible THEN w.quals \cup {e.qual} ELSE w.quals \ {e.qual}
           clock == [w.qualClock EXCEPT ![e.qual] = e.time]
           time  == Latest(w.updatedAt, e.time)
<1>1. CASE QualsAsRead(w)
  <2>1. /\ e.kind = "qual" /\ e.qual \in Quals /\ e.eligible \in BOOLEAN /\ e.time \in Nat
        /\ w.floor \in Nat /\ w.updatedAt \in Nat
    BY BusyEvent DEF WriteQual, FitsItsEvent, MemberCalls, IsEvent
  <2>2. /\ snapshot' = [snapshot EXCEPT !.exists = TRUE, !.clocked = TRUE, !.floor = w.floor,
                                        !.quals = quals, !.qualClock = clock,
                                        !.qualsUpdatedAt = time]
        /\ record' = [record EXCEPT ![c].pc = "putDedup", ![c].write = <<>>]
        /\ UNCHANGED handled
    BY <1>1 DEF WriteQual
  <2>3. IsSnapshot /\ w.qualClock = snapshot.qualClock /\ w.quals = snapshot.quals
    BY <1>1 DEF QualsAsRead, Typed
  <2>4. clock \in [Quals -> Nat] /\ time \in Nat
    BY <2>1, <2>3 DEF IsSnapshot, Clocks, Latest
  <2>5. /\ clock[e.qual] = e.time
        /\ \A q \in Quals \ {e.qual} : clock[q] = snapshot.qualClock[q]
    BY <2>1, <2>3 DEF IsSnapshot, Clocks
  <2>6. /\ e.qual \in quals <=> e.eligible
        /\ \A q \in Quals \ {e.qual} : q \in quals <=> q \in snapshot.quals
    BY <2>1, <2>3
  <2> HIDE DEF quals, clock, time
  <2>7. /\ snapshot'.quals = quals /\ snapshot'.qualClock = clock /\ Floor' = w.floor
        /\ UNCHANGED <<snapshot.value, snapshot.clock, snapshot.push, snapshot.phone,
                       snapshot.version>>
    BY <2>1, <2>2, <2>3, <2>4, QualWritten
  <2> QED BY <2>1, <2>2, <2>3, <2>5, <2>6, <2>7
<1>2. CASE ~QualsAsRead(w)
  BY <1>2 DEF WriteQual
<1> QED BY <1>1, <1>2

\* An invalidation that is not refused puts the list it read, with the token marked.
LEMMA WriteInvalidDoes ==
  ASSUME Typed, NEW w \in Rejections, WriteInvalid(w)
  PROVE  LET r == rejection[w]
         IN  \/ UNCHANGED <<snapshot, killed>>
             \/ /\ snapshot.version = r.version /\ r.pc = "write"
                /\ snapshot'.push = r.push /\ snapshot'.version = snapshot.version + 1
                /\ killed' = killed \cup
                     {[token |-> r.token, marked |-> entry.reg, rejected |-> r.reg,
                       since |-> r.since] : entry \in {x \in r.push : x.token = r.token}}
                /\ UNCHANGED <<snapshot.value, snapshot.clock, snapshot.phone, snapshot.quals,
                               snapshot.qualClock, Floor>>
<1>1. CASE SameVersion(rejection[w].version)
  <2>1. IsSnapshot
    BY DEF Typed
  <2>2. snapshot' = [snapshot EXCEPT !.push = rejection[w].push, !.version = @ + 1]
    BY <1>1 DEF WriteInvalid
  <2>3. /\ snapshot'.push = rejection[w].push /\ snapshot'.version = snapshot.version + 1
        /\ UNCHANGED <<snapshot.value, snapshot.clock, snapshot.phone, snapshot.quals,
                       snapshot.qualClock, Floor>>
    BY <2>1, <2>2, ListWritten
  <2> QED BY <1>1, <2>3 DEF WriteInvalid, SameVersion
<1>2. CASE ~SameVersion(rejection[w].version)
  BY <1>2 DEF WriteInvalid
<1> QED BY <1>1, <1>2

-----------------------------------------------------------------------------
(* The fields show the newest.                                             *)

\* No clock goes back, and a list is not changed without a new version.
LEMMA ClocksGrow ==
  ASSUME Typed, FieldsInv, [Next]_vars
  PROVE  /\ \A f \in Fields : snapshot.clock[f] <= snapshot'.clock[f]
         /\ snapshot.version <= snapshot'.version
         /\ snapshot'.version = snapshot.version =>
               /\ snapshot'.push = snapshot.push /\ snapshot'.phone = snapshot.phone
               /\ \A g \in Groups : snapshot'.clock[g] = snapshot.clock[g]
<1>1. /\ snapshot.clock \in [Fields -> Nat] /\ snapshot.version \in Nat
      /\ snapshot'.clock \in [Fields -> Nat]
  BY SnapshotKept DEF Typed, IsSnapshot, Clocks
<1>2. CASE UNCHANGED snapshot
  BY <1>1, <1>2
<1>3. Groups \subseteq Fields /\ Groups \cap SimpleFields = {} /\ "availability" \in SimpleFields
  BY DEF Fields, Groups, SimpleFields
<1>4. ASSUME NEW c \in Consumers, WriteField(c) \/ ApplyAvailability(c), ~UNCHANGED snapshot
      PROVE  \E f \in SimpleFields : OnlyFields({f}) /\ snapshot.clock[f] < snapshot'.clock[f]
  BY <1>3, <1>4, WriteFieldDoes, ApplyAvailabilityDoes
<1>5. ASSUME NEW f \in SimpleFields, OnlyFields({f}), snapshot.clock[f] < snapshot'.clock[f]
      PROVE  /\ \A g \in Fields : snapshot.clock[g] <= snapshot'.clock[g]
             /\ snapshot'.version = snapshot.version
             /\ snapshot'.push = snapshot.push /\ snapshot'.phone = snapshot.phone
             /\ \A g \in Groups : snapshot'.clock[g] = snapshot.clock[g]
  <2>1. \A g \in Fields \ {f} : snapshot'.clock[g] = snapshot.clock[g]
    BY <1>5 DEF OnlyFields
  <2>2. \A g \in Fields : snapshot.clock[g] <= snapshot'.clock[g]
    BY <1>1, <1>5, <2>1
  <2> QED BY <1>3, <1>5, <2>1, <2>2 DEF OnlyFields
<1>6. ASSUME NEW c \in Consumers, WriteContact(c), ~UNCHANGED snapshot
      PROVE  /\ \A f \in Fields : snapshot.clock[f] <= snapshot'.clock[f]
             /\ snapshot'.version = snapshot.version + 1
  <2>1. /\ snapshot'.version = snapshot.version + 1
        /\ snapshot.version = record[c].write.version
        /\ \A f \in Fields : snapshot'.clock[f] =
              IF f \in record[c].write.groups THEN EventOf(c).time ELSE snapshot.clock[f]
    BY <1>6, WriteContactDoes
  <2>2. \A g \in record[c].write.groups : snapshot.clock[g] < EventOf(c).time
    BY <1>6, <2>1 DEF FieldsInv, ContactRead, WriteContact
  <2>3. EventOf(c).time \in Nat
    BY <1>6, BusyEvent DEF WriteContact
  <2> QED BY <1>1, <2>1, <2>2, <2>3
<1>7. ASSUME NEW c \in Consumers, WriteQual(c), ~UNCHANGED snapshot
      PROVE  UNCHANGED <<snapshot.clock, snapshot.push, snapshot.phone, snapshot.version>>
  BY <1>7, WriteQualDoes
<1>8. ASSUME NEW w \in Rejections, WriteInvalid(w), ~UNCHANGED snapshot
      PROVE  snapshot'.clock = snapshot.clock /\ snapshot'.version = snapshot.version + 1
  BY <1>8, WriteInvalidDoes
<1>9. CASE ~UNCHANGED snapshot
  <2>1. CASE \E c \in Consumers : WriteField(c) \/ ApplyAvailability(c)
    <3>1. \E f \in SimpleFields : OnlyFields({f}) /\ snapshot.clock[f] < snapshot'.clock[f]
      BY <1>4, <1>9, <2>1
    <3> QED BY <1>1, <1>5, <3>1
  <2>2. CASE \E c \in Consumers : WriteContact(c)
    BY <1>1, <1>6, <1>9, <2>2
  <2>3. CASE \E c \in Consumers : WriteQual(c)
    BY <1>1, <1>7, <1>9, <2>3
  <2>4. CASE \E w \in Rejections : WriteInvalid(w)
    BY <1>1, <1>8, <1>9, <2>4
  <2> QED BY <1>9, <2>1, <2>2, <2>3, <2>4
          DEF Next, vars, snapshotVars, SnapshotNext, ConsumerStep, Receive, RecordFails, ReadContact,
              CheckDedup, ReadQual, PutDedup, Reject, ReadTarget, Admit
<1> QED BY <1>2, <1>9

\* What a field has reflected it reflects ever after.
LEMMA ReflectedStays ==
  ASSUME Typed, FieldsInv, [Next]_vars, NEW e, IsEvent(e), NEW f \in Fields, Reflected(e, f)
  PROVE  Reflected(e, f)'
<1>1. snapshot.clock[f] \in Nat /\ snapshot'.clock[f] \in Nat /\ e.time \in Nat
  BY SnapshotKept DEF Typed, IsSnapshot, Clocks, IsEvent
<1> QED BY <1>1, ClocksGrow DEF Reflected

\* The published events stay published.
LEMMA PublishedGrows ==
  ASSUME [Next]_vars
  PROVE  published \subseteq published'
BY DrainPublishes
DEF Next, vars, drainVars, SnapshotNext, ConsumerStep, Receive, RecordFails, WriteField,
    ReadContact, WriteContact, CheckDedup, ReadQual, WriteQual, PutDedup, ApplyAvailability,
    Reject, ReadTarget, Admit, WriteInvalid

\* An event is handled only if every field it writes reflects it, or it found no snapshot.
LEMMA HandledWhenReflected ==
  ASSUME Typed, FieldsInv, NEW c \in Consumers, ConsumerStep(c),
         NEW e \in handled' \ handled, e = EventOf(c),
         NEW f \in Fields, Writes(e, f)
  PROVE  Reflected(e, f)' \/ e \in unheard'
<1>1. /\ Next /\ Busy(c)
  BY DEF Next, SnapshotNext, ConsumerStep, WriteField, ReadContact, WriteContact, CheckDedup, ReadQual,
         WriteQual, PutDedup, ApplyAvailability
<1>2. /\ IsEvent(e) /\ FitsItsEvent(c) /\ e.time \in Nat
      /\ snapshot.clock \in [Fields -> Nat]
  BY <1>1, BusyEvent DEF Typed, IsSnapshot, Clocks
<1>3. \A g \in Fields : Reflected(e, g) => Reflected(e, g)'
  BY <1>1, <1>2, ReflectedStays
<1>4. FieldsPassed(c) /\ ContactRead(c)
  BY DEF FieldsInv
<1>5. ASSUME record[c].pc \in MemberCalls PROVE e.kind = "member" /\ Carries(e, f)
  BY <1>2, <1>5 DEF FitsItsEvent, MemberCalls, QualCalls, Writes, Carries
<1>6. CASE WriteField(c)
  <2>1. record[c].pc \in MemberCalls
    BY <1>6 DEF WriteField, MemberCalls
  <2>2. PICK g \in record[c].left :
          /\ NextCall(c, g)
          /\ (UNCHANGED snapshot /\ e.time <= snapshot.clock[g]) \/ snapshot'.clock[g] = e.time
    BY <1>6, WriteFieldDoes
  <2>3. record[c].left \ {g} = {} /\ f \in SimpleFields
    BY <1>5, <2>1, <2>2 DEF NextCall, Fields
  <2>4. CASE f = g
    BY <1>2, <2>2, <2>4 DEF Reflected
  <2>5. CASE f # g
    BY <1>3, <1>4, <1>5, <2>1, <2>3, <2>5 DEF FieldsPassed
  <2> QED BY <2>4, <2>5
<1>7. CASE ReadContact(c)
  <2>1. record[c].pc \in MemberCalls /\ record[c].left = {}
    BY <1>7 DEF ReadContact, MemberCalls
  <2>2. GroupsToApply(e) = {} /\ UNCHANGED snapshot
    BY <1>7 DEF ReadContact
  <2>3. CASE f \in Groups
    BY <1>2, <1>5, <2>1, <2>2, <2>3 DEF GroupsToApply, Reflected
  <2>4. CASE f \in SimpleFields
    BY <1>3, <1>4, <1>5, <2>1, <2>4 DEF FieldsPassed
  <2> QED BY <2>3, <2>4 DEF Fields
<1>8. CASE WriteContact(c)
  <2>1. record[c].pc = "writeContact" /\ record[c].pc \in MemberCalls
    BY <1>8 DEF WriteContact, MemberCalls
  <2>2. \A g \in Fields : g \in record[c].write.groups => snapshot'.clock[g] = e.time
    BY <1>8, WriteContactDoes DEF Again, Failed
  <2>3. CASE f \in record[c].write.groups
    BY <1>2, <2>2, <2>3 DEF Reflected
  <2>4. CASE f \in Groups \ record[c].write.groups
    BY <1>3, <1>4, <1>5, <2>1, <2>4 DEF ContactRead
  <2>5. CASE f \in SimpleFields
    BY <1>3, <1>4, <1>5, <2>1, <2>5 DEF FieldsPassed, ContactRead
  <2> QED BY <2>3, <2>4, <2>5 DEF Fields
<1>9. CASE ApplyAvailability(c)
  <2>1. e.kind = "availability" /\ f = "availability"
    BY <1>2, <1>9 DEF ApplyAvailability, FitsItsEvent, MemberCalls, QualCalls, Writes, Carries
  <2>2. e \in dedup => Reflected(e, f)
    BY <2>1 DEF FieldsInv, AvailabilityOnce
  <2>3. Reflected(e, f) \/ e \in unheard' \/ snapshot'.clock[f] = e.time
    BY <1>9, <2>1, <2>2, ApplyAvailabilityDoes
  <2> QED BY <1>2, <1>3, <2>3 DEF Reflected
<1>10. CASE CheckDedup(c) \/ ReadQual(c) \/ WriteQual(c) \/ PutDedup(c)
  BY <1>2, <1>10 DEF CheckDedup, ReadQual, WriteQual, PutDedup, FitsItsEvent, MemberCalls, QualCalls,
                     Writes, Carries
<1> QED BY <1>6, <1>7, <1>8, <1>9, <1>10 DEF ConsumerStep

\* Only the event of the step becomes handled.
LEMMA HandledOneByOne ==
  ASSUME Typed, [Next]_vars
  PROVE  /\ unheard \subseteq unheard' /\ handled \subseteq handled'
         /\ \A e \in handled' \ handled : \E c \in Consumers : ConsumerStep(c) /\ e = EventOf(c)
<1>1. ASSUME NEW c \in Consumers, ConsumerStep(c)
      PROVE  /\ unheard \subseteq unheard' /\ handled \subseteq handled'
             /\ handled' \subseteq handled \cup {EventOf(c)}
  BY <1>1 DEF ConsumerStep, WriteField, NextCall, ReadContact, WriteContact, CheckDedup, ReadQual,
         WriteQual, PutDedup, ApplyAvailability, Handled, Failed, Again
<1>2. CASE UNCHANGED <<handled, unheard>>
  BY <1>2
<1> QED BY <1>1, <1>2 DEF Next, vars, snapshotVars, SnapshotNext, Receive, RecordFails, Failed, Reject,
                          ReadTarget, Admit, WriteInvalid

LEMMA HandledReflectedKept ==
  ASSUME Typed, FieldsInv, [Next]_vars, NEW f \in Fields
  PROVE  HandledReflected(f)'
<1> SUFFICES ASSUME NEW e \in handled' \ unheard', Writes(e, f) PROVE Reflected(e, f)'
  BY DEF HandledReflected, Writes, Carries
<1>1. CASE e \in handled
  <2>1. e \in handled \ unheard /\ IsEvent(e)
    BY <1>1, HandledOneByOne DEF Typed
  <2>2. Reflected(e, f)
    BY <2>1 DEF FieldsInv, HandledReflected
  <2> QED BY <2>1, <2>2, ReflectedStays
<1>2. CASE e \notin handled
  BY <1>2, HandledOneByOne, HandledWhenReflected
<1> QED BY <1>1, <1>2

\* The items a field displays.
Display(f) ==
    CASE f = "push" -> Tokens(snapshot.push)
      [] f = "phone" -> snapshot.phone
      [] OTHER -> snapshot.value[f]

\* A field whose display and clock stay the same shows the same event.
LEMMA ShowsStays ==
  ASSUME NEW f \in Fields, ShowsAnEvent(f), published \subseteq published',
         snapshot'.clock[f] = snapshot.clock[f], Display(f)' = Display(f)
  PROVE  ShowsAnEvent(f)'
<1> SUFFICES ASSUME snapshot'.clock[f] # Never
             PROVE  \E e \in published' : /\ Writes(e, f) /\ e.time = snapshot'.clock[f]
                                         /\ Shows(e, f)'
  BY DEF ShowsAnEvent, Writes, Carries
<1>1. PICK e \in published : Writes(e, f) /\ e.time = snapshot.clock[f] /\ Shows(e, f)
  BY DEF ShowsAnEvent
<1>2. Shows(e, f)'
  <2>1. CASE f = "push"
    BY <1>1, <2>1 DEF Shows, Display, Tokens, Writes, Carries
  <2>2. CASE f = "phone"
    BY <1>1, <2>2 DEF Shows, Display, Writes, Carries
  <2>3. CASE f \in SimpleFields
    <3>1. f # "push" /\ f # "phone"
      BY <2>3 DEF SimpleFields
    <3> QED BY <1>1, <3>1 DEF Shows, Display
  <2> QED BY <2>1, <2>2, <2>3 DEF Fields, Groups
<1> QED BY <1>1, <1>2

\* A step that writes one simple field shows its event there.
LEMMA ShowsAfterField ==
  ASSUME Typed, NEW f \in SimpleFields, NEW e \in published', Writes(e, f),
         OnlyFields({f}), snapshot'.clock[f] = e.time,
         snapshot'.value[f] = IF e.kind = "availability" THEN e.state ELSE e.sets[f],
         \A g \in Fields : ShowsAnEvent(g), published \subseteq published'
  PROVE  \A g \in Fields : ShowsAnEvent(g)'
<1>1. f # "push" /\ f # "phone"
  BY DEF SimpleFields
<1>2. Shows(e, f)'
  BY <1>1 DEF Shows
<1>3. ShowsAnEvent(f)'
  BY <1>2 DEF ShowsAnEvent, Writes, Carries
<1>4. ASSUME NEW g \in Fields \ {f} PROVE ShowsAnEvent(g)'
  <2>1. snapshot'.clock[g] = snapshot.clock[g]
    BY DEF OnlyFields
  <2>2. Display(g)' = Display(g)
    <3>1. CASE g = "push" \/ g = "phone"
      BY <3>1 DEF Display, Tokens, OnlyFields
    <3>2. CASE g \in SimpleFields
      <4>1. g # "push" /\ g # "phone"
        BY <3>2 DEF SimpleFields
      <4> QED BY <3>2, <4>1 DEF Display, OnlyFields
    <3> QED BY <3>1, <3>2 DEF Fields, Groups
  <2> QED BY <2>1, <2>2, ShowsStays
<1> QED BY <1>3, <1>4

LEMMA ShowsKept ==
  ASSUME Typed, FieldsInv, [Next]_vars
  PROVE  \A f \in Fields : ShowsAnEvent(f)'
<1>1. published \subseteq published' /\ \A f \in Fields : ShowsAnEvent(f)
  BY PublishedGrows DEF FieldsInv
<1>2. ASSUME UNCHANGED <<snapshot.value, snapshot.clock, snapshot.phone>>,
             Tokens(snapshot'.push) = Tokens(snapshot.push)
      PROVE  \A f \in Fields : ShowsAnEvent(f)'
  <2>1. \A f \in Fields : Display(f)' = Display(f)
    BY <1>2 DEF Display, Tokens
  <2> QED BY <1>1, <1>2, <2>1, ShowsStays
<1>3. CASE UNCHANGED snapshot
  BY <1>2, <1>3
<1>4. ASSUME NEW c \in Consumers, WriteField(c), ~UNCHANGED snapshot
      PROVE  \A f \in Fields : ShowsAnEvent(f)'
  <2>1. PICK f \in record[c].left :
          /\ f \in SimpleFields /\ Carries(EventOf(c), f)
          /\ snapshot'.value[f] = EventOf(c).sets[f]
          /\ snapshot'.clock[f] = EventOf(c).time
          /\ OnlyFields({f})
    BY <1>4, WriteFieldDoes
  <2>2. PICK e \in published' : e = EventOf(c)
    BY <1>1, <1>4, BusyEvent DEF WriteField
  <2> QED BY <1>1, <2>1, <2>2, ShowsAfterField DEF Writes, Carries
<1>5. ASSUME NEW c \in Consumers, ApplyAvailability(c), ~UNCHANGED snapshot
      PROVE  \A f \in Fields : ShowsAnEvent(f)'
  <2>1. PICK e \in published' : e = EventOf(c) /\ e.kind = "availability"
    BY <1>1, <1>5, BusyEvent DEF ApplyAvailability, FitsItsEvent, MemberCalls, QualCalls
  <2>2. "availability" \in SimpleFields
    BY DEF SimpleFields
  <2> QED BY <1>1, <1>5, <2>1, <2>2, ApplyAvailabilityDoes, ShowsAfterField DEF Writes
<1>6. ASSUME NEW c \in Consumers, WriteContact(c), ~UNCHANGED snapshot
      PROVE  \A f \in Fields : ShowsAnEvent(f)'
  <2> DEFINE w == record[c].write
  <2>1. /\ snapshot.version = w.version /\ snapshot'.push = w.push /\ snapshot'.phone = w.phone
        /\ snapshot'.value = snapshot.value
        /\ \A f \in Fields : snapshot'.clock[f] =
              IF f \in w.groups THEN EventOf(c).time ELSE snapshot.clock[f]
    BY <1>6, WriteContactDoes
  <2>2. PICK e \in published' : e = EventOf(c)
    BY <1>1, <1>6, BusyEvent DEF WriteContact
  <2>3. /\ w.groups \subseteq Groups /\ \A g \in w.groups : Carries(e, g)
        /\ "push" \in w.groups => Tokens(w.push) = Tokens(e.sets.push)
        /\ "phone" \in w.groups => w.phone = e.sets.phone
        /\ "push" \notin w.groups => w.push = snapshot.push
        /\ "phone" \notin w.groups => w.phone = snapshot.phone
    BY <1>6, <2>1, <2>2 DEF FieldsInv, ContactRead, WriteContact
  <2>4. ASSUME NEW f \in w.groups PROVE ShowsAnEvent(f)'
    <3>1. Shows(e, f)'
      BY <2>1, <2>3 DEF Shows, Groups, Carries, Tokens
    <3>2. f \in Fields /\ Writes(e, f)
      BY <2>3 DEF Fields, Writes
    <3> QED BY <2>1, <2>2, <3>1, <3>2 DEF ShowsAnEvent, Writes, Carries
  <2>5. ASSUME NEW f \in Fields \ w.groups PROVE ShowsAnEvent(f)'
    <3>1. Display(f)' = Display(f)
      <4>1. CASE f = "push" \/ f = "phone"
        BY <2>1, <2>3, <2>5, <4>1 DEF Display, Tokens
      <4>2. CASE f \in SimpleFields
        <5>1. f # "push" /\ f # "phone"
          BY <4>2 DEF SimpleFields
        <5> QED BY <2>1, <5>1 DEF Display
      <4> QED BY <4>1, <4>2 DEF Fields, Groups
    <3> QED BY <1>1, <2>1, <3>1, ShowsStays
  <2> QED BY <2>4, <2>5
<1>7. ASSUME NEW c \in Consumers, WriteQual(c), ~UNCHANGED snapshot
      PROVE  \A f \in Fields : ShowsAnEvent(f)'
  BY <1>2, <1>7, WriteQualDoes
<1>8. ASSUME NEW w \in Rejections, WriteInvalid(w), ~UNCHANGED snapshot
      PROVE  \A f \in Fields : ShowsAnEvent(f)'
  BY <1>2, <1>8, WriteInvalidDoes DEF FieldsInv, ListRead
<1> QED BY <1>3, <1>4, <1>5, <1>6, <1>7, <1>8
        DEF Next, vars, snapshotVars, SnapshotNext, ConsumerStep, Receive, RecordFails, ReadContact,
            CheckDedup, ReadQual, PutDedup, Reject, ReadTarget, Admit

-----------------------------------------------------------------------------
(* Where a record that goes on is after its step.                          *)

ReadOfContact(c) ==
    LET e == EventOf(c)
        apply == GroupsToApply(e)
    IN  [version |-> snapshot.version, groups |-> apply,
         push |-> IF "push" \in apply THEN KeepInvalidated(snapshot.push, e.sets.push)
                  ELSE snapshot.push,
         phone |-> IF "phone" \in apply THEN e.sets.phone ELSE snapshot.phone]

ReadOfQual ==
    [existed |-> snapshot.exists, quals |-> snapshot.quals, qualClock |-> snapshot.qualClock,
     floor |-> Floor, updatedAt |-> snapshot.qualsUpdatedAt]

LEMMA GoesOn ==
  ASSUME Typed, NEW c \in Consumers, ConsumerStep(c), Busy(c)'
  PROVE  /\ Busy(c) /\ record'[c].event = record[c].event
         /\ WriteField(c) => record'[c].pc = "fields"
         /\ ~WriteField(c) => record'[c].left = record[c].left
         /\ ReadContact(c) => /\ record'[c].pc = "writeContact" /\ GroupsToApply(EventOf(c)) # {}
                              /\ record'[c].write = ReadOfContact(c)
         /\ WriteContact(c) => record'[c].pc = "fields"
         /\ CheckDedup(c) => record'[c].pc = "readQual"
         /\ ReadQual(c) => record'[c].pc = "writeQual" /\ record'[c].write = ReadOfQual
         /\ WriteQual(c) => record'[c].pc \in {"putDedup", "readQual"}
         /\ ~PutDedup(c) /\ ~ApplyAvailability(c)
<1>1. Busy(c) /\ ~Handled(c) /\ ~Failed(c)
  BY Ended DEF ConsumerStep, WriteField, ReadContact, WriteContact, CheckDedup, ReadQual, WriteQual, PutDedup,
         ApplyAvailability
<1>2. c \in DOMAIN record /\ DOMAIN record[c] = RecordParts
  BY <1>1, BusyEvent DEF Typed
<1>3. ~PutDedup(c) /\ ~ApplyAvailability(c)
  BY <1>1 DEF PutDedup, ApplyAvailability
<1>4. ASSUME WriteField(c)
      PROVE  /\ record'[c].event = record[c].event /\ record'[c].pc = "fields"
             /\ record[c].pc = "fields"
  <2>1. PICK f \in record[c].left : record' = [record EXCEPT ![c].left = record[c].left \ {f}]
    BY <1>1, <1>4 DEF WriteField, NextCall
  <2> QED BY <1>2, <1>4, <2>1 DEF WriteField, RecordParts
<1>5. ASSUME NEW pc, NEW write,
             \/ record' = [record EXCEPT ![c].pc = pc, ![c].write = write]
             \/ record' = [record EXCEPT ![c].tries = @ + 1, ![c].write = write, ![c].pc = pc]
      PROVE  /\ record'[c].event = record[c].event /\ record'[c].left = record[c].left
             /\ record'[c].pc = pc /\ record'[c].write = write
  <2>1. CASE record' = [record EXCEPT ![c].pc = pc, ![c].write = write]
    BY <1>2, <2>1 DEF RecordParts
  <2>2. CASE record' = [record EXCEPT ![c].tries = @ + 1, ![c].write = write, ![c].pc = pc]
    BY <1>2, <2>2 DEF RecordParts
  <2> QED BY <1>5, <2>1, <2>2
<1>6. ASSUME ReadContact(c)
      PROVE  /\ record'[c].event = record[c].event /\ record'[c].left = record[c].left
             /\ record'[c].pc = "writeContact" /\ record'[c].write = ReadOfContact(c)
             /\ record[c].pc = "fields" /\ GroupsToApply(EventOf(c)) # {}
             /\ ~WriteField(c)
  <2>1. /\ GroupsToApply(EventOf(c)) # {}
        /\ record' = [record EXCEPT ![c].pc = "writeContact", ![c].write = ReadOfContact(c)]
    BY <1>1, <1>6 DEF ReadContact, ReadOfContact
  <2> HIDE DEF ReadOfContact
  <2> QED BY <1>5, <1>6, <2>1 DEF ReadContact, WriteField
<1>7. ASSUME WriteContact(c)
      PROVE  /\ record'[c].event = record[c].event /\ record'[c].left = record[c].left
             /\ record'[c].pc = "fields" /\ record[c].pc = "writeContact"
  <2>1. record' = [record EXCEPT ![c].tries = @ + 1, ![c].write = <<>>, ![c].pc = "fields"]
    BY <1>1, <1>7 DEF WriteContact, Again
  <2> QED BY <1>5, <1>7, <2>1 DEF WriteContact
<1>8. ASSUME CheckDedup(c)
      PROVE  /\ record'[c].event = record[c].event /\ record'[c].left = record[c].left
             /\ record'[c].pc = "readQual" /\ record[c].pc = "dedup"
  <2>1. record' = [record EXCEPT ![c].pc = "readQual"]
    BY <1>1, <1>8 DEF CheckDedup
  <2> QED BY <1>2, <1>8, <2>1 DEF CheckDedup, RecordParts
<1>9. ASSUME ReadQual(c)
      PROVE  /\ record'[c].event = record[c].event /\ record'[c].left = record[c].left
             /\ record'[c].pc = "writeQual" /\ record'[c].write = ReadOfQual
             /\ record[c].pc = "readQual"
  <2>1. record' = [record EXCEPT ![c].pc = "writeQual", ![c].write = ReadOfQual]
    BY <1>1, <1>9 DEF ReadQual, ReadOfQual
  <2> QED BY <1>5, <1>9, <2>1 DEF ReadQual
<1>10. ASSUME WriteQual(c)
       PROVE  /\ record'[c].event = record[c].event /\ record'[c].left = record[c].left
              /\ record'[c].pc \in {"putDedup", "readQual"} /\ record[c].pc = "writeQual"
  <2>1. CASE record' = [record EXCEPT ![c].pc = "putDedup", ![c].write = <<>>]
    BY <1>5, <1>10, <2>1 DEF WriteQual
  <2>2. CASE record' = [record EXCEPT ![c].tries = @ + 1, ![c].write = <<>>, ![c].pc = "readQual"]
    BY <1>5, <1>10, <2>2 DEF WriteQual
  <2> QED BY <1>1, <1>10, <2>1, <2>2 DEF WriteQual, Again
<1> QED BY <1>1, <1>3, <1>4, <1>6, <1>7, <1>8, <1>9, <1>10
        DEF ConsumerStep, WriteField, ReadContact, WriteContact, CheckDedup, ReadQual, WriteQual

\* Invalidating entries of a sent list changes neither its tokens nor their registrations.
LEMMA KeptTokens ==
  ASSUME NEW existing, NEW incoming, IsPushList(incoming)
  PROVE  Tokens(KeepInvalidated(existing, incoming)) = Tokens(incoming)
<1> DEFINE After(x) ==
      [x EXCEPT !.valid = @ /\ ~\E old \in existing :
                   ~old.valid /\ old.token = x.token /\ x.reg <= old.reg]
<1>1. ASSUME NEW x \in incoming PROVE After(x).token = x.token /\ After(x).reg = x.reg
  <2>1. x = [token |-> x.token, reg |-> x.reg, valid |-> TRUE]
    BY DEF IsPushList
  <2> QED BY <2>1
<1>2. KeepInvalidated(existing, incoming) = {After(x) : x \in incoming}
  BY DEF KeepInvalidated
<1> HIDE DEF After
<1>3. ASSUME NEW t \in Tokens({After(x) : x \in incoming}) PROVE t \in Tokens(incoming)
  BY <1>1 DEF Tokens
<1>4. ASSUME NEW t \in Tokens(incoming) PROVE t \in Tokens({After(x) : x \in incoming})
  <2>1. PICK x \in incoming : t = <<x.token, x.reg>>
    BY DEF Tokens
  <2> QED BY <1>1, <2>1 DEF Tokens
<1> QED BY <1>2, <1>3, <1>4

LEMMA FieldsPassedKept ==
  ASSUME Typed, FieldsInv, [Next]_vars
  PROVE  \A c \in Consumers : FieldsPassed(c)'
<1>1. ASSUME NEW c \in Consumers, record'[c] = record[c] PROVE FieldsPassed(c)'
  <2> SUFFICES ASSUME record[c].pc \in MemberCalls, NEW f \in SimpleFields \ record[c].left,
                      NEW e, e = EventOf(c), Carries(e, f)
               PROVE  Reflected(e, f)'
    BY <1>1 DEF FieldsPassed, EventOf, Carries, Reflected
  <2>1. Reflected(e, f) /\ f \in Fields
    BY DEF FieldsInv, FieldsPassed, Fields
  <2>2. IsEvent(e)
    BY BusyEvent DEF Busy, MemberCalls
  <2> QED BY <2>1, <2>2, ReflectedStays
<1>2. ASSUME NEW c \in Consumers, ConsumerStep(c), Busy(c)' PROVE FieldsPassed(c)'
  <2> SUFFICES ASSUME record'[c].pc \in MemberCalls, NEW f \in SimpleFields \ record'[c].left,
                      NEW e, e = EventOf(c), Carries(e, f)
               PROVE  Reflected(e, f)'
    BY <1>2, GoesOn DEF FieldsPassed, EventOf, Carries, Reflected
  <2>1. IsEvent(e) /\ f \in Fields /\ Busy(c)
    BY <1>2, GoesOn, BusyEvent DEF Fields
  <2>2. CASE f \notin record[c].left /\ record[c].pc \in MemberCalls
    BY <2>1, <2>2, ReflectedStays DEF FieldsInv, FieldsPassed
  <2>3. CASE WriteField(c) /\ f \in record[c].left
    <3>1. PICK g \in record[c].left :
            /\ NextCall(c, g)
            /\ \/ UNCHANGED snapshot /\ e.time <= snapshot.clock[g]
               \/ snapshot'.clock[g] = e.time
      BY <2>3, WriteFieldDoes
    <3>2. record' = [record EXCEPT ![c].left = record[c].left \ {g}]
      BY <1>2, <3>1, Ended DEF NextCall
    <3>3. c \in DOMAIN record /\ DOMAIN record[c] = RecordParts
      BY <2>1, BusyEvent DEF Typed
    <3>4. record'[c].left = record[c].left \ {g}
      BY <3>2, <3>3 DEF RecordParts
    <3>5. f = g
      BY <2>3, <3>4
    <3>6. snapshot'.clock[f] \in Nat /\ e.time \in Nat
      BY <2>1, SnapshotKept DEF IsSnapshot, Clocks, IsEvent
    <3> QED BY <3>1, <3>5, <3>6 DEF Reflected
  <2>4. WriteField(c) \/ f \notin record[c].left
    BY <1>2, GoesOn
  <2>5. record[c].pc \in MemberCalls
    BY <1>2, GoesOn DEF ConsumerStep, MemberCalls, WriteField, ReadContact, WriteContact
  <2> QED BY <2>2, <2>3, <2>4, <2>5
<1>3. ASSUME NEW c \in Consumers, NEW e \in published, Receive(c, e) PROVE FieldsPassed(c)'
  <2>1. /\ record'[c].event = e /\ record'[c].pc = FirstCall(e)
        /\ record'[c].left = IF e.kind = "member" THEN SimpleFields \cap DOMAIN e.sets ELSE {}
    BY <1>3 DEF Receive, Typed
  <2> QED BY <2>1 DEF FieldsPassed, EventOf, Carries
<1>4. ASSUME NEW c \in Consumers, ~Busy(c)' PROVE FieldsPassed(c)'
  BY <1>4 DEF Busy, FieldsPassed, MemberCalls
<1>5. ASSUME NEW c \in Consumers,
             ConsumerStep(c) \/ RecordFails(c) \/ \E e \in published : Receive(c, e)
      PROVE  \A d \in Consumers : FieldsPassed(d)'
  <2>1. FieldsPassed(c)'
    BY <1>2, <1>3, <1>4, <1>5, Ended DEF RecordFails
  <2>2. \A d \in Consumers \ {c} : FieldsPassed(d)'
    BY <1>1, <1>5, OneRecord
  <2> QED BY <2>1, <2>2
<1>6. CASE UNCHANGED record
  BY <1>1, <1>6
<1> QED BY <1>5, <1>6, OneRejection DEF Next, vars, snapshotVars, SnapshotNext

LEMMA ContactReadKept ==
  ASSUME Typed, FieldsInv, [Next]_vars
  PROVE  \A c \in Consumers : ContactRead(c)'
<1>1. /\ snapshot.version \in Nat /\ snapshot'.version \in Nat
      /\ snapshot.clock \in [Fields -> Nat] /\ Groups \subseteq Fields
  BY SnapshotKept DEF Typed, IsSnapshot, Clocks, Fields
<1>2. ASSUME NEW c \in Consumers, record'[c] = record[c] PROVE ContactRead(c)'
  <2> SUFFICES ASSUME record[c].pc = "writeContact" PROVE ContactRead(c)'
    BY <1>2 DEF ContactRead
  <2>1. PICK e, w : e = EventOf(c) /\ w = record[c].write
    OBVIOUS
  <2>2. e = EventOf(c)' /\ w = record'[c].write
    BY <1>2, <2>1 DEF EventOf
  <2>3. IsEvent(e)
    BY <2>1, BusyEvent DEF Busy
  <2>4. /\ record[c].left = {} /\ w.version \in Nat /\ w.version <= snapshot.version
        /\ w.groups \subseteq {g \in Groups : Carries(e, g)}
        /\ \A g \in Groups \ w.groups : Carries(e, g) => Reflected(e, g)
        /\ "push" \in w.groups => Tokens(w.push) = Tokens(e.sets.push)
        /\ "phone" \in w.groups => w.phone = e.sets.phone
        /\ w.version = snapshot.version =>
              /\ \A g \in w.groups : snapshot.clock[g] < e.time
              /\ "push" \notin w.groups => w.push = snapshot.push
              /\ "phone" \notin w.groups => w.phone = snapshot.phone
    BY <2>1 DEF FieldsInv, ContactRead
  <2>5. \A g \in Groups \ w.groups : Carries(e, g) => Reflected(e, g)'
    BY <1>1, <2>3, <2>4, ReflectedStays
  <2>6. w.version <= snapshot'.version
    BY <1>1, <2>4, ClocksGrow
  <2>7. w.version = snapshot'.version =>
           /\ \A g \in w.groups : snapshot'.clock[g] < e.time
           /\ "push" \notin w.groups => w.push = snapshot'.push
           /\ "phone" \notin w.groups => w.phone = snapshot'.phone
    <3> SUFFICES ASSUME w.version = snapshot'.version
                 PROVE  /\ \A g \in w.groups : snapshot'.clock[g] < e.time
                        /\ "push" \notin w.groups => w.push = snapshot'.push
                        /\ "phone" \notin w.groups => w.phone = snapshot'.phone
      OBVIOUS
    <3>1. snapshot'.version = snapshot.version
      BY <1>1, <2>4, ClocksGrow
    <3>2. /\ snapshot'.push = snapshot.push /\ snapshot'.phone = snapshot.phone
          /\ \A g \in Groups : snapshot'.clock[g] = snapshot.clock[g]
      BY <3>1, ClocksGrow
    <3> QED BY <2>4, <3>1, <3>2
  <2> QED BY <1>2, <2>2, <2>4, <2>5, <2>6, <2>7 DEF ContactRead, Carries, Tokens
<1>3. ASSUME NEW c \in Consumers, ReadContact(c), Busy(c)' PROVE ContactRead(c)'
  <2>1. PICK e, w : e = EventOf(c) /\ w = ReadOfContact(c)
    OBVIOUS
  <2>2. /\ e = EventOf(c)' /\ w = record'[c].write /\ record'[c].left = {} /\ Busy(c)
        /\ Carries(e, "push") => IsPushList(e.sets.push)
    <3>1. ConsumerStep(c) /\ ~WriteField(c)
      BY <1>3 DEF ConsumerStep, ReadContact, WriteField
    <3>2. record'[c].event = record[c].event /\ record'[c].left = {} /\ w = record'[c].write
          /\ Busy(c)
      BY <1>3, <2>1, <3>1, GoesOn DEF ReadContact
    <3>3. IsEvent(e)
      BY <2>1, <3>2, BusyEvent
    <3> QED BY <2>1, <3>2, <3>3 DEF EventOf, IsEvent, Carries
  <2>3. UNCHANGED snapshot
    BY <1>3 DEF ReadContact
  <2>4. /\ w.version = snapshot.version /\ w.groups = GroupsToApply(e)
        /\ w.push = IF "push" \in GroupsToApply(e) THEN KeepInvalidated(snapshot.push, e.sets.push)
                    ELSE snapshot.push
        /\ w.phone = IF "phone" \in GroupsToApply(e) THEN e.sets.phone ELSE snapshot.phone
    BY <2>1 DEF ReadOfContact
  <2>5. "push" \in w.groups => Tokens(w.push) = Tokens(e.sets.push)
    BY <2>2, <2>4, KeptTokens DEF GroupsToApply
  <2>6. e.time \in Nat
    BY <2>1, <2>2, BusyEvent
  <2>7. /\ w.groups \subseteq {g \in Groups : Carries(e, g)}
        /\ \A g \in w.groups : snapshot.clock[g] < e.time
        /\ \A g \in Groups \ w.groups : Carries(e, g) => Reflected(e, g)
    BY <1>1, <2>4, <2>6 DEF GroupsToApply, Reflected
  <2> QED BY <1>1, <2>2, <2>3, <2>4, <2>5, <2>7 DEF ContactRead, Carries, Tokens, Reflected
<1>4. ASSUME NEW c \in Consumers, record'[c].pc # "writeContact" PROVE ContactRead(c)'
  BY <1>4 DEF ContactRead
<1>5. ASSUME NEW c \in Consumers, ConsumerStep(c), ~ReadContact(c) PROVE record'[c].pc # "writeContact"
  <2>1. CASE ~Busy(c)'
    BY <2>1 DEF Busy
  <2>2. CASE Busy(c)'
    BY <1>5, <2>2, GoesOn DEF ConsumerStep
  <2> QED BY <2>1, <2>2
<1>6. ASSUME NEW c \in Consumers, NEW e \in published, Receive(c, e)
      PROVE  record'[c].pc # "writeContact"
  <2>1. record'[c].pc = FirstCall(e) /\ e.kind \in {"member", "qual", "availability"}
    BY <1>6 DEF Receive, Typed, IsEvent
  <2> QED BY <2>1 DEF FirstCall
<1>7. ASSUME NEW c \in Consumers,
             ConsumerStep(c) \/ RecordFails(c) \/ \E e \in published : Receive(c, e)
      PROVE  \A d \in Consumers : ContactRead(d)'
  <2>1. ContactRead(c)'
    <3>1. CASE ReadContact(c) /\ Busy(c)'
      BY <1>3, <3>1
    <3>2. CASE ~(ReadContact(c) /\ Busy(c)')
      BY <1>4, <1>5, <1>6, <1>7, <3>2, Ended DEF RecordFails, Busy
    <3> QED BY <3>1, <3>2
  <2>2. \A d \in Consumers \ {c} : ContactRead(d)'
    BY <1>2, <1>7, OneRecord
  <2> QED BY <2>1, <2>2
<1>8. CASE UNCHANGED record
  BY <1>2, <1>8
<1> QED BY <1>7, <1>8, OneRejection DEF Next, vars, snapshotVars, SnapshotNext

\* The list a rejection has just read, its token marked.
Marked(r) ==
    {[entry EXCEPT !.valid = @ /\ entry.token # r.token] : entry \in snapshot.push}

\* A rejection that goes on has the list it read, with its token marked, or it has kept it.
LEMMA RejectionGoesOn ==
  ASSUME Typed, NEW w \in Rejections,
         Reject(w) \/ ReadTarget(w) \/ Admit(w) \/ WriteInvalid(w),
         rejection'[w].pc \in {"admit", "write"}
  PROVE  \/ /\ ReadTarget(w) /\ rejection[w].pc = "read"
            /\ rejection'[w].token = rejection[w].token
            /\ rejection'[w].since = rejection[w].since
            /\ rejection'[w].version = snapshot.version
            /\ rejection'[w].push = Marked(rejection[w])
            /\ \A entry \in snapshot.push :
                  entry.token = rejection[w].token => ~Reregistered(entry, rejection[w].since)
         \/ /\ Admit(w) /\ rejection[w].pc = "admit"
            /\ rejection'[w].token = rejection[w].token
            /\ rejection'[w].since = rejection[w].since
            /\ rejection'[w].version = rejection[w].version
            /\ rejection'[w].push = rejection[w].push
<1>1. w \in DOMAIN rejection
  BY DEF Typed
<1>2. ~Reject(w)
  BY <1>1 DEF Reject
<1>3. /\ DOMAIN rejection[w] = RejectionParts
      /\ w \in Rejections
  BY <1>2 DEF Typed, ReadTarget, Admit, WriteInvalid
<1>4. ~RejectionEnds(w)
  BY <1>1, <1>3 DEF RejectionEnds, RejectionParts
<1>5. CASE ReadTarget(w)
  <2>1. rejection' = [rejection EXCEPT
           ![w].pc = IF rejection[w].admitted THEN "write" ELSE "admit",
           ![w].version = snapshot.version, ![w].push = Marked(rejection[w])]
    BY <1>4, <1>5 DEF ReadTarget, Marked
  <2>2. \A entry \in snapshot.push :
           entry.token = rejection[w].token => ~Reregistered(entry, rejection[w].since)
    BY <1>4, <1>5 DEF ReadTarget
  <2> HIDE DEF Marked
  <2>3. /\ rejection'[w].token = rejection[w].token /\ rejection'[w].since = rejection[w].since
        /\ rejection'[w].version = snapshot.version
        /\ rejection'[w].push = Marked(rejection[w])
    BY <1>1, <1>3, <2>1 DEF RejectionParts
  <2> QED BY <1>5, <2>2, <2>3 DEF ReadTarget
<1>6. CASE Admit(w)
  BY <1>1, <1>3, <1>4, <1>6 DEF Admit, RejectionParts
<1>7. ~WriteInvalid(w)
  BY <1>1, <1>3, <1>4 DEF WriteInvalid, RejectionParts
<1> QED BY <1>2, <1>5, <1>6, <1>7

\* Marking entries changes neither their tokens nor their registrations.
LEMMA MarkedTokens ==
  ASSUME NEW r, \A x \in snapshot.push : DOMAIN x = {"token", "reg", "valid"}
  PROVE  Tokens(Marked(r)) = Tokens(snapshot.push)
<1> DEFINE After(x) == [x EXCEPT !.valid = @ /\ x.token # r.token]
<1>1. \A x \in snapshot.push : After(x).token = x.token /\ After(x).reg = x.reg
  OBVIOUS
<1>2. Marked(r) = {After(x) : x \in snapshot.push}
  BY DEF Marked
<1> HIDE DEF After
<1>3. ASSUME NEW t \in Tokens({After(x) : x \in snapshot.push}) PROVE t \in Tokens(snapshot.push)
  BY <1>1 DEF Tokens
<1>4. ASSUME NEW t \in Tokens(snapshot.push) PROVE t \in Tokens({After(x) : x \in snapshot.push})
  <2>1. PICK x \in snapshot.push : t = <<x.token, x.reg>>
    BY DEF Tokens
  <2> QED BY <1>1, <2>1 DEF Tokens
<1> QED BY <1>2, <1>3, <1>4

LEMMA ListReadKept ==
  ASSUME Typed, FieldsInv, IsList(snapshot.push), [Next]_vars
  PROVE  \A w \in Rejections : ListRead(w)'
<1>1. snapshot.version \in Nat /\ snapshot'.version \in Nat
  BY SnapshotKept DEF Typed, IsSnapshot, Clocks
<1>2. ASSUME NEW w \in Rejections,
             rejection'[w].pc \in {"admit", "write"} =>
                /\ rejection[w].pc \in {"admit", "write"}
                /\ rejection'[w].push = rejection[w].push
                /\ rejection'[w].version = rejection[w].version
      PROVE  ListRead(w)'
  <2> SUFFICES ASSUME rejection'[w].pc \in {"admit", "write"} PROVE ListRead(w)'
    BY DEF ListRead
  <2>1. PICK push, version : push = rejection[w].push /\ version = rejection[w].version
    OBVIOUS
  <2>2. /\ push = rejection'[w].push /\ version = rejection'[w].version
        /\ version \in Nat /\ version <= snapshot.version
        /\ version = snapshot.version => Tokens(push) = Tokens(snapshot.push)
    BY <1>2, <2>1 DEF FieldsInv, ListRead
  <2>3. version <= snapshot'.version
    BY <1>1, <2>2, ClocksGrow
  <2>4. version = snapshot'.version => Tokens(push) = Tokens(snapshot'.push)
    BY <1>1, <2>2, ClocksGrow
  <2> QED BY <2>2, <2>3, <2>4 DEF ListRead, Tokens
<1>3. CASE UNCHANGED rejection
  BY <1>2, <1>3
<1>4. ASSUME NEW w \in Rejections,
             Reject(w) \/ ReadTarget(w) \/ Admit(w) \/ WriteInvalid(w)
      PROVE  \A v \in Rejections : ListRead(v)'
  <2>1. ListRead(w)'
    <3>1. CASE rejection'[w].pc \in {"admit", "write"} /\ ReadTarget(w)
      <4>1. /\ rejection'[w].version = snapshot.version
            /\ rejection'[w].push = Marked(rejection[w])
        BY <3>1, RejectionGoesOn DEF ReadTarget
      <4>2. UNCHANGED snapshot
        BY <3>1 DEF ReadTarget
      <4>3. PICK push : push = Marked(rejection[w])
        OBVIOUS
      <4>4. Tokens(push) = Tokens(snapshot.push)
        BY <4>3, MarkedTokens DEF IsList
      <4> QED BY <1>1, <4>1, <4>2, <4>3, <4>4 DEF ListRead, Tokens
    <3>2. CASE ~(rejection'[w].pc \in {"admit", "write"} /\ ReadTarget(w))
      BY <1>2, <1>4, <3>2, RejectionGoesOn
    <3> QED BY <3>1, <3>2
  <2>2. \A v \in Rejections \ {w} : rejection'[v] = rejection[v]
    BY <1>4, OneRejection
  <2> QED BY <1>2, <2>1, <2>2
<1>5. ASSUME NEW c \in Consumers,
             ConsumerStep(c) \/ RecordFails(c) \/ \E e \in published : Receive(c, e)
      PROVE  UNCHANGED rejection
  BY <1>5, OneRecord
<1> QED BY <1>3, <1>4, <1>5 DEF Next, vars, snapshotVars, SnapshotNext

LEMMA AvailabilityOnceKept ==
  ASSUME Typed, IsList(snapshot.push), FieldsInv, [Next]_vars
  PROVE  AvailabilityOnce'
<1> SUFFICES ASSUME NEW e \in dedup', e.kind = "availability" PROVE Reflected(e, "availability")'
  BY DEF AvailabilityOnce
<1>1. "availability" \in Fields /\ IsEvent(e)
  BY TypedKept DEF Fields, SimpleFields, Typed
<1>2. CASE e \in dedup
  <2>1. Reflected(e, "availability")
    BY <1>2 DEF FieldsInv, AvailabilityOnce
  <2> QED BY <1>1, <2>1, ReflectedStays
<1>3. CASE e \notin dedup
  <2>1. PICK c \in Consumers : /\ e = EventOf(c)
                               /\ ApplyAvailability(c) \/ PutDedup(c)
    BY <1>3 DEF Next, vars, snapshotVars, SnapshotNext, ConsumerStep, Receive, RecordFails, WriteField,
         ReadContact, WriteContact, CheckDedup, ReadQual, WriteQual, PutDedup, ApplyAvailability,
         Reject, ReadTarget, Admit, WriteInvalid
  <2>2. ~PutDedup(c)
    BY <2>1, BusyEvent DEF PutDedup, FitsItsEvent, MemberCalls, QualCalls
  <2>3. snapshot'.clock["availability"] = e.time
    BY <1>3, <2>1, <2>2, ApplyAvailabilityDoes
  <2> QED BY <1>1, <2>3 DEF Reflected, IsEvent
<1> QED BY <1>2, <1>3

\* What the fields have reflected, show and are about to be written is kept by every step.
LEMMA FieldsInvKept ==
  ASSUME Typed, FieldsInv, IsList(snapshot.push), [Next]_vars
  PROVE  FieldsInv'
BY HandledReflectedKept, ShowsKept, AvailabilityOnceKept, FieldsPassedKept, ContactReadKept,
   ListReadKept
DEF FieldsInv

LEMMA FieldsInit ==
  ASSUME Init
  PROVE  FieldsInv
<1>1. /\ \A f \in Fields : snapshot.clock[f] = Never
      /\ handled = {} /\ dedup = {}
      /\ \A c \in Consumers : record[c].pc = "idle"
      /\ \A w \in Rejections : rejection[w].pc = "idle"
  BY DEF Init, SnapshotInit, NewSnapshot, IdleRecord, IdleRejection
<1> QED BY <1>1 DEF FieldsInv, HandledReflected, ShowsAnEvent, AvailabilityOnce, FieldsPassed,
                    ContactRead, ListRead, MemberCalls

-----------------------------------------------------------------------------
(* The qualifications show the newest.                                     *)

\* The floor of a member's qualifications never changes, and no clock of theirs goes back.
LEMMA QualClocksGrow ==
  ASSUME Typed, QualsInv, [Next]_vars
  PROVE  /\ Floor' = Floor
         /\ \A q \in Quals : /\ snapshot.qualClock[q] \in Nat /\ snapshot'.qualClock[q] \in Nat
                             /\ snapshot.qualClock[q] <= snapshot'.qualClock[q]
<1>1. snapshot.qualClock \in [Quals -> Nat] /\ snapshot'.qualClock \in [Quals -> Nat]
  BY SnapshotKept DEF Typed, IsSnapshot, Clocks
<1>2. ASSUME UNCHANGED <<snapshot.qualClock, Floor>>
      PROVE  /\ Floor' = Floor
             /\ \A q \in Quals : snapshot.qualClock[q] <= snapshot'.qualClock[q]
  BY <1>1, <1>2
<1>3. CASE UNCHANGED snapshot
  BY <1>1, <1>3 DEF Floor
<1>4. ASSUME NEW c \in Consumers, WriteQual(c), ~UNCHANGED snapshot
      PROVE  /\ Floor' = Floor
             /\ \A q \in Quals : snapshot.qualClock[q] <= snapshot'.qualClock[q]
  <2>1. PICK e, w : e = EventOf(c) /\ w = record[c].write
    OBVIOUS
  <2>2. /\ w.qualClock = snapshot.qualClock /\ e.qual \in Quals
        /\ snapshot'.qualClock[e.qual] = e.time
        /\ \A q \in Quals \ {e.qual} : snapshot'.qualClock[q] = snapshot.qualClock[q]
        /\ Floor' = w.floor
    BY <1>4, <2>1, WriteQualDoes
  <2>3. w.floor = Floor /\ w.qualClock[e.qual] <= e.time
    BY <1>4, <2>1 DEF QualsInv, QualRead, WriteQual
  <2> QED BY <1>1, <2>2, <2>3
<1>5. ASSUME NEW c \in Consumers, WriteField(c), ~UNCHANGED snapshot
      PROVE  UNCHANGED <<snapshot.qualClock, Floor>>
  BY <1>5, WriteFieldDoes DEF OnlyFields
<1>6. ASSUME NEW c \in Consumers, ApplyAvailability(c), ~UNCHANGED snapshot
      PROVE  UNCHANGED <<snapshot.qualClock, Floor>>
  BY <1>6, ApplyAvailabilityDoes DEF OnlyFields
<1>7. ASSUME NEW c \in Consumers, WriteContact(c), ~UNCHANGED snapshot
      PROVE  UNCHANGED <<snapshot.qualClock, Floor>>
  BY <1>7, WriteContactDoes
<1>8. ASSUME NEW w \in Rejections, WriteInvalid(w), ~UNCHANGED snapshot
      PROVE  UNCHANGED <<snapshot.qualClock, Floor>>
  BY <1>8, WriteInvalidDoes
<1>9. /\ Floor' = Floor
      /\ \A q \in Quals : snapshot.qualClock[q] <= snapshot'.qualClock[q]
  BY <1>2, <1>3, <1>4, <1>5, <1>6, <1>7, <1>8
     DEF Next, vars, snapshotVars, SnapshotNext, ConsumerStep, Receive, RecordFails, ReadContact,
         CheckDedup, ReadQual, PutDedup, Reject, ReadTarget, Admit
<1> QED BY <1>1, <1>9

LEMMA QualReflectedStays ==
  ASSUME Typed, QualsInv, [Next]_vars, NEW e, IsEvent(e), e.kind = "qual", QualReflected(e)
  PROVE  QualReflected(e)'
<1>1. e.time \in Nat /\ e.qual \in Quals
  BY DEF IsEvent
<1> QED BY <1>1, QualClocksGrow DEF QualReflected

\* A change to a qualification is handled only once its clock or the floor is as new.
LEMMA HandledWhenQualReflected ==
  ASSUME Typed, QualsInv, NEW c \in Consumers, ConsumerStep(c),
         NEW e \in handled' \ handled, e = EventOf(c), e.kind = "qual"
  PROVE  QualReflected(e)'
<1>1. Next /\ Busy(c)
  BY DEF Next, SnapshotNext, ConsumerStep, WriteField, ReadContact, WriteContact, CheckDedup, ReadQual,
         WriteQual, PutDedup, ApplyAvailability
<1>2. IsEvent(e) /\ FitsItsEvent(c) /\ e.time \in Nat /\ e.qual \in Quals
  BY <1>1, BusyEvent DEF IsEvent
<1>3. CASE CheckDedup(c)
  <2>1. e \in dedup
    BY <1>3 DEF CheckDedup
  <2> QED BY <1>1, <1>2, <2>1, QualReflectedStays DEF QualsInv, QualsOnce
<1>4. CASE ReadQual(c)
  <2>1. PriorClock(e.qual) > e.time /\ Floor \in Nat /\ snapshot.qualClock[e.qual] \in Nat
    BY <1>2, <1>4 DEF ReadQual, Typed, IsSnapshot, Clocks, Floor, Never
  <2>2. QualReflected(e)
    BY <1>2, <2>1 DEF PriorClock, QualReflected
  <2> QED BY <1>1, <1>2, <2>2, QualReflectedStays
<1>5. CASE PutDedup(c)
  <2>1. QualReflected(e)
    BY <1>5 DEF PutDedup, QualsInv, QualRead, QualReflected
  <2> QED BY <1>1, <1>2, <2>1, QualReflectedStays
<1>6. ~WriteQual(c)
  BY WriteQualDoes DEF Again, Failed
<1>7. ~(WriteField(c) \/ ReadContact(c) \/ WriteContact(c) \/ ApplyAvailability(c))
  BY <1>2 DEF FitsItsEvent, QualCalls, WriteField, ReadContact, WriteContact, ApplyAvailability
<1> QED BY <1>3, <1>4, <1>5, <1>6, <1>7 DEF ConsumerStep

\* The two parts of QualsShowTheNewest are kept.
LEMMA QualsShowKept ==
  ASSUME Typed, QualsInv, [Next]_vars
  PROVE  QualsShowTheNewest'
<1>1. ASSUME NEW e \in handled', e.kind = "qual" PROVE QualReflected(e)'
  <2>1. CASE e \in handled
    <3>1. IsEvent(e) /\ e.qual \in Quals
      BY <1>1, <2>1 DEF Typed, IsEvent
    <3>2. QualReflected(e)
      BY <1>1, <2>1, <3>1 DEF QualsInv, QualsShowTheNewest, QualReflected
    <3> QED BY <1>1, <3>1, <3>2, QualReflectedStays
  <2>2. CASE e \notin handled
    BY <1>1, <2>2, HandledOneByOne, HandledWhenQualReflected
  <2> QED BY <2>1, <2>2
<1>2. ASSUME NEW q \in Quals, snapshot'.qualClock[q] # Never
      PROVE  \E e \in published' : /\ e.kind = "qual" /\ e.qual = q
                                   /\ e.time = snapshot'.qualClock[q]
                                   /\ e.eligible <=> q \in snapshot'.quals
  <2>1. CASE snapshot'.qualClock[q] = snapshot.qualClock[q] /\ (q \in snapshot'.quals <=> q \in snapshot.quals)
    BY <1>2, <2>1, PublishedGrows DEF QualsInv, QualsShowTheNewest
  <2>2. ASSUME NEW c \in Consumers, WriteQual(c), ~UNCHANGED snapshot, q = EventOf(c).qual
        PROVE  \E e \in published' : /\ e.kind = "qual" /\ e.qual = q
                                     /\ e.time = snapshot'.qualClock[q]
                                     /\ e.eligible <=> q \in snapshot'.quals
    <3>1. PICK e \in published' : e = EventOf(c)
      BY <2>2, BusyEvent, PublishedGrows DEF WriteQual
    <3> QED BY <2>2, <3>1, WriteQualDoes
  <2>3. ASSUME NEW c \in Consumers, WriteQual(c), ~UNCHANGED snapshot, q # EventOf(c).qual
        PROVE  snapshot'.qualClock[q] = snapshot.qualClock[q] /\ (q \in snapshot'.quals <=> q \in snapshot.quals)
    BY <2>3, WriteQualDoes
  <2>4. ASSUME NEW c \in Consumers, WriteField(c) \/ ApplyAvailability(c) \/ WriteContact(c)
        PROVE  UNCHANGED <<snapshot.qualClock, snapshot.quals>>
    BY <2>4, WriteFieldDoes, ApplyAvailabilityDoes, WriteContactDoes DEF OnlyFields
  <2>5. ASSUME NEW w \in Rejections, WriteInvalid(w)
        PROVE  UNCHANGED <<snapshot.qualClock, snapshot.quals>>
    BY <2>5, WriteInvalidDoes
  <2>6. CASE UNCHANGED snapshot
    BY <2>1, <2>6
  <2>7. CASE ~UNCHANGED snapshot
    BY <2>1, <2>2, <2>3, <2>4, <2>5, <2>7
       DEF Next, vars, snapshotVars, SnapshotNext, ConsumerStep, Receive, RecordFails, ReadContact,
           CheckDedup, ReadQual, PutDedup, Reject, ReadTarget, Admit
  <2> QED BY <2>6, <2>7
<1> QED BY <1>1, <1>2 DEF QualsShowTheNewest, QualReflected

LEMMA QualReadKept ==
  ASSUME Typed, QualsInv, [Next]_vars
  PROVE  \A c \in Consumers : QualRead(c)'
<1>1. ASSUME NEW c \in Consumers, record'[c] = record[c] PROVE QualRead(c)'
  <2>1. PICK e, w : e = EventOf(c) /\ w = record[c].write
    OBVIOUS
  <2>2. e = EventOf(c)' /\ w = record'[c].write
    BY <1>1, <2>1 DEF EventOf
  <2>3. ASSUME record[c].pc = "writeQual" PROVE w.floor = Floor' /\ w.qualClock[e.qual] <= e.time
    BY <2>1, <2>3, QualClocksGrow DEF QualsInv, QualRead
  <2>4. ASSUME record[c].pc = "putDedup" PROVE e.time <= snapshot'.qualClock[e.qual]
    <3>1. e.time \in Nat /\ e.qual \in Quals
      BY <2>1, <2>4, BusyEvent DEF Busy, IsEvent, FitsItsEvent, MemberCalls
    <3> QED BY <2>1, <2>4, <3>1, QualClocksGrow DEF QualsInv, QualRead
  <2> QED BY <1>1, <2>2, <2>3, <2>4 DEF QualRead
<1>2. ASSUME NEW c \in Consumers, record'[c].pc \notin {"writeQual", "putDedup"} PROVE QualRead(c)'
  BY <1>2 DEF QualRead
<1>3. ASSUME NEW c \in Consumers, ReadQual(c), Busy(c)' PROVE QualRead(c)'
  <2>1. PICK e, w : e = EventOf(c) /\ w = ReadOfQual
    OBVIOUS
  <2>2. /\ record'[c].pc = "writeQual" /\ e = EventOf(c)' /\ w = record'[c].write /\ Busy(c)
        /\ ~Handled(c)
    BY <1>3, <2>1, GoesOn, Ended DEF ConsumerStep, EventOf
  <2>3. e.time \in Nat /\ e.qual \in Quals /\ snapshot.qualClock[e.qual] \in Nat
    BY <1>3, <2>1, <2>2, BusyEvent
    DEF ReadQual, FitsItsEvent, MemberCalls, IsEvent, Typed, IsSnapshot, Clocks
  <2>4. w.floor = Floor /\ w.qualClock = snapshot.qualClock
    BY <2>1 DEF ReadOfQual
  <2>5. ~(PriorClock(e.qual) > e.time) /\ UNCHANGED snapshot
    BY <1>3, <2>1, <2>2 DEF ReadQual
  <2>6. snapshot.qualClock[e.qual] <= e.time
    BY <2>3, <2>5 DEF PriorClock, Never
  <2>7. Floor' = Floor
    BY <2>5 DEF Floor
  <2> QED BY <2>2, <2>4, <2>6, <2>7 DEF QualRead
<1>4. ASSUME NEW c \in Consumers, WriteQual(c), Busy(c)' PROVE QualRead(c)'
  <2>1. PICK e : e = EventOf(c)
    OBVIOUS
  <2>2. /\ record'[c].pc \in {"putDedup", "readQual"} /\ e = EventOf(c)' /\ Busy(c)
        /\ ~Failed(c)
    BY <1>4, <2>1, GoesOn, Ended DEF ConsumerStep, EventOf
  <2>3. CASE record'[c].pc = "putDedup"
    <3>1. ~Again(c, MaxQualTries)
      <4>1. c \in DOMAIN record /\ DOMAIN record[c] = RecordParts /\ record[c].pc = "writeQual"
        BY <1>4, BusyEvent DEF WriteQual, Typed
      <4> QED BY <2>2, <2>3, <4>1 DEF Again, RecordParts
    <3>2. snapshot'.qualClock[e.qual] = e.time /\ e.time \in Nat
      BY <1>4, <2>1, <2>2, <3>1, WriteQualDoes, BusyEvent
    <3> QED BY <2>2, <2>3, <3>2 DEF QualRead
  <2> QED BY <1>2, <2>2, <2>3
<1>5. ASSUME NEW c \in Consumers, ConsumerStep(c), ~ReadQual(c), ~WriteQual(c)
      PROVE  record'[c].pc \notin {"writeQual", "putDedup"}
  <2>1. CASE ~Busy(c)'
    BY <2>1 DEF Busy
  <2>2. CASE Busy(c)'
    BY <1>5, <2>2, GoesOn DEF ConsumerStep
  <2> QED BY <2>1, <2>2
<1>6. ASSUME NEW c \in Consumers, NEW e \in published, Receive(c, e)
      PROVE  record'[c].pc \notin {"writeQual", "putDedup"}
  <2>1. record'[c].pc = FirstCall(e) /\ e.kind \in {"member", "qual", "availability"}
    BY <1>6 DEF Receive, Typed, IsEvent
  <2> QED BY <2>1 DEF FirstCall
<1>7. ASSUME NEW c \in Consumers,
             ConsumerStep(c) \/ RecordFails(c) \/ \E e \in published : Receive(c, e)
      PROVE  \A d \in Consumers : QualRead(d)'
  <2>1. QualRead(c)'
    <3>1. CASE (ReadQual(c) \/ WriteQual(c)) /\ Busy(c)'
      BY <1>3, <1>4, <3>1
    <3>2. CASE ~((ReadQual(c) \/ WriteQual(c)) /\ Busy(c)')
      BY <1>2, <1>5, <1>6, <1>7, <3>2, Ended DEF RecordFails, Busy
    <3> QED BY <3>1, <3>2
  <2>2. \A d \in Consumers \ {c} : QualRead(d)'
    BY <1>1, <1>7, OneRecord
  <2> QED BY <2>1, <2>2
<1>8. CASE UNCHANGED record
  BY <1>1, <1>8
<1> QED BY <1>7, <1>8, OneRejection DEF Next, vars, snapshotVars, SnapshotNext

LEMMA QualsOnceKept ==
  ASSUME Typed, IsList(snapshot.push), QualsInv, [Next]_vars
  PROVE  QualsOnce'
<1> SUFFICES ASSUME NEW e \in dedup', e.kind = "qual" PROVE QualReflected(e)'
  BY DEF QualsOnce
<1>1. IsEvent(e)
  BY TypedKept DEF Typed
<1>2. CASE e \in dedup
  BY <1>1, <1>2, QualReflectedStays DEF QualsInv, QualsOnce
<1>3. CASE e \notin dedup
  <2>1. PICK c \in Consumers : e = EventOf(c) /\ (ApplyAvailability(c) \/ PutDedup(c))
    BY <1>3 DEF Next, vars, snapshotVars, SnapshotNext, ConsumerStep, Receive, RecordFails, WriteField,
         ReadContact, WriteContact, CheckDedup, ReadQual, WriteQual, PutDedup, ApplyAvailability,
         Reject, ReadTarget, Admit, WriteInvalid
  <2>2. ~ApplyAvailability(c)
    BY <2>1, BusyEvent DEF ApplyAvailability, FitsItsEvent, MemberCalls, QualCalls
  <2>3. QualReflected(e)
    BY <2>1, <2>2 DEF PutDedup, QualsInv, QualRead, QualReflected
  <2> QED BY <1>1, <2>3, QualReflectedStays
<1> QED BY <1>2, <1>3

LEMMA QualsInvKept ==
  ASSUME Typed, QualsInv, IsList(snapshot.push), [Next]_vars
  PROVE  QualsInv'
BY QualsShowKept, QualsOnceKept, QualReadKept DEF QualsInv

LEMMA QualsInit ==
  ASSUME Init
  PROVE  QualsInv
<1>1. /\ \A q \in Quals : snapshot.qualClock[q] = Never
      /\ handled = {} /\ dedup = {}
      /\ \A c \in Consumers : record[c].pc = "idle"
  BY DEF Init, SnapshotInit, NewSnapshot, IdleRecord
<1> QED BY <1>1 DEF QualsInv, QualsShowTheNewest, QualsOnce, QualRead

-----------------------------------------------------------------------------
(* Dead tokens.                                                            *)

\* A merged list has each token once; an entry of it is dead just if one as new was.
LEMMA KeptList ==
  ASSUME NEW existing, IsList(existing), NEW incoming, IsPushList(incoming)
  PROVE  LET list == KeepInvalidated(existing, incoming)
         IN  /\ IsList(list) /\ StaysDead(existing, list)
             /\ \A x \in list : ~x.valid =>
                   \E old \in existing : ~old.valid /\ old.token = x.token /\ x.reg <= old.reg
<1> DEFINE Dies(x) == \E old \in existing : ~old.valid /\ old.token = x.token /\ x.reg <= old.reg
           After(x) == [x EXCEPT !.valid = @ /\ ~Dies(x)]
           list == KeepInvalidated(existing, incoming)
<1>1. list = {After(x) : x \in incoming}
  BY DEF KeepInvalidated
<1>2. ASSUME NEW x \in incoming
      PROVE  /\ DOMAIN After(x) = {"token", "reg", "valid"}
             /\ After(x).token = x.token /\ After(x).reg = x.reg /\ x.reg \in Nat
             /\ After(x).valid \in BOOLEAN
             /\ After(x).valid <=> ~Dies(x)
  <2>1. x = [token |-> x.token, reg |-> x.reg, valid |-> TRUE] /\ x.reg \in Nat
    BY DEF IsPushList
  <2> HIDE DEF Dies
  <2>2. DOMAIN x = {"token", "reg", "valid"} /\ x.valid = TRUE
    BY <2>1
  <2> QED BY <2>1, <2>2
<1> HIDE DEF After, list
<1>3. IsList(list)
  <2>1. \A x \in list : \E y \in incoming : x = After(y)
    BY <1>1
  <2>2. \A x \in list : /\ DOMAIN x = {"token", "reg", "valid"}
                        /\ x.reg \in Nat /\ x.valid \in BOOLEAN
    BY <1>2, <2>1
  <2>3. ASSUME NEW x \in list, NEW y \in list, x.token = y.token PROVE x = y
    <3>1. PICK a \in incoming : x = After(a)
      BY <2>1
    <3>2. PICK b \in incoming : y = After(b)
      BY <2>1
    <3>3. a.token = b.token
      BY <1>2, <2>3, <3>1, <3>2
    <3>4. a = b
      BY <3>3 DEF IsPushList, OneEntryPerToken
    <3> QED BY <3>1, <3>2, <3>4
  <2> QED BY <2>2, <2>3 DEF IsList, OneEntryPerToken
<1>4. StaysDead(existing, list)
  <2> SUFFICES ASSUME NEW old \in existing, NEW new \in list, ~old.valid, new.token = old.token,
                      new.valid
               PROVE  new.reg > old.reg
    BY DEF StaysDead
  <2>1. PICK x \in incoming : new = After(x)
    BY <1>1
  <2>2. ~(new.reg <= old.reg)
    BY <1>2, <2>1
  <2>3. old.reg \in Nat /\ new.reg \in Nat
    BY <1>2, <2>1 DEF IsList
  <2> QED BY <2>2, <2>3
<1>5. \A x \in list : ~x.valid => Dies(x)
  <2> SUFFICES ASSUME NEW x \in list, ~x.valid PROVE Dies(x)
    OBVIOUS
  <2>1. PICK y \in incoming : x = After(y)
    BY <1>1
  <2>2. Dies(y) /\ x.token = y.token /\ x.reg = y.reg
    BY <1>2, <2>1
  <2> QED BY <2>2
<1> QED BY <1>3, <1>4, <1>5 DEF list

\* So has a list in which a rejection has marked its token, whose entries it kills.
LEMMA MarkedList ==
  ASSUME NEW r, IsList(snapshot.push)
  PROVE  LET list == Marked(r)
         IN  /\ IsList(list) /\ StaysDead(snapshot.push, list)
             /\ \A x \in list :
                   \E old \in snapshot.push :
                      /\ x.token = old.token /\ x.reg = old.reg
                      /\ ~x.valid => x.token = r.token \/ ~old.valid
<1> DEFINE After(x) == [x EXCEPT !.valid = @ /\ x.token # r.token]
           list == Marked(r)
<1>1. list = {After(x) : x \in snapshot.push}
  BY DEF Marked
<1>2. ASSUME NEW x \in snapshot.push
      PROVE  /\ DOMAIN After(x) = {"token", "reg", "valid"}
             /\ After(x).token = x.token /\ After(x).reg = x.reg /\ x.reg \in Nat
             /\ After(x).valid \in BOOLEAN
             /\ After(x).valid <=> x.valid /\ x.token # r.token
  BY DEF IsList
<1> HIDE DEF After, list
<1>3. \A x \in list : \E y \in snapshot.push : x = After(y)
  BY <1>1
<1>4. IsList(list)
  <2>1. \A x \in list : /\ DOMAIN x = {"token", "reg", "valid"}
                        /\ x.reg \in Nat /\ x.valid \in BOOLEAN
    BY <1>2, <1>3
  <2>2. ASSUME NEW x \in list, NEW y \in list, x.token = y.token PROVE x = y
    <3>1. PICK a \in snapshot.push : x = After(a)
      BY <1>3
    <3>2. PICK b \in snapshot.push : y = After(b)
      BY <1>3
    <3>3. a.token = b.token
      BY <1>2, <2>2, <3>1, <3>2
    <3>4. a = b
      BY <3>3 DEF IsList, OneEntryPerToken
    <3> QED BY <3>1, <3>2, <3>4
  <2> QED BY <2>1, <2>2 DEF IsList, OneEntryPerToken
<1>5. StaysDead(snapshot.push, list)
  <2> SUFFICES ASSUME NEW old \in snapshot.push, NEW new \in list, ~old.valid,
                      new.token = old.token
               PROVE  ~new.valid
    BY DEF StaysDead
  <2>1. PICK x \in snapshot.push : new = After(x)
    BY <1>3
  <2>2. x = old
    BY <1>2, <2>1 DEF IsList, OneEntryPerToken
  <2> QED BY <1>2, <2>1, <2>2
<1>6. \A x \in list :
         \E old \in snapshot.push : /\ x.token = old.token /\ x.reg = old.reg
                                    /\ ~x.valid => x.token = r.token \/ ~old.valid
  <2> TAKE x \in list
  <2>1. PICK old \in snapshot.push : x = After(old)
    BY <1>3
  <2> QED BY <1>2, <2>1
<1> QED BY <1>4, <1>5, <1>6 DEF list

\* What has been marked stays on record.
LEMMA KilledGrows ==
  ASSUME [Next]_vars
  PROVE  killed \subseteq killed'
BY DEF Next, vars, snapshotVars, SnapshotNext, ConsumerStep, Receive, RecordFails, WriteField,
       ReadContact, WriteContact, CheckDedup, ReadQual, WriteQual, PutDedup, ApplyAvailability,
       Reject, ReadTarget, Admit, WriteInvalid

\* A list of unique tokens agrees with itself.
LEMMA SameList ==
  ASSUME NEW list, IsList(list)
  PROVE  StaysDead(list, list)
BY DEF StaysDead, IsList, OneEntryPerToken

\* The list changes only by a contact's write or a rejection's, which keep what is dead.
LEMMA ListSteps ==
  ASSUME Typed, FieldsInv, TokensInv, [Next]_vars
  PROVE  /\ IsList(snapshot'.push) /\ StaysDead(snapshot.push, snapshot'.push)
         /\ DisabledOnTheGatewaysWord'
         /\ \A k \in killed' : k.marked \in Nat /\ k.rejected \in Nat /\ k.since \in Nat
<1> DEFINE Rejected(list) ==
             \A x \in list : ~x.valid =>
                \E k \in killed' : RejectedFor(x, k) \/ MarkedAfter(x, k)
           Kills == \A k \in killed' : k.marked \in Nat /\ k.rejected \in Nat /\ k.since \in Nat
           Goal == /\ IsList(snapshot'.push) /\ StaysDead(snapshot.push, snapshot'.push)
                   /\ Rejected(snapshot'.push) /\ Kills
<1> SUFFICES Goal
  BY DEF DisabledOnTheGatewaysWord
<1>1. IsList(snapshot.push) /\ Rejected(snapshot.push)
  BY KilledGrows DEF TokensInv, DisabledOnTheGatewaysWord
<1>2. CASE snapshot'.push = snapshot.push /\ killed' = killed
  BY <1>1, <1>2, SameList DEF TokensInv, DisabledOnTheGatewaysWord
<1>3. ASSUME NEW c \in Consumers, WriteField(c) \/ ApplyAvailability(c) \/ WriteQual(c)
      PROVE  snapshot'.push = snapshot.push /\ killed' = killed
  <2>1. killed' = killed
    BY <1>3 DEF WriteField, ApplyAvailability, WriteQual
  <2> QED BY <1>3, <2>1, WriteFieldDoes, ApplyAvailabilityDoes, WriteQualDoes DEF OnlyFields
<1>4. ASSUME NEW c \in Consumers, WriteContact(c), ~UNCHANGED snapshot PROVE Goal
  <2>1. PICK w : w = record[c].write
    OBVIOUS
  <2>2. snapshot'.push = w.push /\ snapshot.version = w.version
    BY <1>4, <2>1, WriteContactDoes
  <2>3. /\ IsList(w.push) /\ StaysDead(snapshot.push, w.push)
        /\ \A x \in w.push : ~x.valid => Disabled(x)
    BY <1>4, <2>1, <2>2 DEF TokensInv, ContactList, WriteContact
  <2>4. killed' = killed
    BY <1>4 DEF WriteContact
  <2> QED BY <2>2, <2>3, <2>4 DEF TokensInv, DisabledOnTheGatewaysWord, Disabled
<1>5. ASSUME NEW v \in Rejections, WriteInvalid(v), ~UNCHANGED snapshot PROVE Goal
  <2>1. PICK r : r = rejection[v]
    OBVIOUS
  <2>2. /\ snapshot'.push = r.push /\ snapshot.version = r.version /\ r.pc = "write"
        /\ killed' = killed \cup
             {[token |-> r.token, marked |-> entry.reg, rejected |-> r.reg, since |-> r.since] :
                entry \in {x \in r.push : x.token = r.token}}
        /\ r.reg \in Nat /\ r.since \in Nat
    BY <1>5, <2>1, WriteInvalidDoes DEF Typed, WriteInvalid
  <2>3. /\ IsList(r.push) /\ StaysDead(snapshot.push, r.push)
        /\ \A x \in r.push : ~x.valid => x.token = r.token \/ Disabled(x)
        /\ \A x \in r.push : x.token = r.token /\ r.since # 0 => x.reg < r.since
    BY <2>1, <2>2 DEF TokensInv, RejectedList
  <2>4. Rejected(r.push)
    <3> SUFFICES ASSUME NEW x \in r.push, ~x.valid
                 PROVE  \E k \in killed' : RejectedFor(x, k) \/ MarkedAfter(x, k)
      OBVIOUS
    <3>1. CASE x.token = r.token
      <4>1. PICK k \in killed' : k = [token |-> r.token, marked |-> x.reg, rejected |-> r.reg,
                                      since |-> r.since]
        BY <2>2, <3>1
      <4>2. x.reg \in Nat /\ (r.since = 0 \/ x.reg < r.since)
        BY <2>3, <3>1 DEF IsList
      <4> QED BY <3>1, <4>1, <4>2 DEF MarkedAfter
    <3>2. CASE Disabled(x)
      BY <3>2, KilledGrows DEF Disabled
    <3> QED BY <2>3, <3>1, <3>2
  <2>5. Kills
    BY <2>2, <2>3 DEF TokensInv, IsList
  <2> QED BY <2>2, <2>3, <2>4, <2>5
<1>6. ASSUME NEW v \in Rejections, WriteInvalid(v), UNCHANGED snapshot
      PROVE  killed' = killed
  <2>1. snapshot.version \in Nat
    BY DEF Typed, IsSnapshot, Clocks
  <2>2. snapshot'.version # snapshot.version + 1
    BY <1>6, <2>1
  <2> QED BY <1>6, <2>2, WriteInvalidDoes
<1>7. CASE UNCHANGED snapshot
  BY <1>2, <1>6, <1>7
  DEF Next, vars, snapshotVars, SnapshotNext, ConsumerStep, Receive, RecordFails, WriteField,
      ReadContact, WriteContact, CheckDedup, ReadQual, WriteQual, PutDedup, ApplyAvailability,
      Reject, ReadTarget, Admit
<1>8. CASE ~UNCHANGED snapshot
  BY <1>2, <1>3, <1>4, <1>5, <1>8
     DEF Next, vars, snapshotVars, SnapshotNext, ConsumerStep, Receive, RecordFails, ReadContact,
         CheckDedup, ReadQual, PutDedup, Reject, ReadTarget, Admit
<1> QED BY <1>7, <1>8

LEMMA ContactListKept ==
  ASSUME Typed, FieldsInv, TokensInv, [Next]_vars
  PROVE  \A c \in Consumers : ContactList(c)'
<1>1. snapshot.version \in Nat /\ snapshot'.version \in Nat
  BY SnapshotKept DEF Typed, IsSnapshot, Clocks
<1>2. ASSUME NEW c \in Consumers, record'[c] = record[c] PROVE ContactList(c)'
  <2> SUFFICES ASSUME record[c].pc = "writeContact" PROVE ContactList(c)'
    BY <1>2 DEF ContactList
  <2>1. PICK w : w = record[c].write
    OBVIOUS
  <2>2. /\ w = record'[c].write
        /\ IsList(w.push) /\ \A x \in w.push : ~x.valid => Disabled(x)
        /\ w.version = snapshot.version => StaysDead(snapshot.push, w.push)
        /\ w.version \in Nat /\ w.version <= snapshot.version
    BY <1>2, <2>1 DEF TokensInv, ContactList, FieldsInv, ContactRead
  <2>3. w.version = snapshot'.version => StaysDead(snapshot'.push, w.push)
    BY <1>1, <2>2, ClocksGrow
  <2>4. \A x \in w.push : ~x.valid => Disabled(x)'
    BY <2>2, KilledGrows DEF Disabled
  <2> QED BY <2>2, <2>3, <2>4 DEF ContactList, IsList, OneEntryPerToken, StaysDead, Disabled
<1>3. ASSUME NEW c \in Consumers, ReadContact(c), Busy(c)' PROVE ContactList(c)'
  <2>1. PICK e, w : e = EventOf(c) /\ w = ReadOfContact(c)
    OBVIOUS
  <2>2. w = record'[c].write /\ Busy(c)
    BY <1>3, <2>1, GoesOn DEF ConsumerStep
  <2>3. IsEvent(e) /\ UNCHANGED <<snapshot, killed>>
    BY <1>3, <2>1, <2>2, BusyEvent DEF ReadContact
  <2>4. CASE "push" \in GroupsToApply(e)
    <3>1. IsPushList(e.sets.push)
      BY <2>3, <2>4 DEF GroupsToApply, Carries, IsEvent
    <3>2. w.push = KeepInvalidated(snapshot.push, e.sets.push)
      BY <2>1, <2>4 DEF ReadOfContact
    <3>3. /\ IsList(w.push) /\ StaysDead(snapshot.push, w.push)
          /\ \A x \in w.push : ~x.valid =>
                \E old \in snapshot.push : ~old.valid /\ old.token = x.token /\ x.reg <= old.reg
      BY <3>1, <3>2, KeptList DEF TokensInv
    <3>4. ASSUME NEW x \in w.push, ~x.valid PROVE Disabled(x)
      <4>1. PICK old \in snapshot.push : ~old.valid /\ old.token = x.token /\ x.reg <= old.reg
        BY <3>3, <3>4
      <4>2. PICK k \in killed : RejectedFor(old, k) \/ MarkedAfter(old, k)
        BY <4>1 DEF TokensInv, DisabledOnTheGatewaysWord
      <4>3. /\ x.reg \in Nat /\ old.reg \in Nat
            /\ k.marked \in Nat /\ k.rejected \in Nat /\ k.since \in Nat
        BY <3>3 DEF TokensInv, IsList
      <4>4. RejectedFor(x, k) \/ MarkedAfter(x, k)
        BY <4>1, <4>2, <4>3 DEF RejectedFor, MarkedAfter
      <4> QED BY <4>4 DEF Disabled
    <3> QED BY <2>2, <2>3, <3>3, <3>4 DEF ContactList, IsList, OneEntryPerToken, StaysDead, Disabled
  <2>5. CASE "push" \notin GroupsToApply(e)
    <3>1. w.push = snapshot.push
      BY <2>1, <2>5 DEF ReadOfContact
    <3>2. IsList(snapshot.push) /\ \A x \in snapshot.push : ~x.valid => Disabled(x)
      BY DEF TokensInv, DisabledOnTheGatewaysWord, Disabled
    <3> QED BY <2>2, <2>3, <3>1, <3>2, SameList
            DEF ContactList, IsList, OneEntryPerToken, StaysDead, Disabled
  <2> QED BY <2>4, <2>5
<1>4. ASSUME NEW c \in Consumers, record'[c].pc # "writeContact" PROVE ContactList(c)'
  BY <1>4 DEF ContactList
<1>5. ASSUME NEW c \in Consumers, ConsumerStep(c), ~ReadContact(c) PROVE record'[c].pc # "writeContact"
  <2>1. CASE ~Busy(c)'
    BY <2>1 DEF Busy
  <2>2. CASE Busy(c)'
    BY <1>5, <2>2, GoesOn DEF ConsumerStep
  <2> QED BY <2>1, <2>2
<1>6. ASSUME NEW c \in Consumers, NEW e \in published, Receive(c, e)
      PROVE  record'[c].pc # "writeContact"
  <2>1. record'[c].pc = FirstCall(e) /\ e.kind \in {"member", "qual", "availability"}
    BY <1>6 DEF Receive, Typed, IsEvent
  <2> QED BY <2>1 DEF FirstCall
<1>7. ASSUME NEW c \in Consumers,
             ConsumerStep(c) \/ RecordFails(c) \/ \E e \in published : Receive(c, e)
      PROVE  \A d \in Consumers : ContactList(d)'
  <2>1. ContactList(c)'
    <3>1. CASE ReadContact(c) /\ Busy(c)'
      BY <1>3, <3>1
    <3>2. CASE ~(ReadContact(c) /\ Busy(c)')
      BY <1>4, <1>5, <1>6, <1>7, <3>2, Ended DEF RecordFails, Busy
    <3> QED BY <3>1, <3>2
  <2>2. \A d \in Consumers \ {c} : ContactList(d)'
    BY <1>2, <1>7, OneRecord
  <2> QED BY <2>1, <2>2
<1>8. CASE UNCHANGED record
  BY <1>2, <1>8
<1> QED BY <1>7, <1>8, OneRejection DEF Next, vars, snapshotVars, SnapshotNext

LEMMA RejectedListKept ==
  ASSUME Typed, FieldsInv, TokensInv, [Next]_vars
  PROVE  \A w \in Rejections : RejectedList(w)'
<1>1. snapshot.version \in Nat /\ snapshot'.version \in Nat
  BY SnapshotKept DEF Typed, IsSnapshot, Clocks
<1>2. ASSUME NEW w \in Rejections,
             rejection'[w].pc \in {"admit", "write"} =>
                /\ rejection[w].pc \in {"admit", "write"}
                /\ rejection'[w].push = rejection[w].push
                /\ rejection'[w].token = rejection[w].token
                /\ rejection'[w].since = rejection[w].since
                /\ rejection'[w].version = rejection[w].version
      PROVE  RejectedList(w)'
  <2> SUFFICES ASSUME rejection'[w].pc \in {"admit", "write"} PROVE RejectedList(w)'
    BY DEF RejectedList
  <2>1. PICK r : r = rejection[w]
    OBVIOUS
  <2>2. /\ IsList(r.push) /\ \A x \in r.push : ~x.valid => x.token = r.token \/ Disabled(x)
        /\ \A x \in r.push : x.token = r.token /\ r.since # 0 => x.reg < r.since
        /\ r.version = snapshot.version => StaysDead(snapshot.push, r.push)
        /\ r.version \in Nat /\ r.version <= snapshot.version
    BY <1>2, <2>1 DEF TokensInv, RejectedList, FieldsInv, ListRead
  <2>3. r.version = snapshot'.version => StaysDead(snapshot'.push, r.push)
    BY <1>1, <2>2, ClocksGrow
  <2>4. \A x \in r.push : ~x.valid => x.token = r.token \/ Disabled(x)'
    BY <2>2, KilledGrows DEF Disabled
  <2> QED BY <1>2, <2>1, <2>2, <2>3, <2>4
          DEF RejectedList, IsList, OneEntryPerToken, StaysDead, Disabled
<1>3. CASE UNCHANGED rejection
  BY <1>2, <1>3
<1>4. ASSUME NEW w \in Rejections, ReadTarget(w), rejection'[w].pc \in {"admit", "write"}
      PROVE  RejectedList(w)'
  <2>1. PICK r, list : r = rejection[w] /\ list = Marked(r)
    OBVIOUS
  <2>2. /\ rejection'[w].push = list /\ rejection'[w].token = r.token
        /\ rejection'[w].since = r.since /\ rejection'[w].version = snapshot.version
        /\ \A entry \in snapshot.push : entry.token = r.token => ~Reregistered(entry, r.since)
    BY <1>4, <2>1, RejectionGoesOn DEF ReadTarget
  <2>3. /\ IsList(list) /\ StaysDead(snapshot.push, list)
        /\ \A x \in list :
              \E old \in snapshot.push : /\ x.token = old.token /\ x.reg = old.reg
                                         /\ ~x.valid => x.token = r.token \/ ~old.valid
    BY <2>1, MarkedList DEF TokensInv
  <2>4. UNCHANGED <<snapshot, killed>> /\ r.since \in Nat
    BY <1>4, <2>1 DEF ReadTarget, Typed
  <2>5. \A x \in list : ~x.valid => x.token = r.token \/ Disabled(x)
    BY <2>3 DEF TokensInv, DisabledOnTheGatewaysWord, Disabled, RejectedFor, MarkedAfter
  <2>6. ASSUME NEW x \in list, x.token = r.token, r.since # 0 PROVE x.reg < r.since
    <3>1. PICK old \in snapshot.push : x.token = old.token /\ x.reg = old.reg
      BY <2>3
    <3>2. ~(x.reg >= r.since)
      BY <2>2, <2>6, <3>1 DEF Reregistered
    <3> QED BY <2>3, <2>4, <3>2 DEF IsList
  <2> QED BY <2>2, <2>3, <2>4, <2>5, <2>6
          DEF RejectedList, IsList, OneEntryPerToken, StaysDead, Disabled
<1>5. ASSUME NEW w \in Rejections,
             Reject(w) \/ ReadTarget(w) \/ Admit(w) \/ WriteInvalid(w)
      PROVE  \A v \in Rejections : RejectedList(v)'
  <2>1. RejectedList(w)'
    <3>1. CASE rejection'[w].pc \in {"admit", "write"} /\ ReadTarget(w)
      BY <1>4, <3>1
    <3>2. CASE ~(rejection'[w].pc \in {"admit", "write"} /\ ReadTarget(w))
      BY <1>2, <1>5, <3>2, RejectionGoesOn
    <3> QED BY <3>1, <3>2
  <2>2. \A v \in Rejections \ {w} : rejection'[v] = rejection[v]
    BY <1>5, OneRejection
  <2> QED BY <1>2, <2>1, <2>2
<1>6. ASSUME NEW c \in Consumers,
             ConsumerStep(c) \/ RecordFails(c) \/ \E e \in published : Receive(c, e)
      PROVE  UNCHANGED rejection
  BY <1>6, OneRecord
<1> QED BY <1>3, <1>5, <1>6 DEF Next, vars, snapshotVars, SnapshotNext

\* What is dead, and why, is kept by every step.
LEMMA TokensInvKept ==
  ASSUME Typed, FieldsInv, TokensInv, [Next]_vars
  PROVE  TokensInv'
BY ListSteps, ContactListKept, RejectedListKept DEF TokensInv, IsList, OneEntryPerToken

LEMMA TokensInit ==
  ASSUME Init
  PROVE  TokensInv
<1>1. /\ snapshot.push = {} /\ killed = {}
      /\ \A c \in Consumers : record[c].pc = "idle"
      /\ \A w \in Rejections : rejection[w].pc = "idle"
  BY DEF Init, SnapshotInit, NewSnapshot, IdleRecord, IdleRejection
<1> QED BY <1>1 DEF TokensInv, IsList, OneEntryPerToken, DisabledOnTheGatewaysWord, ContactList,
                    RejectedList

-----------------------------------------------------------------------------
(* The theorems.                                                           *)

\* The inductive invariant: the shapes, and what each record and rejection in progress has
\* read, as far as its conditional write can still succeed.
IInv == Typed /\ FieldsInv /\ QualsInv /\ TokensInv

LEMMA IInvHolds == Spec => []IInv
<1>1. Init => IInv
  BY TypedInit, FieldsInit, QualsInit, TokensInit DEF IInv
<1>2. IInv /\ [Next]_vars => IInv'
  <2> SUFFICES ASSUME Typed, FieldsInv, QualsInv, TokensInv, [Next]_vars PROVE IInv'
    BY DEF IInv
  <2>1. IsList(snapshot.push)
    BY DEF TokensInv
  <2> QED BY <2>1, TypedKept, FieldsInvKept, QualsInvKept, TokensInvKept DEF IInv
<1> QED BY <1>1, <1>2, PTL DEF Spec

\* Every item, record and rejection has its parts, a record is at a call of its own event, and
\* nothing is handled or deduplicated that was not published (the envelopes that
\* memberUpdatedHandler.ts, eligibilityChangedConsumer.ts and consumer.ts parse).
THEOREM SnapshotTypeCorrect == Spec => []Typed
BY IInvHolds, PTL DEF IInv

\* Whatever the order, the duplicates and the concurrency of the events, a field shows the
\* newest handled event or a newer one (memberUpdatedHandler.ts, contactProjection.ts,
\* consumer.ts).
THEOREM FieldsShowNewest == Spec => []FieldsShowTheNewest
<1>1. IInv => FieldsShowTheNewest
  BY DEF IInv, FieldsInv, FieldsShowTheNewest, HandledReflected, ShowsAnEvent, Reflected
<1> QED BY <1>1, IInvHolds, PTL

\* The same of every qualification (eligibilityChangedConsumer.ts).
THEOREM QualsShowNewest == Spec => []QualsShowTheNewest
<1>1. IInv => QualsShowTheNewest
  BY DEF IInv, QualsInv
<1> QED BY <1>1, IInvHolds, PTL

\* A device is disabled for a rejection of its registration or a newer one, or because it
\* registered again before the token was marked and the gateway named no time or a later one:
\* the mark goes by the token alone (receipts/invalidatePushToken.ts), and the lists that are
\* sent later carry it no further (contactProjection.ts).
THEOREM DisabledTokensWereRejected == Spec => []DisabledOnTheGatewaysWord
<1>1. IInv => DisabledOnTheGatewaysWord
  BY DEF IInv, TokensInv
<1> QED BY <1>1, IInvHolds, PTL

\* No event of another device and no race revives a dead token without a newer registration
\* (contactProjection.ts, keepInvalidated).
THEOREM DeadTokensAreNotRevived == Spec => DeadTokensStayDead
<1> DEFINE Step == \A old \in snapshot.push, new \in snapshot'.push :
              ~old.valid /\ new.token = old.token => ~new.valid \/ new.reg > old.reg
<1>1. IInv /\ [Next]_vars => [Step]_vars
  BY ListSteps DEF IInv, StaysDead
<1>2. Spec => [][Step]_vars
  <2> HIDE DEF Step
  <2> QED BY <1>1, IInvHolds, PTL DEF Spec
<1> QED BY <1>2 DEF DeadTokensStayDead

-----------------------------------------------------------------------------
(* No event is lost between its row and its consumers: what remains of     *)
(* EveryEventIsHandled when fairness is taken away.                        *)

DrainShape ==
    /\ DOMAIN drain = {"pc", "from", "size", "retries", "failed", "faults"}
    /\ drain.from \in Nat /\ drain.size \in Nat /\ drain.failed \in Nat

\* The row went to the bus, if it is an event at all.
Sent(i) == Publishable(stream[i]) => stream[i] \in published

\* What the invocation has to show for the rows it will tell the mapping it is done with: all
\* of the batch, or those before the first failure.
BatchSent ==
    drain.pc \in {"mark", "report"} =>
       /\ drain.failed = 0 =>
             \A i \in DOMAIN stream :
                drain.from < i /\ i <= drain.from + drain.size => Sent(i)
       /\ drain.failed # 0 =>
             /\ drain.from < drain.failed
             /\ \A i \in DOMAIN stream : drain.from < i /\ i < drain.failed => Sent(i)

\* The mapping has passed only rows that went to the bus or to its failure destination.
PassedIsSent ==
    \A i \in DOMAIN stream : i <= drain.from => Sent(i) \/ stream[i] \in abandoned

DrainInv ==
    /\ DOMAIN stream \subseteq Nat \ {0} /\ DrainShape
    /\ BatchSent /\ PassedIsSent

\* An invocation is at work on the event.
InHand(e) == \E c \in Consumers : Busy(c) /\ EventOf(c) = e

\* An event that was received for the last time is at work, handled or dead.
QueueInv ==
    \A e \in DOMAIN receives :
       /\ receives[e] \in 0 .. MaxReceives
       /\ receives[e] = MaxReceives => e \in handled \cup dead \/ InHand(e)

\* A committed event is still in the stream, is handled or where an alarm rings, or is on the
\* bus with a receive left or an invocation at work on it.
NoEventIsLost ==
    \A i \in DOMAIN stream : Publishable(stream[i]) =>
       \/ drain.from < i
       \/ Settled(i)
       \/ /\ stream[i] \in published
          /\ Receives(stream[i]) < MaxReceives \/ InHand(stream[i])

\* A nonempty set of naturals has a first element.
LEMMA FirstIs ==
  ASSUME NEW S \in SUBSET Nat, S # {}
  PROVE  First(S) \in S /\ \A j \in S : First(S) <= j
<1> DEFINE R == OpToRel(<, Nat)
<1>1. IsWellFoundedOn(R, Nat)
  BY NatLessThanWellFounded, Zenon
<1>2. \A i, j \in Nat : i < j => <<i, j>> \in R
  BY DEF OpToRel
<1> HIDE DEF R
<1>3. PICK i \in S : \A j \in S : <<j, i>> \notin R
  BY <1>1, WFMin
<1>4. \A j \in S : ~(j < i)
  BY <1>2, <1>3
<1>5. \A j \in S : i <= j
  BY <1>4
<1> QED BY <1>5 DEF First

\* The rows of a batch lie within it, and are all of it that is to be published.
LEMMA BatchIs ==
  ASSUME DrainInv
  PROVE  /\ Batch \in SUBSET (Nat \ {0}) /\ Batch \subseteq DOMAIN stream
         /\ \A i \in DOMAIN stream :
               i \in Batch <=> /\ drain.from < i /\ i <= drain.from + drain.size
                             /\ Publishable(stream[i])
BY DEF DrainInv, Batch

\* What an answer of the bus leaves for the mapping.
LEMMA PutEventsSends ==
  ASSUME DrainInv, PutEvents
  PROVE  DrainShape' /\ BatchSent' /\ drain'.from = drain.from
<1>1. PICK refused \in SUBSET Batch :
        /\ published' = published \cup {stream[i] : i \in Batch \ refused}
        /\ drain' = [drain EXCEPT !.pc = "mark", !.failed = FirstFailure(refused),
                                  !.faults = @ + Cardinality(refused)]
  BY DEF PutEvents
<1> DEFINE first == FirstFailure(refused)
<1>2. refused \in SUBSET Nat /\ UNCHANGED stream
  BY BatchIs DEF PutEvents
<1>3. refused = {} => first = 0
  BY DEF FirstFailure, First
<1>4. refused # {} => first \in refused /\ \A j \in refused : first <= j
  BY <1>2, FirstIs DEF FirstFailure
<1>5. first \in Nat
  <2>1. CASE refused = {} BY <1>3, <2>1
  <2>2. CASE refused # {} BY <1>2, <1>4, <2>2, Zenon
  <2> QED BY <2>1, <2>2
<1>6. /\ DrainShape' /\ drain'.failed = first
      /\ drain'.from = drain.from /\ drain'.size = drain.size
  BY <1>1, <1>5 DEF DrainInv, DrainShape
<1>7. \A i \in Batch \ refused : stream[i] \in published'
  BY <1>1
<1>8. CASE refused = {}
  BY <1>2, <1>3, <1>6, <1>7, <1>8, BatchIs DEF BatchSent, Sent
<1>9. CASE refused # {}
  <2>1. /\ first \in Batch /\ drain.from < first /\ first # 0
        /\ first <= drain.from + drain.size
    BY <1>4, <1>9, BatchIs
  <2>2. ASSUME NEW i \in DOMAIN stream, drain.from < i, i < first, Publishable(stream[i])
        PROVE  stream[i] \in published'
    <3>1. i \in Nat /\ i \in Batch
      BY <1>5, <2>1, <2>2, BatchIs DEF DrainInv, DrainShape
    <3> QED BY <1>4, <1>5, <1>7, <1>9, <2>2, <3>1
  <2> QED BY <1>2, <1>6, <2>1, <2>2 DEF BatchSent, Sent
<1> QED BY <1>6, <1>8, <1>9

\* A call that throws counts none of its rows as sent.
LEMMA ThrowSends ==
  ASSUME DrainInv, PutEventsThrows \/ DrainDies
  PROVE  DrainShape' /\ BatchSent' /\ drain'.from = drain.from
<1>1. CASE PutEventsThrows
  <2>1. /\ First(Batch) \in Batch /\ \A j \in Batch : First(Batch) <= j
        /\ First(Batch) \in Nat \ {0}
    BY <1>1, BatchIs, FirstIs DEF PutEventsThrows
  <2>2. /\ DrainShape' /\ drain'.failed = First(Batch) /\ UNCHANGED stream
        /\ drain'.from = drain.from /\ drain'.size = drain.size
    BY <1>1, <2>1 DEF PutEventsThrows, DrainInv, DrainShape
  <2>3. \A i \in DOMAIN stream : drain.from < i /\ i < First(Batch) => ~Publishable(stream[i])
    BY <2>1, BatchIs DEF DrainInv, DrainShape
  <2>4. drain.from < First(Batch)
    BY <2>1, BatchIs
  <2> QED BY <2>1, <2>2, <2>3, <2>4 DEF BatchSent, Sent
<1>2. CASE DrainDies
  <2>1. /\ DrainShape' /\ drain'.failed = drain.from + 1 /\ UNCHANGED stream
        /\ drain'.from = drain.from
    BY <1>2 DEF DrainDies, DrainInv, DrainShape
  <2> QED BY <2>1 DEF BatchSent, DrainInv, DrainShape
<1> QED BY <1>1, <1>2

\* The mapping moves past rows that were sent, or that it hands over.
LEMMA ReportPasses ==
  ASSUME DrainInv, Report
  PROVE  DrainShape' /\ BatchSent' /\ PassedIsSent'
<1> DEFINE end == drain.from + drain.size
<1>0. /\ drain.pc = "report" /\ UNCHANGED <<stream, published>> /\ DrainShape
      /\ DOMAIN stream \subseteq Nat
  BY DEF Report, DrainInv
<1>1. CASE drain.failed = 0
  <2>0. drain' = [drain EXCEPT !.pc = "idle", !.from = end, !.retries = 0] /\ UNCHANGED abandoned
    BY <1>1 DEF Report
  <2>1. DrainShape' /\ drain'.pc = "idle" /\ drain'.from = end
    BY <1>0, <2>0 DEF DrainShape
  <2> QED BY <1>0, <1>1, <2>0, <2>1 DEF DrainInv, DrainShape, BatchSent, PassedIsSent, Sent
<1>2. CASE drain.failed # 0 /\ drain.retries < MaxRetries
  <2>1. drain.from < drain.failed
    BY <1>0, <1>2 DEF DrainInv, BatchSent
  <2>2. /\ drain' = [drain EXCEPT !.pc = "idle", !.from = drain.failed - 1, !.retries = @ + 1]
        /\ UNCHANGED abandoned
    BY <1>2 DEF Report
  <2>3. DrainShape' /\ drain'.pc = "idle" /\ drain'.from = drain.failed - 1
    BY <1>0, <2>1, <2>2 DEF DrainShape
  <2> QED BY <1>0, <1>2, <2>2, <2>3 DEF DrainInv, DrainShape, BatchSent, PassedIsSent, Sent
<1>3. CASE drain.failed # 0 /\ ~(drain.retries < MaxRetries)
  <2>1. /\ drain' = [drain EXCEPT !.pc = "idle", !.from = end, !.retries = 0]
        /\ abandoned' = abandoned \cup {stream[i] : i \in drain.failed .. end}
    BY <1>3 DEF Report
  <2>2. DrainShape' /\ drain'.pc = "idle" /\ drain'.from = end
    BY <1>0, <2>1 DEF DrainShape
  <2> QED BY <1>0, <1>3, <2>1, <2>2 DEF DrainInv, DrainShape, BatchSent, PassedIsSent, Sent
<1> QED BY <1>1, <1>2, <1>3

\* Every step keeps what the drain has passed.
LEMMA DrainKept ==
  ASSUME DrainInv, DrainNext
  PROVE  DrainInv'
<1>1. /\ stream' = stream /\ published \subseteq published' /\ abandoned \subseteq abandoned'
  BY DrainPublishes DEF DrainNext, Poll, PutEvents, PutEventsThrows, MarkSent, DrainDies, Report
<1>2. drain'.from = drain.from => PassedIsSent'
  BY <1>1 DEF DrainInv, PassedIsSent, Sent
<1>3. CASE Poll
  <2>1. PICK size \in 1 .. BatchSize :
          drain' = [drain EXCEPT !.pc = "publish", !.size = size, !.failed = 0]
    BY <1>3 DEF Poll
  <2>2. size \in Nat
    OBVIOUS
  <2>3. DrainShape' /\ drain'.from = drain.from /\ drain'.pc = "publish"
    BY <2>1, <2>2 DEF DrainInv, DrainShape
  <2> QED BY <1>1, <1>2, <2>3 DEF DrainInv, BatchSent
<1>4. CASE PutEvents
  BY <1>1, <1>2, <1>4, PutEventsSends DEF DrainInv
<1>5. CASE PutEventsThrows \/ DrainDies
  BY <1>1, <1>2, <1>5, ThrowSends DEF DrainInv
<1>6. CASE MarkSent
  <2>1. /\ DrainShape' /\ drain'.from = drain.from /\ drain'.size = drain.size
        /\ drain'.failed = drain.failed /\ drain.pc = "mark" /\ UNCHANGED published
    BY <1>6 DEF MarkSent, DrainInv, DrainShape
  <2> QED BY <1>1, <1>2, <2>1 DEF DrainInv, BatchSent, Sent
<1>7. CASE Report
  BY <1>1, <1>7, ReportPasses DEF DrainInv
<1> QED BY <1>3, <1>4, <1>5, <1>6, <1>7 DEF DrainNext

\* A record ends as handled or as failed, and neither it nor a step of it receives.
LEMMA RecordEnds ==
  ASSUME Typed, NEW c \in Consumers, ConsumerStep(c) \/ RecordFails(c)
  PROVE  /\ Busy(c) /\ UNCHANGED receives /\ handled \subseteq handled' /\ dead \subseteq dead'
         /\ \/ Busy(c)' /\ record'[c].event = record[c].event
            \/ Handled(c) \/ Failed(c)
<1>1. /\ Busy(c) /\ UNCHANGED receives /\ handled \subseteq handled' /\ dead \subseteq dead'
      /\ ConsumerStep(c) \/ Failed(c)
  BY DEF ConsumerStep, RecordFails, WriteField, NextCall, ReadContact, WriteContact, CheckDedup,
         ReadQual, WriteQual, PutDedup, ApplyAvailability, Handled, Failed, Again
<1>2. CASE ConsumerStep(c) /\ Busy(c)'
  BY <1>1, <1>2, GoesOn
<1>3. CASE ConsumerStep(c) /\ ~Busy(c)'
  <2>1. c \in DOMAIN record /\ DOMAIN record[c] = RecordParts
    BY <1>1, BusyEvent DEF Typed
  <2>2. WriteField(c) => Handled(c)
    BY <1>1, <1>3, <2>1 DEF WriteField, NextCall, Busy, RecordParts
  <2>3. ReadContact(c) => Handled(c)
    BY <1>3, <2>1 DEF ReadContact, Busy, RecordParts
  <2>4. CheckDedup(c) => Handled(c)
    BY <1>3, <2>1 DEF CheckDedup, Busy, RecordParts
  <2>5. ReadQual(c) => Handled(c)
    BY <1>3, <2>1 DEF ReadQual, Busy, RecordParts
  <2>6. \A bound : Again(c, bound) => Failed(c)
    BY <1>1, <1>3, <2>1 DEF Again, Busy, RecordParts
  <2>7. WriteContact(c) => Handled(c) \/ Failed(c)
    BY <2>6 DEF WriteContact
  <2>8. WriteQual(c) => Handled(c) \/ Failed(c)
    BY <1>3, <2>1, <2>6 DEF WriteQual, Busy, RecordParts
  <2> QED BY <1>1, <1>3, <2>2, <2>3, <2>4, <2>5, <2>7, <2>8
          DEF ConsumerStep, PutDedup, ApplyAvailability
<1> QED BY <1>1, <1>2, <1>3

\* A last receive is not forgotten: the record in hand ends as handled, or as dead.
LEMMA QueueKept ==
  ASSUME Typed, QueueInv, [Next]_vars
  PROVE  QueueInv'
<1>1. CASE UNCHANGED <<receives, record, handled, dead>>
  BY <1>1 DEF QueueInv, InHand, Busy, EventOf
<1>2. ASSUME NEW c \in Consumers, NEW e \in published, Receive(c, e) PROVE QueueInv'
  <2>1. /\ DOMAIN receives' = DOMAIN receives \cup {e}
        /\ receives'[e] = Receives(e) + 1
        /\ \A d \in DOMAIN receives \ {e} : receives'[d] = receives[d]
    BY <1>2, SnapshotConstants DEF Receive, Receives, QueueInv
  <2>2. Receives(e) \in Nat /\ Receives(e) < MaxReceives
    BY <1>2, SnapshotConstants DEF Receive, Receives, QueueInv
  <2>3. Busy(c)' /\ EventOf(c)' = e
    <3>1. record'[c].pc = FirstCall(e) /\ record'[c].event = e
      BY <1>2 DEF Receive, Typed
    <3>2. FirstCall(e) # "idle"
      BY DEF FirstCall, Typed, IsEvent
    <3> QED BY <3>1, <3>2 DEF Busy, EventOf
  <2>4. ASSUME NEW d \in Consumers, Busy(d) PROVE Busy(d)' /\ EventOf(d)' = EventOf(d)
    <3>1. d # c
      BY <1>2, <2>4 DEF Receive
    <3> QED BY <1>2, <2>4, <3>1, OneRecord DEF Busy, EventOf
  <2>5. UNCHANGED <<handled, dead>>
    BY <1>2 DEF Receive
  <2>6. ASSUME NEW d \in DOMAIN receives'
        PROVE  /\ receives'[d] \in 0 .. MaxReceives
               /\ receives'[d] = MaxReceives => d \in handled' \cup dead' \/ InHand(d)'
    <3>1. CASE d = e
      BY <2>1, <2>2, <2>3, <3>1, SnapshotConstants DEF InHand
    <3>2. CASE d # e
      <4>1. InHand(d) => InHand(d)'
        BY <2>4 DEF InHand
      <4> QED BY <2>1, <2>5, <2>6, <3>2, <4>1 DEF QueueInv
    <3> QED BY <3>1, <3>2
  <2> QED BY <2>6 DEF QueueInv
<1>3. ASSUME NEW c \in Consumers, ConsumerStep(c) \/ RecordFails(c) PROVE QueueInv'
  <2>1. ASSUME NEW d \in Consumers \ {c}, Busy(d) PROVE Busy(d)' /\ EventOf(d)' = EventOf(d)
    BY <1>3, <2>1, OneRecord DEF Busy, EventOf
  <2>2. UNCHANGED receives /\ handled \subseteq handled' /\ dead \subseteq dead'
    BY <1>3, RecordEnds
  <2>3. ASSUME NEW d \in DOMAIN receives, receives[d] = MaxReceives, EventOf(c) = d
        PROVE  d \in handled' \cup dead' \/ InHand(d)'
    <3>1. CASE Busy(c)' /\ record'[c].event = record[c].event
      BY <2>3, <3>1 DEF InHand, EventOf
    <3>2. CASE Handled(c)
      BY <2>3, <3>2 DEF Handled
    <3>3. CASE Failed(c)
      BY <2>3, <3>3 DEF Failed, Exhausted, Receives
    <3> QED BY <1>3, <3>1, <3>2, <3>3, RecordEnds
  <2>4. ASSUME NEW d \in DOMAIN receives, receives[d] = MaxReceives
        PROVE  d \in handled' \cup dead' \/ InHand(d)'
    BY <2>1, <2>2, <2>3, <2>4 DEF QueueInv, InHand
  <2> QED BY <2>2, <2>4 DEF QueueInv
<1>4. ASSUME NEW w \in Rejections, Reject(w) \/ ReadTarget(w) \/ Admit(w) \/ WriteInvalid(w)
      PROVE  QueueInv'
  BY <1>1, <1>4 DEF Reject, ReadTarget, Admit, WriteInvalid
<1> QED BY <1>1, <1>2, <1>3, <1>4 DEF Next, vars, snapshotVars, SnapshotNext

\* From its row to its consumers no event is lost quietly, whatever entries the bus refuses and
\* whatever calls and invocations of the drain and of the consumers fail or die: it is in the
\* stream, at the bus with a receive or an invocation left, handled, dead-lettered, or at the
\* failure destination (drainHandler.ts, outbox-publisher.ts, the consumers' batch failures).
THEOREM NoEventIsLostQuietly == Spec => []NoEventIsLost
<1>1. Init => DrainInv /\ QueueInv
  <2> SUFFICES ASSUME Init PROVE DrainInv /\ QueueInv
    OBVIOUS
  <2>1. PICK history \in Histories : stream = history.rows /\ DrainInit /\ SnapshotInit(history)
    BY DEF Init
  <2>2. DOMAIN stream \subseteq Nat \ {0}
    BY <2>1, CommittedEvents
  <2> QED BY <2>1, <2>2
          DEF DrainInit, SnapshotInit, DrainInv, DrainShape, BatchSent, PassedIsSent, QueueInv
<1>2. Typed /\ DrainInv /\ QueueInv /\ [Next]_vars => (DrainInv /\ QueueInv)'
  <2> SUFFICES ASSUME Typed, DrainInv, QueueInv, [Next]_vars PROVE DrainInv'
    BY QueueKept
  <2>1. CASE UNCHANGED drainVars
    BY <2>1 DEF drainVars, DrainInv, DrainShape, BatchSent, PassedIsSent, Sent
  <2>2. CASE DrainNext
    BY <2>2, DrainKept
  <2>3. CASE SnapshotNext
    <3>1. UNCHANGED drainVars
      BY <2>3, OneRecord DEF SnapshotNext, Reject, ReadTarget, Admit, WriteInvalid
    <3> QED BY <2>1, <3>1
  <2> QED BY <2>1, <2>2, <2>3 DEF Next, vars
<1>3. DrainInv /\ QueueInv => NoEventIsLost
  <2> SUFFICES ASSUME DrainInv, QueueInv, NEW i \in DOMAIN stream, Publishable(stream[i]),
                      ~(drain.from < i), ~Settled(i)
               PROVE  /\ stream[i] \in published
                      /\ Receives(stream[i]) < MaxReceives \/ InHand(stream[i])
    BY DEF NoEventIsLost
  <2>1. stream[i] \in published
    BY DEF DrainInv, DrainShape, PassedIsSent, Sent, Settled
  <2>2. CASE stream[i] \in DOMAIN receives
    BY <2>1, <2>2, SnapshotConstants DEF QueueInv, Receives, Settled
  <2>3. CASE stream[i] \notin DOMAIN receives
    BY <2>1, <2>3, SnapshotConstants DEF Receives
  <2> QED BY <2>1, <2>2, <2>3
<1> QED BY <1>1, <1>2, <1>3, SnapshotTypeCorrect, PTL DEF Spec

=============================================================================
