--------------------------- MODULE CadUpdatesProofs ---------------------------
(***************************************************************************)
(* For any messages, deliveries, notifiers and faults: a CAD incident      *)
(* shows its latest message, numbers its updates in the CAD's order, takes *)
(* every message it answers for and never forgets an owed push; composed   *)
(* with it, the fan-out keeps what module FanOutProofs shows of it alone.  *)
(* That nobody is left with older text is proved for an audience that does *)
(* not change during the call (MaxChanges = 0).                            *)
(***************************************************************************)
EXTENDS CadUpdates, FanOutProofs

CallType ==
    [text : {NoText} \cup {TextOf[m] : m \in Messages}, time : Nat,
     hash : Messages \cup {NoMessage}, original : Messages \cup {NoMessage}]
UpdateType ==
    [state : {"none", "applied", "unchanged", "history"}, revision : Nat, notified : BOOLEAN]

IngressTyped ==
    /\ call \in CallType /\ updates \in [Messages -> UpdateType]
    /\ seen \subseteq Messages /\ markers \subseteq Tokens
    /\ ingest \in [Deliveries -> IngestType]

\* Updates are looked for and recorded only on a call that exists.
NothingBeforeCreate ==
    fan.pc = "waiting" =>
       /\ \A m \in Messages : updates[m].state = "none"
       /\ \A d \in Deliveries : ingest[d].pc \notin {"read", "write"}

\* What is answered, marked, recorded or shown has left its SEEN# item.
AcceptedIsSeen ==
    /\ \A d \in Deliveries : TokenOf[d] \in markers => ContentOf[d] \in seen
    /\ \A m \in Messages : updates[m].state # "none" => m \in seen
    /\ {call.hash, call.original} \subseteq seen \cup {NoMessage}
    /\ \A d \in Deliveries :
          ingest[d].pc \in {"needs", "handOff", "answered"} => ContentOf[d] \in seen

\* What a writer has read is METADATA as it is, or METADATA before a later revision.
Current(r) ==
    r.pc = "write" =>
       /\ r.writes < MaxWrites /\ r.read.revision <= dispatch.revision
       /\ r.read.revision = dispatch.revision => r.read.text = call.text
ReadsAreCurrent == \A d \in Deliveries : Current(ingest[d])

\* The time of METADATA is that of the newest update that carries one.
TimeIsTheNewest == \A u \in Recorded : TimeOf[u] <= call.time

IngressInv ==
    /\ IngressTyped /\ NothingBeforeCreate /\ AcceptedIsSeen /\ ReadsAreCurrent
    /\ TimeIsTheNewest /\ CallShowsItsLatestMessage /\ OriginalIsNeverAnUpdate

-----------------------------------------------------------------------------
LEMMA RevisionTyped ==
  ASSUME FInv
  PROVE  dispatch.revision \in Nat
BY DEF FInv, FanOutTypeOK

\* An invocation that has moved on and written nothing keeps the invariant, if what it has read
\* and where it stands agree with it.
LEMMA IngestKeeps ==
  ASSUME IngressInv, NEW d \in Deliveries, NEW r \in IngestType,
         ingest' = [ingest EXCEPT ![d] = r],
         UNCHANGED <<call, updates, seen, markers>>,
         dispatch'.revision = dispatch.revision, fan' = fan,
         r.pc \in {"read", "write"} => fan.pc # "waiting",
         r.pc \in {"needs", "handOff", "answered"} => ContentOf[d] \in seen,
         Current(r)
  PROVE  IngressInv'
<1>1. /\ ingest' \in [Deliveries -> IngestType] /\ ingest'[d] = r
      /\ \A e \in Deliveries \ {d} : ingest'[e] = ingest[e]
  BY DEF IngressInv, IngressTyped
<1>2. IngressTyped'
  BY <1>1 DEF IngressInv, IngressTyped
<1>3. NothingBeforeCreate' /\ AcceptedIsSeen'
  BY <1>1 DEF IngressInv, NothingBeforeCreate, AcceptedIsSeen
<1>4. ReadsAreCurrent'
  BY <1>1 DEF IngressInv, ReadsAreCurrent, Current
<1>5. TimeIsTheNewest' /\ CallShowsItsLatestMessage' /\ OriginalIsNeverAnUpdate'
  BY DEF IngressInv, TimeIsTheNewest, CallShowsItsLatestMessage, OriginalIsNeverAnUpdate, Recorded
<1> QED BY <1>2, <1>3, <1>4, <1>5 DEF IngressInv

\* The program counter alone moves.
LEMMA GoKeeps ==
  ASSUME IngressInv, NEW d \in Deliveries,
         NEW pc \in {"create", "read", "needs", "handOff", "answered", "failed"}, Go(d, pc),
         UNCHANGED <<fanOutVars, call, updates, seen, markers>>,
         pc = "read" => fan.pc # "waiting",
         pc \in {"needs", "handOff", "answered"} => ContentOf[d] \in seen
  PROVE  IngressInv'
<1> DEFINE r == [ingest[d] EXCEPT !.pc = pc]
<1>1. ingest[d] \in IngestType /\ ingest' = [ingest EXCEPT ![d] = r]
  BY DEF Go, IngressInv, IngressTyped
<1>2. r \in IngestType /\ r.pc = pc
  BY <1>1 DEF IngestType
<1> HIDE DEF r
<1>3. Current(r)
  BY <1>2 DEF Current
<1> QED BY <1>1, <1>2, <1>3, IngestKeeps DEF fanOutVars

-----------------------------------------------------------------------------
(* One lemma for each step of the ingress.                                 *)

LEMMA CheckReplayKeeps ==
  ASSUME IngressInv, NEW d \in Deliveries, CheckReplay(d)
  PROVE  IngressInv'
<1>1. CASE TokenOf[d] \in markers
  BY <1>1, GoKeeps DEF CheckReplay, IngressInv, AcceptedIsSeen
<1>2. CASE TokenOf[d] \notin markers
  BY <1>2, GoKeeps DEF CheckReplay
<1> QED BY <1>1, <1>2

LEMMA CreateCancelledKeeps ==
  ASSUME IngressInv, NEW d \in Deliveries, CreateCancelled(d)
  PROVE  IngressInv'
<1>1. CASE TokenOf[d] \in markers /\ Go(d, "answered")
  BY <1>1, GoKeeps DEF CreateCancelled, IngressInv, AcceptedIsSeen
<1>2. CASE fan.pc # "waiting" /\ Go(d, "read")
  BY <1>2, GoKeeps DEF CreateCancelled
<1> QED BY <1>1, <1>2 DEF CreateCancelled

LEMMA ReadCallKeeps ==
  ASSUME FInv, IngressInv, NEW d \in Deliveries, ReadCall(d)
  PROVE  IngressInv'
<1> DEFINE read == [text |-> call.text, time |-> call.time, hash |-> call.hash,
                    revision |-> dispatch.revision]
           pc   == CASE ingest[d].writes = MaxWrites -> "failed"
                     [] call.hash = ContentOf[d]     -> "needs"
                     [] OTHER                        -> "write"
           r    == [ingest[d] EXCEPT !.pc = pc, !.read = read]
<1>0. ingest' = [ingest EXCEPT ![d] = r]
  <2>1. ingest' = [ingest EXCEPT ![d].pc = pc, ![d].read = read]
    BY DEF ReadCall
  <2> HIDE DEF pc, read
  <2> QED BY <2>1 DEF IngressInv, IngressTyped
<1>1. /\ ingest[d] \in IngestType /\ ingest[d].pc = "read" /\ fan.pc # "waiting"
      /\ call \in CallType /\ dispatch.revision \in Nat
  BY RevisionTyped DEF ReadCall, IngressInv, IngressTyped, NothingBeforeCreate
<1>2. /\ read \in [text : {NoText} \cup {TextOf[m] : m \in Messages}, time : Nat,
                  hash : Messages \cup {NoMessage}, revision : Nat]
      /\ read.revision = dispatch.revision /\ read.text = call.text
  BY <1>1 DEF CallType
<1>3. pc \in {"failed", "needs", "write"}
  OBVIOUS
<1>4. /\ pc = "needs" => call.hash = ContentOf[d]
      /\ pc = "write" => ingest[d].writes # MaxWrites
  OBVIOUS
<1> HIDE DEF read, pc
<1>5. /\ r \in IngestType /\ r.pc = pc /\ r.read = read /\ r.writes = ingest[d].writes
  BY <1>1, <1>2, <1>3 DEF IngestType
<1>6. ContentOf[d] \in Messages /\ NoMessage \notin Messages
  BY CadConstants DEF NoMessage
<1>7. pc = "needs" => ContentOf[d] \in seen
  BY <1>4, <1>6 DEF IngressInv, AcceptedIsSeen
<1> HIDE DEF r
<1>8. Current(r)
  <2>1. ingest[d].writes \in 0 .. MaxWrites /\ MaxWrites \in Nat
    BY <1>1, CadConstants DEF IngestType
  <2> QED BY <1>1, <1>2, <1>4, <1>5, <2>1 DEF Current
<1> QED BY <1>0, <1>1, <1>3, <1>5, <1>7, <1>8, IngestKeeps DEF ReadCall, fanOutVars

LEMMA WriteCancelledKeeps ==
  ASSUME IngressInv, NEW d \in Deliveries, WriteCancelled(d)
  PROVE  IngressInv'
<1>1. CASE Known(d) /\ Go(d, "needs")
  <2>1. ContentOf[d] \in Messages
    BY CadConstants
  <2>2. ContentOf[d] \in seen
    BY <1>1, <2>1 DEF Known, IngressInv, AcceptedIsSeen
  <2> QED BY <1>1, <2>2, GoKeeps DEF WriteCancelled
<1>2. CASE ingest' = [ingest EXCEPT ![d].pc = AfterRace, ![d].writes = @ + 1]
  <2> DEFINE r == [ingest[d] EXCEPT !.pc = "read", !.writes = @ + 1]
  <2>1. /\ ingest[d] \in IngestType /\ ingest[d].pc = "write" /\ ingest[d].writes < MaxWrites
        /\ fan.pc # "waiting"
    BY DEF WriteCancelled, IngressInv, IngressTyped, ReadsAreCurrent, Current, NothingBeforeCreate
  <2>2. ingest' = [ingest EXCEPT ![d] = r]
    BY <1>2 DEF AfterRace, IngressInv, IngressTyped
  <2>3. ingest[d].writes \in 0 .. MaxWrites /\ MaxWrites \in Nat
    BY <2>1, CadConstants DEF IngestType
  <2>4. ingest[d].writes + 1 \in 0 .. MaxWrites
    BY <2>1, <2>3
  <2>5. r \in IngestType /\ r.pc = "read"
    BY <2>1, <2>4 DEF IngestType
  <2> HIDE DEF r
  <2>6. Current(r)
    BY <2>5 DEF Current
  <2> QED BY <2>1, <2>2, <2>5, <2>6, IngestKeeps DEF WriteCancelled, fanOutVars
<1> QED BY <1>1, <1>2 DEF WriteCancelled

LEMMA ReportKeeps ==
  ASSUME IngressInv, NEW d \in Deliveries, CheckNeedsNotice(d) \/ HandOff(d) \/ IngestDies(d)
  PROVE  IngressInv'
<1>1. ingest[d].pc \in {"needs", "handOff"} => ContentOf[d] \in seen
  BY DEF IngressInv, AcceptedIsSeen
<1>2. CASE CheckNeedsNotice(d)
  BY <1>1, <1>2, GoKeeps DEF CheckNeedsNotice
<1>3. CASE HandOff(d)
  BY <1>1, <1>3, GoKeeps DEF HandOff
<1>4. CASE IngestDies(d)
  BY <1>4, GoKeeps DEF IngestDies
<1> QED BY <1>2, <1>3, <1>4

\* The create finds nothing recorded.
LEMMA CreateKeeps ==
  ASSUME FInv, IngressInv, NEW d \in Deliveries, Create(d)
  PROVE  FInv' /\ IngressInv'
<1> DEFINE m == ContentOf[d]
<1>1. /\ m \in Messages /\ TimeOf[m] \in Nat /\ NoMessage \notin Messages /\ TokenOf[d] \in Tokens
      /\ \A e \in Deliveries : TokenOf[e] = TokenOf[d] => ContentOf[e] = m
  BY CadConstants DEF NoMessage
<1>2. /\ fan.pc = "waiting" /\ dispatch' = dispatch /\ updates' = updates
      /\ call' = [text |-> TextOf[m], time |-> TimeOf[m], hash |-> m, original |-> m]
      /\ seen' = seen \cup {m} /\ markers' = markers \cup {TokenOf[d]}
      /\ ingest' = [ingest EXCEPT ![d].pc = "answered"]
  BY DEF Create, RecordArrives, SeenOnCreate, Go
<1>3. FInv'
  BY ArrivesKeeps DEF Create
<1>4. fan'.pc = "audience"
  BY DEF Create, RecordArrives, FInv, FanOutTypeOK, FanType
<1>5. /\ ingest' \in [Deliveries -> IngestType] /\ ingest'[d].pc = "answered"
      /\ \A e \in Deliveries \ {d} : ingest'[e] = ingest[e]
  BY <1>2 DEF IngressInv, IngressTyped, IngestType
<1>6. call' \in CallType
  BY <1>1, <1>2 DEF CallType
<1>7. IngressTyped'
  BY <1>1, <1>2, <1>5, <1>6 DEF IngressInv, IngressTyped
<1>8. \A u \in Messages : updates[u].state = "none"
  BY <1>2 DEF IngressInv, NothingBeforeCreate
<1>9. Recorded' = {}
  BY <1>2, <1>8 DEF Recorded
<1>10. \A e \in Deliveries : ingest'[e].pc # "write"
  BY <1>2, <1>5 DEF IngressInv, NothingBeforeCreate
<1>11. NothingBeforeCreate' /\ ReadsAreCurrent'
  BY <1>4, <1>10 DEF NothingBeforeCreate, ReadsAreCurrent, Current
<1>12. AcceptedIsSeen'
  BY <1>1, <1>2, <1>5, <1>8 DEF IngressInv, AcceptedIsSeen
<1>13. TimeIsTheNewest' /\ CallShowsItsLatestMessage'
  BY <1>9 DEF TimeIsTheNewest, CallShowsItsLatestMessage
<1>14. OriginalIsNeverAnUpdate'
  BY <1>1, <1>2, <1>8 DEF OriginalIsNeverAnUpdate
<1> QED BY <1>3, <1>7, <1>11, <1>12, <1>13, <1>14 DEF IngressInv

\* What a transaction that records a message leaves besides the call and its revision.
LEMMA RecordKeeps ==
  ASSUME IngressInv, NEW d \in Deliveries, Accept(d), ingest[d].pc = "write", ~Known(d),
         updates'[ContentOf[d]].state # "none",
         \A v \in Messages \ {ContentOf[d]} : updates'[v] = updates[v],
         ingest'[d].pc \in {"handOff", "answered"},
         \A e \in Deliveries \ {d} : ingest'[e] = ingest[e], fan'.pc = fan.pc
  PROVE  /\ updates[ContentOf[d]].state = "none"
         /\ seen' \subseteq Messages /\ markers' \subseteq Tokens
         /\ NothingBeforeCreate'
         /\ call'.hash \in {call.hash, ContentOf[d]} /\ call'.original = call.original =>
               AcceptedIsSeen' /\ OriginalIsNeverAnUpdate'
<1> DEFINE m == ContentOf[d]
<1>1. /\ m \in Messages /\ TokenOf[d] \in Tokens /\ NoMessage \notin Messages
      /\ \A e \in Deliveries : TokenOf[e] = TokenOf[d] => ContentOf[e] = m
  BY CadConstants DEF NoMessage
<1>2. updates[m].state = "none" /\ m \notin seen
  BY DEF Known
<1>3. /\ seen' = seen \cup {m} /\ seen' \subseteq Messages
      /\ markers' = markers \cup {TokenOf[d]} /\ markers' \subseteq Tokens
  BY <1>1 DEF Accept, IngressInv, IngressTyped
<1>4. fan.pc # "waiting"
  BY DEF IngressInv, NothingBeforeCreate
<1>5. NothingBeforeCreate'
  BY <1>4 DEF NothingBeforeCreate
<1>6. ASSUME call'.hash \in {call.hash, m} /\ call'.original = call.original
      PROVE  AcceptedIsSeen' /\ OriginalIsNeverAnUpdate'
  <2>1. {call.hash, call.original} \subseteq seen \cup {NoMessage}
    BY DEF IngressInv, AcceptedIsSeen
  <2>2. {call'.hash, call'.original} \subseteq seen' \cup {NoMessage}
    BY <1>3, <1>6, <2>1
  <2>3. AcceptedIsSeen'
    BY <1>1, <1>3, <2>2 DEF IngressInv, AcceptedIsSeen
  <2>4. call.original # m
    BY <1>1, <1>2, <2>1
  <2>5. call.original # NoMessage => call.original \in Messages
    BY <2>1 DEF IngressInv, IngressTyped
  <2>6. OriginalIsNeverAnUpdate'
    BY <1>6, <2>4, <2>5 DEF IngressInv, OriginalIsNeverAnUpdate
  <2> QED BY <2>3, <2>6
<1> QED BY <1>1, <1>2, <1>3, <1>5, <1>6

\* A writer that moves on leaves the others where they are.
LEMMA GoStep ==
  ASSUME IngressTyped, NEW d \in Deliveries, NEW pc \in {"handOff", "answered"}, Go(d, pc)
  PROVE  /\ ingest' \in [Deliveries -> IngestType] /\ ingest'[d].pc = pc
         /\ \A e \in Deliveries \ {d} : ingest'[e] = ingest[e]
<1>1. ingest \in [Deliveries -> IngestType] /\ ingest' = [ingest EXCEPT ![d].pc = pc]
  BY DEF IngressTyped, Go
<1>2. [ingest[d] EXCEPT !.pc = pc] \in IngestType
  BY <1>1 DEF IngestType
<1>3. ingest'[d] = [ingest[d] EXCEPT !.pc = pc]
  BY <1>1
<1>4. ingest'[d].pc = pc
  BY <1>1, <1>3 DEF IngestType
<1> QED BY <1>1, <1>2, <1>4

\* A message from before the last update is history: the call stays as it is.
LEMMA WriteHistoryKeeps ==
  ASSUME IngressInv, NEW d \in Deliveries, WriteHistory(d)
  PROVE  IngressInv'
<1> DEFINE m == ContentOf[d]
           u == [updates[m] EXCEPT !.state = "history"]
<1>1. m \in Messages /\ updates[m] \in UpdateType
  BY CadConstants DEF IngressInv, IngressTyped
<1>2. /\ u \in UpdateType /\ u.state = "history"
  BY <1>1 DEF UpdateType
<1>3. updates' = [updates EXCEPT ![m] = u]
  BY <1>1 DEF WriteHistory
<1> HIDE DEF u
<1>4. /\ ingest[d].pc = "write" /\ ~Known(d) /\ Accept(d) /\ Go(d, "answered")
      /\ call' = call /\ dispatch' = dispatch /\ fan' = fan
  BY DEF WriteHistory, fanOutVars
<1>5. /\ updates[m].state = "none" /\ updates' \in [Messages -> UpdateType] /\ updates'[m] = u
      /\ \A v \in Messages \ {m} : updates'[v] = updates[v]
      /\ seen' \subseteq Messages /\ markers' \subseteq Tokens
      /\ ingest' \in [Deliveries -> IngestType] /\ ingest'[d].pc = "answered"
      /\ \A e \in Deliveries \ {d} : ingest'[e] = ingest[e]
      /\ NothingBeforeCreate' /\ AcceptedIsSeen' /\ OriginalIsNeverAnUpdate'
  <2>1. /\ ingest' \in [Deliveries -> IngestType] /\ ingest'[d].pc = "answered"
        /\ \A e \in Deliveries \ {d} : ingest'[e] = ingest[e]
    BY <1>4, GoStep DEF IngressInv
  <2>2. /\ updates' \in [Messages -> UpdateType] /\ updates'[m] = u
        /\ \A v \in Messages \ {m} : updates'[v] = updates[v]
    BY <1>1, <1>2, <1>3 DEF IngressInv, IngressTyped
  <2>3. updates'[m].state # "none"
    BY <1>2, <2>2
  <2> QED BY <1>4, <2>1, <2>2, <2>3, RecordKeeps
<1>6. Recorded' = Recorded /\ \A v \in Recorded : updates'[v] = updates[v]
  BY <1>1, <1>2, <1>5 DEF Recorded
<1>7. IngressTyped'
  BY <1>4, <1>5 DEF IngressInv, IngressTyped
<1>8. ReadsAreCurrent'
  BY <1>4, <1>5 DEF IngressInv, ReadsAreCurrent, Current
<1>9. TimeIsTheNewest'
  BY <1>4, <1>6 DEF IngressInv, TimeIsTheNewest
<1>10. CallShowsItsLatestMessage'
  BY <1>4, <1>6 DEF IngressInv, CallShowsItsLatestMessage
<1> QED BY <1>5, <1>7, <1>8, <1>9, <1>10 DEF IngressInv

\* An update is written over the very METADATA it read, and is not older than what it shows.
LEMMA WriteUpdateKeeps ==
  ASSUME FInv, IngressInv, NEW d \in Deliveries, WriteUpdate(d)
  PROVE  IngressInv'
<1> DEFINE m == ContentOf[d]
<1>1. m \in Messages /\ TimeOf[m] \in Nat /\ TimeOf \in [Messages -> Nat]
  BY CadConstants
<1>2. /\ ingest[d].pc = "write" /\ ~Known(d) /\ Accept(d) /\ MetadataAsRead(d)
      /\ fan' = fan
      /\ call' = [text |-> IF Changes(d) THEN TextOf[m] ELSE call.text,
                  time |-> IF TimeOf[m] # 0 THEN TimeOf[m] ELSE call.time,
                  hash |-> m, original |-> call.original]
      /\ dispatch' = [dispatch EXCEPT !.revision = @ + 1]
  BY DEF WriteUpdate, FanOutRest
<1>3. dispatch.revision \in Nat /\ dispatch'.revision = dispatch.revision + 1
  BY <1>2 DEF FInv, FanOutTypeOK
<1>4. PICK u \in UpdateType :
          /\ updates' = [updates EXCEPT ![m] = u]
          /\ u.state \in {"applied", "unchanged"} /\ u.revision = dispatch.revision + 1
  <2> DEFINE new == [state |-> IF Changes(d) THEN "applied" ELSE "unchanged",
                     revision |-> dispatch'.revision, notified |-> ~Changes(d)]
  <2>1. (~Changes(d)) \in BOOLEAN
    BY DEF Changes
  <2>2. new \in UpdateType /\ new.state \in {"applied", "unchanged"}
    BY <1>3, <2>1 DEF UpdateType
  <2>3. updates' = [updates EXCEPT ![m] = new] /\ new.revision = dispatch.revision + 1
    BY <1>3 DEF WriteUpdate
  <2> HIDE DEF new
  <2> QED BY <2>2, <2>3
<1>5. PICK pc \in {"handOff", "answered"} : Go(d, pc)
  BY DEF WriteUpdate, Go
<1>6. /\ updates[m].state = "none" /\ updates' \in [Messages -> UpdateType] /\ updates'[m] = u
      /\ \A v \in Messages \ {m} : updates'[v] = updates[v]
      /\ seen' \subseteq Messages /\ markers' \subseteq Tokens
      /\ ingest' \in [Deliveries -> IngestType] /\ ingest'[d].pc = pc
      /\ \A e \in Deliveries \ {d} : ingest'[e] = ingest[e]
      /\ NothingBeforeCreate'
      /\ call'.hash \in {call.hash, m} /\ call'.original = call.original =>
            AcceptedIsSeen' /\ OriginalIsNeverAnUpdate'
  <2>1. /\ ingest' \in [Deliveries -> IngestType] /\ ingest'[d].pc = pc
        /\ \A e \in Deliveries \ {d} : ingest'[e] = ingest[e]
    BY <1>5, GoStep DEF IngressInv
  <2>2. /\ updates' \in [Messages -> UpdateType] /\ updates'[m] = u
        /\ \A v \in Messages \ {m} : updates'[v] = updates[v]
    BY <1>1, <1>4 DEF IngressInv, IngressTyped
  <2>3. updates'[m].state # "none" /\ ingest'[d].pc \in {"handOff", "answered"} /\ fan'.pc = fan.pc
    BY <1>2, <1>4, <1>5, <2>1, <2>2
  <2> QED BY <1>2, <2>1, <2>2, <2>3, RecordKeeps
<1>7. AcceptedIsSeen' /\ OriginalIsNeverAnUpdate'
  BY <1>2, <1>6
<1>8. Recorded' = Recorded \cup {m} /\ m \notin Recorded
  BY <1>1, <1>4, <1>6 DEF Recorded
<1>9. call \in CallType /\ ingest[d] \in IngestType
  BY DEF IngressInv, IngressTyped
<1>10. call'.text = TextOf[m]
  <2>1. CASE Changes(d)
    BY <1>2, <2>1
  <2>2. CASE ~Changes(d)
    <3>1. ingest[d].read.text = call.text
      BY <1>2 DEF MetadataAsRead, IngressInv, ReadsAreCurrent, Current
    <3> QED BY <1>2, <2>2, <3>1 DEF Changes
  <2> QED BY <2>1, <2>2
<1>11. /\ call'.time \in Nat /\ call.time <= call'.time /\ TimeOf[m] <= call'.time
       /\ TimeOf[m] # 0 => call.time <= TimeOf[m]
  <2>1. call.time \in Nat
    BY <1>9 DEF CallType
  <2>2. call'.time = IF TimeOf[m] # 0 THEN TimeOf[m] ELSE call.time
    BY <1>2
  <2>3. TimeOf[m] = 0 \/ call.time = 0 \/ call.time <= TimeOf[m]
    BY <1>2 DEF MetadataAsRead
  <2> QED BY <1>1, <2>1, <2>2, <2>3
<1>12. call' \in CallType
  BY <1>1, <1>2, <1>9, <1>10, <1>11 DEF CallType
<1>13. IngressTyped'
  BY <1>6, <1>12 DEF IngressInv, IngressTyped
<1>14. ReadsAreCurrent'
  <2> SUFFICES ASSUME NEW e \in Deliveries PROVE Current(ingest[e])'
    BY DEF ReadsAreCurrent
  <2>1. CASE e = d
    BY <1>5, <1>6, <2>1 DEF Current
  <2>2. CASE e # d
    <3>1. ingest'[e] = ingest[e] /\ ingest[e].read.revision \in Nat
      BY <1>6, <2>2 DEF IngressInv, IngressTyped, IngestType
    <3>2. Current(ingest[e])
      BY DEF IngressInv, ReadsAreCurrent
    <3> QED BY <1>3, <3>1, <3>2 DEF Current
  <2> QED BY <2>1, <2>2
<1>15. TimeIsTheNewest'
  <2>1. \A v \in Recorded : TimeOf[v] \in Nat /\ TimeOf[v] <= call.time
    BY <1>1 DEF IngressInv, TimeIsTheNewest, Recorded
  <2>2. call.time \in Nat
    BY <1>9 DEF CallType
  <2> QED BY <1>1, <1>8, <1>11, <2>1, <2>2 DEF TimeIsTheNewest
<1>16. CallShowsItsLatestMessage'
  <2>1. \A v \in Recorded :
           /\ updates'[v] = updates[v]
           /\ updates[v].revision \in 1 .. dispatch.revision
           /\ TimeOf[v] <= call.time
           /\ TimeOf[v] \in Nat
    BY <1>1, <1>6, <1>8 DEF IngressInv, CallShowsItsLatestMessage, Recorded, TimeIsTheNewest
  <2>2. updates'[m].revision = dispatch'.revision
    BY <1>3, <1>4, <1>6
  <2>3. call.time \in Nat
    BY <1>9 DEF CallType
  <2>4. \A v \in Recorded : TimeOf[v] # 0 /\ TimeOf[m] # 0 => TimeOf[v] <= TimeOf[m]
    BY <1>1, <1>11, <2>1, <2>3
  <2>5. \A v \in Recorded : \A w \in Recorded \ {v} :
           /\ updates[v].revision # updates[w].revision
           /\ updates[v].revision < updates[w].revision /\ TimeOf[v] # 0 /\ TimeOf[w] # 0 =>
                 TimeOf[v] <= TimeOf[w]
    BY DEF IngressInv, CallShowsItsLatestMessage
  <2> QED BY <1>3, <1>8, <1>10, <2>1, <2>2, <2>4, <2>5 DEF CallShowsItsLatestMessage
<1> QED BY <1>6, <1>7, <1>13, <1>14, <1>15, <1>16 DEF IngressInv

\* The fan-out and the notifier touch neither the call nor the writers.
LEMMA OthersKeepIngress ==
  ASSUME IngressInv, call' = call, seen' = seen, markers' = markers, ingest' = ingest,
         dispatch'.revision = dispatch.revision, fan'.pc = "waiting" => fan.pc = "waiting",
         updates' \in [Messages -> UpdateType],
         \A m \in Messages :
            /\ updates'[m].state = updates[m].state
            /\ updates'[m].revision = updates[m].revision
  PROVE  IngressInv'
<1>1. Recorded' = Recorded
  BY DEF Recorded
<1>2. \A m \in Recorded : m \in Messages
  BY DEF Recorded
<1>3. IngressTyped'
  BY DEF IngressInv, IngressTyped
<1>4. NothingBeforeCreate'
  BY DEF IngressInv, NothingBeforeCreate
<1>5. AcceptedIsSeen'
  BY DEF IngressInv, AcceptedIsSeen
<1>6. ReadsAreCurrent'
  BY DEF IngressInv, ReadsAreCurrent, Current
<1>7. TimeIsTheNewest' /\ CallShowsItsLatestMessage'
  BY <1>1, <1>2 DEF IngressInv, TimeIsTheNewest, CallShowsItsLatestMessage
<1>8. OriginalIsNeverAnUpdate'
  <2>1. call.original # NoMessage => call.original \in Messages
    BY DEF IngressInv, AcceptedIsSeen, IngressTyped
  <2> QED BY <2>1 DEF IngressInv, OriginalIsNeverAnUpdate
<1> QED BY <1>3, <1>4, <1>5, <1>6, <1>7, <1>8 DEF IngressInv

\* What a step of the fan-out leaves of the dispatch for the ingress and the notifier.
LEMMA FanOutLeaves ==
  ASSUME FInv, FanOutStep \/ FanOutFault \/ \E e \in Members : ChangeEligibility(e)
  PROVE  /\ dispatch'.revision = dispatch.revision
         /\ dispatch.completed => dispatch'.completed
         /\ fan'.pc = "waiting" => fan.pc = "waiting"
<1>1. /\ dispatch \in [attempts : 0 .. MaxAttempts, completed : BOOLEAN, revision : Nat]
      /\ fan \in FanType
  BY DEF FInv, FanOutTypeOK
<1>2. ASSUME NEW m \in Members, NEW s \in Tasks, Task(m, s)
      PROVE  fan'.pc = fan.pc
  BY <1>1, <1>2, TaskStep
<1>3. {"done", "publish", "mark", "failed"} \subseteq Tasks
  BY DEF Tasks
<1>4. CASE \E m \in Members : ClaimReceipt(m) \/ PublishPage(m) \/ MarkSent(m) \/ TaskFails(m)
  BY <1>2, <1>3, <1>4 DEF ClaimReceipt, PublishPage, MarkSent, TaskFails
<1>5. CASE \E m \in Members : ScheduleMember(m) \/ ChangeEligibility(m)
  BY <1>1, <1>5 DEF ScheduleMember, ChangeEligibility, FanType
<1>6. CASE ResolveAudience \/ StartAttempt
  BY <1>1, <1>6 DEF ResolveAudience, StartAttempt, FanType
<1>7. CASE PagesSettled
  BY <1>1, <1>7 DEF PagesSettled, FanType
<1>8. CASE ScheduleLadder \/ FanOutThrows
  BY <1>1, <1>8, RetriedStep DEF ScheduleLadder, FanOutThrows, FanType
<1> QED BY <1>4, <1>5, <1>6, <1>7, <1>8 DEF FanOutStep, FanOutFault

\* An update of the call leaves the fan-out as it is.
LEMMA UpdateKeepsFanOut ==
  ASSUME FInv, NEW d \in Deliveries, WriteUpdate(d)
  PROVE  FInv'
<1>1. /\ dispatch \in [attempts : 0 .. MaxAttempts, completed : BOOLEAN, revision : Nat]
      /\ dispatch' = [dispatch EXCEPT !.revision = @ + 1]
      /\ UNCHANGED FanOutRest
  BY DEF WriteUpdate, FInv, FanOutTypeOK
<1>2. /\ dispatch' \in [attempts : 0 .. MaxAttempts, completed : BOOLEAN, revision : Nat]
      /\ dispatch'.attempts = dispatch.attempts
  BY <1>1
<1>3. FanOutTypeOK'
  BY <1>1, <1>2 DEF FInv, FanOutTypeOK, FanOutRest
<1> QED BY <1>1, <1>2, <1>3 DEF FanOutRest, FInv, AttemptsCounted, TasksArePaging,
       FirstPassIsFresh, PageBeforeReceipt, TasksOfTheAudience, ScheduledSoFar,
       SuccessMeansComplete, PreemptionAlarmIsTrue

LEMMA FanOutUnchanged ==
  ASSUME FInv, UNCHANGED fanOutVars
  PROVE  FInv'
BY FanOutInductive

-----------------------------------------------------------------------------
(* The owed pushes.                                                        *)

NotifierType ==
    [pc : {"idle", "update", "dispatch", "receipts", "notify", "stamp", "clear"},
     msg : Messages \cup {NoMessage}, attempt : 0 .. MaxInvokes, revision : Nat,
     todo : SUBSET Members, failed : BOOLEAN]

NoticeType == [revision : Nat \cup {NoPage}, sent : BOOLEAN]

NotifierTyped ==
    /\ pending \subseteq Messages /\ queued \subseteq Messages
    /\ notifier \in [Notifiers -> NotifierType]
    /\ notices \in [Messages -> [Members -> NoticeType]]
    /\ faults \in 0 .. MaxFaults

\* Whatever is pending, queued, handed off or processed is an update that changed the call.
OwingInv ==
    /\ \A m \in pending \cup queued : updates[m].state = "applied"
    /\ \A d \in Deliveries : ingest[d].pc = "handOff" => updates[ContentOf[d]].state = "applied"
    /\ \A n \in Notifiers :
          /\ notifier[n].pc # "idle" =>
                notifier[n].msg \in Messages /\ updates[notifier[n].msg].state = "applied"
          /\ notifier[n].pc = "clear" => updates[notifier[n].msg].notified

NoticeInv == NotifierTyped /\ OwingInv /\ OwedPushIsPending

\* The ingress and the fan-out add owed updates with their pending items, and drop none.
LEMMA OthersKeepNotices ==
  ASSUME NoticeInv, notifier' = notifier, notices' = notices, faults' \in 0 .. MaxFaults,
         pending' \subseteq Messages, queued' \subseteq queued \cup pending',
         pending \subseteq pending',
         \A m \in Messages : updates[m].state = "applied" => updates'[m] = updates[m],
         \A m \in Messages :
            updates[m].state # "applied" /\ updates'[m].state = "applied" => m \in pending',
         \A m \in pending' : updates'[m].state = "applied",
         \A d \in Deliveries :
            ingest'[d].pc = "handOff" => updates'[ContentOf[d]].state = "applied"
  PROVE  NoticeInv'
<1>1. queued' \subseteq Messages
  BY DEF NoticeInv, NotifierTyped
<1>2. NotifierTyped'
  BY <1>1 DEF NoticeInv, NotifierTyped
<1>3. \A m \in pending' \cup queued' : updates'[m].state = "applied"
  BY DEF NoticeInv, OwingInv, NotifierTyped
<1>4. OwingInv'
  BY <1>3 DEF NoticeInv, OwingInv
<1>5. OwedPushIsPending'
  BY DEF NoticeInv, OwedPushIsPending, OwesPush
<1> QED BY <1>2, <1>4, <1>5 DEF NoticeInv

LEMMA FaultTyped ==
  ASSUME NoticeInv, Fault
  PROVE  faults' \in 0 .. MaxFaults
<1>1. faults \in 0 .. MaxFaults /\ MaxFaults \in Nat
  BY CadConstants DEF NoticeInv, NotifierTyped
<1> QED BY <1>1 DEF Fault

\* A step of the ingress that records nothing hands off only what owes its push.
LEMMA HandsOffWhatIsOwed ==
  ASSUME IngressInv, NEW d \in Deliveries,
         \/ CheckReplay(d) \/ CreateCancelled(d) \/ ReadCall(d) \/ WriteCancelled(d)
         \/ CheckNeedsNotice(d) \/ HandOff(d) \/ IngestDies(d)
  PROVE  \A e \in Deliveries :
            ingest'[e].pc = "handOff" =>
               ingest[e].pc = "handOff" \/ UpdateNeedsNotice(ContentOf[e])
<1>1. ingest \in [Deliveries -> IngestType]
  BY DEF IngressInv, IngressTyped
<1>2. ASSUME NEW pc, Go(d, pc), pc = "handOff" => UpdateNeedsNotice(ContentOf[d])
      PROVE  \A e \in Deliveries :
                ingest'[e].pc = "handOff" =>
                   ingest[e].pc = "handOff" \/ UpdateNeedsNotice(ContentOf[e])
  BY <1>1, <1>2 DEF Go, IngestType
<1>3. CASE CheckReplay(d)
  BY <1>2, <1>3 DEF CheckReplay
<1>4. CASE CreateCancelled(d)
  BY <1>2, <1>4 DEF CreateCancelled
<1>5. CASE CheckNeedsNotice(d)
  BY <1>2, <1>5 DEF CheckNeedsNotice
<1>6. CASE HandOff(d) \/ IngestDies(d)
  BY <1>2, <1>6 DEF HandOff, IngestDies
<1>7. CASE ReadCall(d)
  <2> DEFINE pc == CASE ingest[d].writes = MaxWrites -> "failed"
                     [] call.hash = ContentOf[d]     -> "needs"
                     [] OTHER                        -> "write"
             read == [text |-> call.text, time |-> call.time, hash |-> call.hash,
                      revision |-> dispatch.revision]
  <2>1. pc # "handOff"
    OBVIOUS
  <2>2. ingest' = [ingest EXCEPT ![d].pc = pc, ![d].read = read]
    BY <1>7 DEF ReadCall
  <2> HIDE DEF pc, read
  <2> QED BY <1>1, <2>1, <2>2 DEF IngestType
<1>8. CASE WriteCancelled(d)
  <2>1. CASE Go(d, "needs")
    BY <1>2, <2>1
  <2>2. CASE ingest' = [ingest EXCEPT ![d].pc = "read", ![d].writes = @ + 1]
    BY <1>1, <2>2 DEF IngestType
  <2> QED BY <1>8, <2>1, <2>2 DEF WriteCancelled, AfterRace
<1> QED BY <1>3, <1>4, <1>5, <1>6, <1>7, <1>8

LEMMA ReadingKeepsNotices ==
  ASSUME IngressInv, NoticeInv, NEW d \in Deliveries,
         \/ CheckReplay(d) \/ CreateCancelled(d) \/ ReadCall(d) \/ WriteCancelled(d)
         \/ CheckNeedsNotice(d) \/ HandOff(d) \/ IngestDies(d)
  PROVE  NoticeInv'
<1>1. \A e \in Deliveries :
         ingest'[e].pc = "handOff" => updates[ContentOf[e]].state = "applied"
  BY HandsOffWhatIsOwed DEF UpdateNeedsNotice, NoticeInv, OwingInv
<1>2. faults' \in 0 .. MaxFaults
  BY FaultTyped DEF CheckReplay, CreateCancelled, ReadCall, WriteCancelled, CheckNeedsNotice,
                    HandOff, NotifyUpdate, IngestDies, NoticeInv, NotifierTyped
<1>3. queued' \subseteq queued \cup {m \in Messages : updates[m].state = "applied"}
  <2>1. CASE HandOff(d)
    <3>1. ContentOf[d] \in Messages /\ updates[ContentOf[d]].state = "applied"
      BY <2>1, CadConstants DEF HandOff, NoticeInv, OwingInv
    <3> QED BY <2>1, <3>1 DEF HandOff, NotifyUpdate
  <2>2. CASE queued' = queued
    BY <2>2
  <2> QED BY <2>1, <2>2 DEF CheckReplay, CreateCancelled, ReadCall, WriteCancelled,
                            CheckNeedsNotice, IngestDies
<1>4. /\ notifier' = notifier /\ notices' = notices /\ pending' = pending /\ updates' = updates
  BY DEF CheckReplay, CreateCancelled, ReadCall, WriteCancelled, CheckNeedsNotice, HandOff,
         IngestDies
<1>5. NotifierTyped'
  BY <1>2, <1>3, <1>4 DEF NoticeInv, NotifierTyped
<1>6. OwingInv'
  BY <1>1, <1>3, <1>4 DEF NoticeInv, OwingInv
<1>7. OwedPushIsPending'
  BY <1>4 DEF NoticeInv, OwedPushIsPending, OwesPush
<1> QED BY <1>5, <1>6, <1>7 DEF NoticeInv

\* A create and a message kept as history owe nothing.
LEMMA QuietKeepsNotices ==
  ASSUME IngressInv, NoticeInv, NEW d \in Deliveries, Create(d) \/ WriteHistory(d)
  PROVE  NoticeInv'
<1> DEFINE m == ContentOf[d]
<1>1. /\ updates \in [Messages -> UpdateType] /\ m \in Messages
      /\ ingest \in [Deliveries -> IngestType]
  BY CadConstants DEF IngressInv, IngressTyped
<1>2. \/ updates' = updates
      \/ /\ updates[m].state = "none"
         /\ updates' = [updates EXCEPT ![m].state = "history"]
  BY DEF Create, WriteHistory, Known
<1>3. \A v \in Messages :
         /\ updates[v].state = "applied" => updates'[v] = updates[v]
         /\ updates'[v].state = "applied" => updates[v].state = "applied"
  BY <1>1, <1>2 DEF UpdateType
<1>4. /\ notifier' = notifier /\ notices' = notices /\ pending' = pending /\ queued' = queued
      /\ faults' = faults /\ ingest' = [ingest EXCEPT ![d].pc = "answered"]
  BY DEF Create, WriteHistory, Go
<1>5. \A e \in Deliveries : ingest'[e].pc = "handOff" => ingest[e].pc = "handOff"
  BY <1>1, <1>4 DEF IngestType
<1>6. \A e \in Deliveries : ingest'[e].pc = "handOff" => updates'[ContentOf[e]].state = "applied"
  <2>1. \A e \in Deliveries : ContentOf[e] \in Messages
    BY CadConstants
  <2>2. \A e \in Deliveries : ingest[e].pc = "handOff" => updates[ContentOf[e]].state = "applied"
    BY DEF NoticeInv, OwingInv
  <2> QED BY <1>3, <1>5, <2>1, <2>2
<1>7. \A v \in pending' : updates'[v].state = "applied"
  BY <1>3, <1>4 DEF NoticeInv, OwingInv, NotifierTyped
<1>8. faults' \in 0 .. MaxFaults /\ pending' \subseteq Messages
  BY <1>4 DEF NoticeInv, NotifierTyped
<1> QED BY <1>3, <1>4, <1>6, <1>7, <1>8, OthersKeepNotices

\* An update that changes the call is recorded with its pending item.
LEMMA WriteKeepsNotices ==
  ASSUME FInv, IngressInv, NoticeInv, NEW d \in Deliveries, WriteUpdate(d)
  PROVE  NoticeInv'
<1> DEFINE m == ContentOf[d]
<1>1. /\ updates \in [Messages -> UpdateType] /\ m \in Messages
      /\ ingest \in [Deliveries -> IngestType]
  BY CadConstants DEF IngressInv, IngressTyped
<1>2. /\ updates[m].state = "none"
      /\ \A v \in Messages \ {m} : updates'[v] = updates[v]
      /\ updates'[m].state = IF Changes(d) THEN "applied" ELSE "unchanged"
  BY <1>1 DEF WriteUpdate, Known
<1>3. /\ notifier' = notifier /\ notices' = notices /\ queued' = queued /\ faults' = faults
      /\ pending' = IF Changes(d) THEN pending \cup {m} ELSE pending
      /\ ingest' = [ingest EXCEPT ![d].pc = IF Changes(d) THEN "handOff" ELSE "answered"]
  BY DEF WriteUpdate, PendingOnWrite, Go
<1>4. \A v \in Messages : updates[v].state = "applied" => updates'[v] = updates[v]
  BY <1>2
<1>5. \A v \in Messages :
         updates[v].state # "applied" /\ updates'[v].state = "applied" => v \in pending'
  BY <1>2, <1>3
<1>6. \A v \in pending' : updates'[v].state = "applied"
  BY <1>1, <1>2, <1>3 DEF NoticeInv, OwingInv, NotifierTyped
<1>7. \A e \in Deliveries : ingest'[e].pc = "handOff" => updates'[ContentOf[e]].state = "applied"
  <2> SUFFICES ASSUME NEW e \in Deliveries, ingest'[e].pc = "handOff"
               PROVE  updates'[ContentOf[e]].state = "applied"
    OBVIOUS
  <2>1. ContentOf[e] \in Messages
    BY CadConstants
  <2>2. CASE e = d
    <3>1. Changes(d)
      BY <1>1, <1>3, <2>2 DEF IngestType
    <3> QED BY <1>2, <2>2, <3>1
  <2>3. CASE e # d
    <3>1. ingest[e].pc = "handOff"
      BY <1>1, <1>3, <2>3
    <3>2. updates[ContentOf[e]].state = "applied"
      BY <3>1 DEF NoticeInv, OwingInv
    <3> QED BY <1>4, <2>1, <3>2
  <2> QED BY <2>2, <2>3
<1>8. faults' \in 0 .. MaxFaults /\ pending' \subseteq Messages /\ pending \subseteq pending'
  BY <1>1, <1>3 DEF NoticeInv, NotifierTyped
<1> QED BY <1>3, <1>4, <1>5, <1>6, <1>7, <1>8, OthersKeepNotices

\* A notifier that moves on with the update it has.
LEMMA NotifierKeeps ==
  ASSUME NoticeInv, NEW n \in Notifiers, NEW r \in NotifierType,
         notifier' = [notifier EXCEPT ![n] = r],
         r.pc # "idle" => r.msg \in Messages /\ updates[r.msg].state = "applied",
         r.pc = "clear" => updates[r.msg].notified,
         notices' \in [Messages -> [Members -> NoticeType]],
         faults' \in 0 .. MaxFaults, updates' = updates, ingest' = ingest, pending' = pending,
         queued' \subseteq queued
  PROVE  NoticeInv'
<1>1. /\ notifier' \in [Notifiers -> NotifierType] /\ notifier'[n] = r
      /\ \A o \in Notifiers \ {n} : notifier'[o] = notifier[o]
  BY DEF NoticeInv, NotifierTyped
<1>2. NotifierTyped'
  BY <1>1 DEF NoticeInv, NotifierTyped
<1>3. OwingInv'
  BY <1>1 DEF NoticeInv, OwingInv
<1>4. OwedPushIsPending'
  BY DEF NoticeInv, OwedPushIsPending, OwesPush
<1> QED BY <1>2, <1>3, <1>4 DEF NoticeInv

LEMMA IdleTyped ==
  /\ Idle \in NotifierType /\ Idle.pc = "idle"
  /\ \A m \in Messages : [Idle EXCEPT !.pc = "update", !.msg = m, !.attempt = 1] \in NotifierType
<1>1. MaxInvokes \in Nat \ {0}
  BY CadConstants
<1>2. 0 \in 0 .. MaxInvokes /\ 1 \in 0 .. MaxInvokes
  BY <1>1
<1> QED BY <1>2 DEF Idle, NotifierType

\* An event that fails is retried from the start, or leaves its invocation idle.
LEMMA ThrowStep ==
  ASSUME NotifierTyped, NEW n \in Notifiers, notifier' = NotifierThrows(n)
  PROVE  /\ notifier'[n] \in NotifierType
         /\ notifier'[n].pc \in {"idle", "update"}
         /\ notifier'[n].pc # "idle" => notifier'[n].msg = notifier[n].msg
         /\ notifier' = [notifier EXCEPT ![n] = notifier'[n]]
<1>1. /\ notifier \in [Notifiers -> NotifierType] /\ MaxInvokes \in Nat
      /\ notifier[n].attempt \in 0 .. MaxInvokes
  BY CadConstants DEF NotifierTyped, NotifierType
<1>2. CASE notifier[n].attempt < MaxInvokes
  <2> DEFINE r == [notifier[n] EXCEPT !.pc = "update", !.attempt = @ + 1, !.todo = {},
                                      !.failed = FALSE]
  <2>1. notifier[n].attempt + 1 \in 0 .. MaxInvokes
    BY <1>1, <1>2
  <2>2. notifier' = [notifier EXCEPT ![n] = r]
    BY <1>1, <1>2 DEF NotifierThrows
  <2>3. r \in NotifierType /\ r.pc = "update" /\ r.msg = notifier[n].msg
    BY <1>1, <2>1 DEF NotifierType
  <2> HIDE DEF r
  <2> QED BY <1>1, <2>2, <2>3
<1>3. CASE ~(notifier[n].attempt < MaxInvokes)
  <2>1. notifier' = [notifier EXCEPT ![n] = Idle]
    BY <1>3 DEF NotifierThrows
  <2>2. Idle \in NotifierType /\ Idle.pc = "idle"
    BY IdleTyped
  <2> QED BY <1>1, <2>1, <2>2
<1> QED BY <1>2, <1>3

LEMMA ThrowKeeps ==
  ASSUME NoticeInv, NEW n \in Notifiers, notifier[n].pc # "idle",
         notifier' = NotifierThrows(n), NotifierOnly, faults' \in 0 .. MaxFaults
  PROVE  NoticeInv'
<1>1. /\ notifier'[n] \in NotifierType /\ notifier'[n].pc \in {"idle", "update"}
      /\ notifier'[n].pc # "idle" => notifier'[n].msg = notifier[n].msg
      /\ notifier' = [notifier EXCEPT ![n] = notifier'[n]]
  BY ThrowStep DEF NoticeInv
<1>2. notifier[n].msg \in Messages /\ updates[notifier[n].msg].state = "applied"
  BY DEF NoticeInv, OwingInv
<1>3. PICK r \in NotifierType : r = notifier'[n]
  BY <1>1
<1>4. /\ updates' = updates /\ ingest' = ingest /\ pending' = pending /\ queued' = queued
      /\ notices' = notices
  BY DEF NotifierOnly
<1>5. notices' \in [Messages -> [Members -> NoticeType]]
  BY <1>4 DEF NoticeInv, NotifierTyped
<1> QED BY <1>1, <1>2, <1>3, <1>4, <1>5, NotifierKeeps

LEMMA NoticeTyped ==
  ASSUME NEW ns \in [Messages -> [Members -> NoticeType]], NEW m \in Messages, NEW e \in Members,
         NEW rev \in Nat \cup {NoPage}
  PROVE  /\ [ns EXCEPT ![m][e].revision = rev] \in [Messages -> [Members -> NoticeType]]
         /\ [ns EXCEPT ![m][e].sent = TRUE] \in [Messages -> [Members -> NoticeType]]
<1>1. ns[m][e] \in NoticeType
  OBVIOUS
<1>2. [ns[m][e] EXCEPT !.revision = rev] \in NoticeType
  BY <1>1 DEF NoticeType
<1>3. [ns[m][e] EXCEPT !.sent = TRUE] \in NoticeType
  BY <1>1 DEF NoticeType
<1>4. \A x \in NoticeType : [ns EXCEPT ![m][e] = x] \in [Messages -> [Members -> NoticeType]]
  OBVIOUS
<1>5. /\ [ns EXCEPT ![m][e].revision = rev] =
           [ns EXCEPT ![m][e] = [ns[m][e] EXCEPT !.revision = rev]]
      /\ [ns EXCEPT ![m][e].sent = TRUE] = [ns EXCEPT ![m][e] = [ns[m][e] EXCEPT !.sent = TRUE]]
  OBVIOUS
<1> QED BY <1>2, <1>3, <1>4, <1>5

\* Taking an event, reading and paging change no update.
LEMMA NotifyKeepsNotices ==
  ASSUME FInv, NoticeInv, NEW n \in Notifiers,
         \/ ReadUpdate(n) \/ ReadDispatch(n) \/ ReadReceipts(n) \/ Settle(n) \/ NotifierDies(n)
         \/ \E e \in Members : NotifyMember(n, e)
         \/ \E m \in Messages : Invoke(n, m)
  PROVE  NoticeInv'
<1> DEFINE r == notifier[n]
<1>1. /\ notifier \in [Notifiers -> NotifierType] /\ r \in NotifierType
      /\ faults \in 0 .. MaxFaults
      /\ notices \in [Messages -> [Members -> NoticeType]]
  BY DEF NoticeInv, NotifierTyped
<1>2. r.pc # "idle" => r.msg \in Messages /\ updates[r.msg].state = "applied"
  BY DEF NoticeInv, OwingInv
<1>3. ASSUME NEW new \in NotifierType, notifier' = [notifier EXCEPT ![n] = new], new.pc # "clear",
             new.msg = r.msg, r.pc # "idle", NotifierOnly, UNCHANGED faults
      PROVE  NoticeInv'
  BY <1>1, <1>2, <1>3, NotifierKeeps DEF NotifierOnly
<1>4. ASSUME r.pc # "idle", notifier' = NotifierThrows(n), NotifierOnly, UNCHANGED faults
      PROVE  NoticeInv'
  BY <1>1, <1>4, ThrowKeeps
<1>5. CASE ReadUpdate(n)
  <2> DEFINE pc == IF updates[r.msg].notified THEN "stamp" ELSE "dispatch"
             new == [r EXCEPT !.pc = pc]
  <2>1. notifier' = [notifier EXCEPT ![n] = new] /\ r.pc = "update"
    BY <1>1, <1>5 DEF ReadUpdate
  <2>2. new \in NotifierType /\ new.msg = r.msg /\ new.pc # "clear"
    BY <1>1 DEF NotifierType
  <2> HIDE DEF new
  <2>3. NotifierOnly /\ UNCHANGED faults
    BY <1>5 DEF ReadUpdate
  <2> QED BY <1>3, <2>1, <2>2, <2>3
<1>6. CASE ReadDispatch(n)
  <2> DEFINE new == [r EXCEPT !.pc = "receipts", !.revision = dispatch.revision]
  <2>1. new \in NotifierType /\ new.msg = r.msg /\ new.pc = "receipts"
    BY <1>1, RevisionTyped DEF NotifierType
  <2>2. /\ r.pc # "idle" /\ NotifierOnly /\ UNCHANGED faults
        /\ notifier' = NotifierThrows(n) \/ notifier' = [notifier EXCEPT ![n] = new]
    BY <1>1, <1>6 DEF ReadDispatch
  <2> HIDE DEF new
  <2> QED BY <1>3, <1>4, <2>1, <2>2
<1>7. CASE ReadReceipts(n)
  <2> DEFINE todo == {e \in Members : receipt[e] # "none"}
             new == [r EXCEPT !.pc = "notify", !.todo = todo]
  <2>1. new \in NotifierType /\ new.msg = r.msg /\ new.pc = "notify"
    BY <1>1 DEF NotifierType
  <2>2. notifier' = [notifier EXCEPT ![n] = new]
    BY <1>1, <1>7 DEF ReadReceipts
  <2>3. r.pc # "idle" /\ NotifierOnly /\ UNCHANGED faults
    BY <1>7 DEF ReadReceipts
  <2> HIDE DEF new
  <2> QED BY <1>3, <2>1, <2>2, <2>3
<1>8. CASE Settle(n)
  <2> DEFINE new == [r EXCEPT !.pc = "stamp"]
  <2>1. new \in NotifierType /\ new.msg = r.msg /\ new.pc = "stamp"
    BY <1>1 DEF NotifierType
  <2>2. /\ r.pc # "idle" /\ NotifierOnly /\ UNCHANGED faults
        /\ notifier' = NotifierThrows(n) \/ notifier' = [notifier EXCEPT ![n] = new]
    BY <1>1, <1>8 DEF Settle
  <2> HIDE DEF new
  <2> QED BY <1>3, <1>4, <2>1, <2>2
<1>9. CASE NotifierDies(n)
  BY <1>1, <1>9, FaultTyped, ThrowKeeps DEF NotifierDies
<1>10. ASSUME NEW e \in Members, NotifyMember(n, e)
       PROVE  NoticeInv'
  <2> DEFINE m == r.msg
             rev == IF notices[m][e].revision = NoPage THEN r.revision ELSE notices[m][e].revision
             todo == r.todo \ {e}
  <2>1. r.pc = "notify" /\ m \in Messages /\ r.revision \in Nat /\ todo \in SUBSET Members
    BY <1>1, <1>2, <1>10 DEF NotifyMember, NotifierType
  <2>2. notices' \in [Messages -> [Members -> NoticeType]]
    <3>1. rev \in Nat \cup {NoPage}
      BY <1>1, <2>1 DEF NoticeType
    <3> DEFINE accepted == [notices EXCEPT ![m][e].revision = rev]
    <3>3. accepted \in [Messages -> [Members -> NoticeType]]
      BY <1>1, <2>1, <3>1, NoticeTyped
    <3>4. [accepted EXCEPT ![m][e].sent = TRUE] \in [Messages -> [Members -> NoticeType]]
      <4> HIDE DEF accepted
      <4> QED BY <2>1, <3>1, <3>3, NoticeTyped
    <3>5. notices' \in {notices, accepted, [accepted EXCEPT ![m][e].sent = TRUE]}
      BY <1>1, <1>10, <2>1 DEF NotifyMember
    <3> HIDE DEF accepted
    <3> QED BY <1>1, <3>3, <3>4, <3>5
  <2>3. faults' \in 0 .. MaxFaults
    BY <1>1, <1>10, FaultTyped DEF NotifyMember
  <2>4. \/ notifier' = [notifier EXCEPT ![n] = [r EXCEPT !.todo = todo]]
        \/ notifier' = [notifier EXCEPT ![n] = [r EXCEPT !.todo = todo, !.failed = TRUE]]
    BY <1>1, <1>10 DEF NotifyMember
  <2>5. /\ [r EXCEPT !.todo = todo] \in NotifierType
        /\ [r EXCEPT !.todo = todo, !.failed = TRUE] \in NotifierType
        /\ [r EXCEPT !.todo = todo].msg = m /\ [r EXCEPT !.todo = todo].pc = "notify"
        /\ [r EXCEPT !.todo = todo, !.failed = TRUE].msg = m
        /\ [r EXCEPT !.todo = todo, !.failed = TRUE].pc = "notify"
    BY <1>1, <2>1 DEF NotifierType
  <2>6. PICK new \in NotifierType :
           notifier' = [notifier EXCEPT ![n] = new] /\ new.msg = m /\ new.pc = "notify"
    BY <2>4, <2>5
  <2>7. updates' = updates /\ ingest' = ingest /\ pending' = pending /\ queued' = queued
    BY <1>10 DEF NotifyMember
  <2> QED BY <1>2, <2>1, <2>2, <2>3, <2>6, <2>7, NotifierKeeps
<1>11. ASSUME NEW m \in Messages, Invoke(n, m)
       PROVE  NoticeInv'
  <2> DEFINE new == [Idle EXCEPT !.pc = "update", !.msg = m, !.attempt = 1]
  <2>1. new \in NotifierType /\ new.msg = m /\ new.pc = "update"
    BY IdleTyped DEF Idle
  <2>2. notifier' = [notifier EXCEPT ![n] = new]
    BY <1>11 DEF Invoke
  <2> HIDE DEF new
  <2>3. updates[m].state = "applied"
    BY <1>11 DEF Invoke, NoticeInv, OwingInv
  <2>4. /\ notices' = notices /\ faults' = faults /\ updates' = updates /\ ingest' = ingest
        /\ pending' = pending /\ queued' \subseteq queued
    BY <1>11 DEF Invoke
  <2> QED BY <1>1, <2>1, <2>2, <2>3, <2>4, NotifierKeeps
<1> QED BY <1>5, <1>6, <1>7, <1>8, <1>9, <1>10, <1>11

\* The update is notified before its pending item goes.
LEMMA StampKeepsNotices ==
  ASSUME IngressInv, NoticeInv, NEW n \in Notifiers, StampNotified(n) \/ ClearPending(n)
  PROVE  NoticeInv'
<1> DEFINE r == notifier[n]
           m == r.msg
<1>1. /\ notifier \in [Notifiers -> NotifierType] /\ r \in NotifierType
      /\ updates \in [Messages -> UpdateType]
  BY DEF NoticeInv, NotifierTyped, IngressInv, IngressTyped
<1>2. /\ r.pc # "idle" /\ m \in Messages /\ updates[m].state = "applied"
      /\ r.pc = "clear" => updates[m].notified
  BY DEF StampNotified, ClearPending, NoticeInv, OwingInv
<1>3. CASE StampNotified(n)
  <2> DEFINE new == [r EXCEPT !.pc = "clear"]
  <2>1. /\ updates' = [updates EXCEPT ![m].notified = TRUE]
        /\ notifier' = [notifier EXCEPT ![n] = new]
        /\ pending' = pending /\ queued' = queued /\ ingest' = ingest /\ notices' = notices
        /\ faults' = faults
    BY <1>1, <1>3 DEF StampNotified
  <2>2. new \in NotifierType /\ new.msg = m /\ new.pc = "clear"
    BY <1>1 DEF NotifierType
  <2> HIDE DEF new
  <2>3. /\ updates'[m].notified = TRUE /\ updates'[m].state = "applied"
        /\ \A v \in Messages \ {m} : updates'[v] = updates[v]
    BY <1>1, <1>2, <2>1 DEF UpdateType
  <2>4. /\ notifier'[n] = new /\ \A o \in Notifiers \ {n} : notifier'[o] = notifier[o]
    BY <1>1, <2>1
  <2>5. NotifierTyped'
    BY <2>1, <2>2 DEF NoticeInv, NotifierTyped
  <2>6. \A d \in Deliveries : ContentOf[d] \in Messages
    BY CadConstants
  <2>7. /\ \A v \in Messages : updates[v].state = "applied" => updates'[v].state = "applied"
        /\ \A v \in Messages : updates[v].notified => updates'[v].notified
    BY <2>3
  <2>8. /\ pending \cup queued \subseteq Messages
        /\ \A v \in pending \cup queued : updates[v].state = "applied"
        /\ \A d \in Deliveries :
              ingest[d].pc = "handOff" => updates[ContentOf[d]].state = "applied"
    BY DEF NoticeInv, OwingInv, NotifierTyped
  <2>9. \A o \in Notifiers :
           /\ notifier'[o].pc # "idle" =>
                 notifier'[o].msg \in Messages /\ updates'[notifier'[o].msg].state = "applied"
           /\ notifier'[o].pc = "clear" => updates'[notifier'[o].msg].notified
    <3> SUFFICES ASSUME NEW o \in Notifiers
                 PROVE  /\ notifier'[o].pc # "idle" =>
                              /\ notifier'[o].msg \in Messages
                              /\ updates'[notifier'[o].msg].state = "applied"
                        /\ notifier'[o].pc = "clear" => updates'[notifier'[o].msg].notified
      OBVIOUS
    <3>1. CASE o = n
      BY <1>2, <2>2, <2>3, <2>4, <3>1
    <3>2. CASE o # n
      <4>1. /\ notifier[o].pc # "idle" =>
                 notifier[o].msg \in Messages /\ updates[notifier[o].msg].state = "applied"
            /\ notifier[o].pc = "clear" => updates[notifier[o].msg].notified
        BY DEF NoticeInv, OwingInv
      <4> QED BY <2>4, <2>7, <3>2, <4>1
    <3> QED BY <3>1, <3>2
  <2>10. OwingInv'
    BY <2>1, <2>6, <2>7, <2>8, <2>9 DEF OwingInv
  <2>11. OwedPushIsPending'
    BY <2>1, <2>3 DEF NoticeInv, OwedPushIsPending, OwesPush
  <2> QED BY <2>5, <2>10, <2>11 DEF NoticeInv
<1>4. CASE ClearPending(n)
  <2>1. /\ updates' = updates /\ notifier' = [notifier EXCEPT ![n] = Idle]
        /\ pending' = pending \ {m} /\ queued' = queued /\ ingest' = ingest
        /\ notices' = notices /\ faults' = faults /\ r.pc = "clear"
    BY <1>4 DEF ClearPending
  <2>2. Idle \in NotifierType /\ Idle.pc = "idle"
    BY IdleTyped
  <2>3. NotifierTyped'
    BY <2>1, <2>2 DEF NoticeInv, NotifierTyped
  <2>4. /\ notifier'[n] = Idle /\ \A o \in Notifiers \ {n} : notifier'[o] = notifier[o]
    BY <1>1, <2>1
  <2>5. OwingInv'
    BY <2>1, <2>2, <2>4 DEF NoticeInv, OwingInv
  <2>6. OwedPushIsPending'
    BY <1>2, <2>1 DEF NoticeInv, OwedPushIsPending, OwesPush
  <2> QED BY <2>3, <2>5, <2>6 DEF NoticeInv
<1> QED BY <1>3, <1>4

-----------------------------------------------------------------------------
(* Nobody is left with older text, as long as the audience does not change. *)

Paged == Eligible \cap Reachable

\* The audience is always the same, and a stamped dispatch has paged all of it.
AudienceInv ==
    /\ eligible = Eligible
    /\ fan.pc \in {"count", "page", "schedule"} => fan.audience = Eligible
    /\ \A e \in Members : receipt[e] # "none" => e \in Paged
    /\ dispatch.completed => \A e \in Paged : receipt[e] = "sent"

\* An accepted push carries at least its update's revision.
NoticesAreNew ==
    \A m \in Messages, e \in Members :
       /\ notices[m][e].sent => notices[m][e].revision # NoPage
       /\ notices[m][e].revision # NoPage =>
             updates[m].state = "applied" /\ notices[m][e].revision >= updates[m].revision

SentToAll(m) == \A e \in Paged : notices[m][e].sent

\* A notifier reads METADATA after tone 1 was stamped, and its audience after that.
NotifierReads ==
    \A n \in Notifiers :
       /\ notifier[n].pc \in {"receipts", "notify"} =>
             dispatch.completed /\ notifier[n].revision >= updates[notifier[n].msg].revision
       /\ notifier[n].pc = "notify" /\ notifier[n].failed = FALSE =>
             \A e \in Paged : e \in notifier[n].todo \/ notices[notifier[n].msg][e].sent
       /\ notifier[n].pc = "stamp" =>
             updates[notifier[n].msg].notified \/ SentToAll(notifier[n].msg)

NotifiedIsSent ==
    \A m \in Messages : updates[m].state = "applied" /\ updates[m].notified => SentToAll(m)

StaleInv == AudienceInv /\ NoticesAreNew /\ NotifierReads /\ NotifiedIsSent

\* Every member whose page was accepted is in the audience, and got the push or a newer page.
LEMMA NobodyStale ==
  ASSUME FInv, StaleInv
  PROVE  NobodyLeftStale
<1> SUFFICES ASSUME NEW m \in Messages, NEW e \in Members, updates[m].state = "applied",
                    updates[m].notified, page[e] # NoPage
             PROVE  notices[m][e].revision >= updates[m].revision
  BY DEF NobodyLeftStale
<1>1. e \in Paged
  BY DEF FInv, PageBeforeReceipt, StaleInv, AudienceInv
<1>2. notices[m][e].sent
  BY <1>1 DEF StaleInv, NotifiedIsSent, SentToAll
<1> QED BY <1>2 DEF StaleInv, NoticesAreNew

\* A receipt once sent stays sent, and a new one is a reachable member's of the audience.
LEMMA ReceiptStep ==
  ASSUME FInv, FanOutStep \/ FanOutFault \/ \E e \in Members : ChangeEligibility(e),
         NEW m \in Members
  PROVE  /\ receipt[m] = "sent" => receipt'[m] = "sent"
         /\ receipt'[m] # "none" =>
               receipt[m] # "none" \/ (fan.pc = "page" /\ m \in fan.audience \cap Reachable)
<1>1. receipt \in [Members -> {"none", "claimed", "sent"}]
  BY DEF FInv, FanOutTypeOK
<1>2. ASSUME NEW n \in Members, ClaimReceipt(n) \/ MarkSent(n)
      PROVE  /\ receipt[m] = "sent" => receipt'[m] = "sent"
             /\ receipt'[m] # "none" =>
                   receipt[m] # "none" \/ (fan.pc = "page" /\ m \in fan.audience \cap Reachable)
  <2>1. fan.task[n] \in {"claim", "mark"}
    BY <1>2 DEF ClaimReceipt, MarkSent
  <2>2. fan.pc = "page"
    BY <2>1 DEF FInv, TasksArePaging
  <2>3. n \in fan.audience \cap Reachable
    BY <2>1, <2>2 DEF FInv, TasksOfTheAudience
  <2> QED BY <1>1, <1>2, <2>2, <2>3 DEF ClaimReceipt, MarkSent
<1>3. CASE receipt' = receipt
  BY <1>3
<1> QED BY <1>2, <1>3 DEF FanOutStep, FanOutFault, ChangeEligibility, ResolveAudience, StartAttempt,
       PagesSettled, ScheduleLadder, PublishPage, ScheduleMember, FanOutThrows, TaskFails

\* The audience an attempt goes on with is the one it resolved.
LEMMA AudienceStep ==
  ASSUME FInv, FanOutStep \/ FanOutFault \/ \E e \in Members : ChangeEligibility(e),
         fan'.pc \in {"count", "page", "schedule"}
  PROVE  \/ fan'.audience = eligible
         \/ fan.pc \in {"count", "page", "schedule"} /\ fan'.audience = fan.audience
<1>1. fan \in FanType
  BY DEF FInv, FanOutTypeOK
<1>2. {"done", "publish", "mark", "failed"} \subseteq Tasks
  BY DEF Tasks
<1>3. ASSUME NEW m \in Members, NEW s \in Tasks, Task(m, s)
      PROVE  fan'.pc = fan.pc /\ fan'.audience = fan.audience
  BY <1>1, <1>3, TaskStep
<1>4. CASE \E m \in Members : ClaimReceipt(m) \/ PublishPage(m) \/ MarkSent(m) \/ TaskFails(m)
  BY <1>2, <1>3, <1>4 DEF ClaimReceipt, PublishPage, MarkSent, TaskFails
<1>5. CASE \E m \in Members : ScheduleMember(m) \/ ChangeEligibility(m)
  BY <1>1, <1>5 DEF ScheduleMember, ChangeEligibility, FanType
<1>6. CASE ResolveAudience
  BY <1>1, <1>6 DEF ResolveAudience, FanType
<1>7. CASE StartAttempt \/ PagesSettled
  BY <1>1, <1>7 DEF StartAttempt, PagesSettled, FanType
<1>8. CASE ScheduleLadder \/ FanOutThrows
  BY <1>1, <1>8, RetriedStep DEF ScheduleLadder, FanOutThrows, FanType
<1> QED BY <1>4, <1>5, <1>6, <1>7, <1>8 DEF FanOutStep, FanOutFault

LEMMA FanOutKeepsAudience ==
  ASSUME MaxChanges = 0, FInv, AudienceInv,
         FanOutStep \/ FanOutFault \/ \E e \in Members : ChangeEligibility(e)
  PROVE  AudienceInv'
<1>1. \A e \in Members : ~ChangeEligibility(e)
  <2>1. changes \in 0 .. 0
    BY DEF FInv, FanOutTypeOK
  <2> QED BY <2>1 DEF ChangeEligibility
<1>2. eligible' = Eligible
  BY <1>1 DEF AudienceInv, FanOutStep, FanOutFault, ResolveAudience, StartAttempt, PagesSettled,
       ScheduleLadder, ClaimReceipt, PublishPage, MarkSent, ScheduleMember, FanOutThrows, TaskFails
<1>3. fan'.pc \in {"count", "page", "schedule"} => fan'.audience = Eligible
  BY AudienceStep DEF AudienceInv
<1>4. \A e \in Members : receipt'[e] # "none" => e \in Paged
  BY ReceiptStep DEF AudienceInv, Paged
<1>5. Paged \subseteq Members
  BY FanOutConstants DEF Paged
<1>6. dispatch'.completed => \A e \in Paged : receipt'[e] = "sent"
  <2>1. CASE dispatch.completed
    BY <1>5, <2>1, ReceiptStep DEF AudienceInv
  <2>2. CASE ~dispatch.completed /\ dispatch'.completed
    <3>1. /\ \A e \in fan.audience \cap Reachable : receipt[e] = "sent"
          /\ fan.pc = "page"
      BY <2>2, StampStep DEF PagesSettled
    <3>2. fan.audience = Eligible
      BY <3>1 DEF AudienceInv
    <3> QED BY <1>5, <3>1, <3>2, ReceiptStep DEF Paged
  <2> QED BY <2>1, <2>2
<1> QED BY <1>2, <1>3, <1>4, <1>6 DEF AudienceInv

PushInv == NoticesAreNew /\ NotifierReads /\ NotifiedIsSent

\* The ingress and the fan-out leave what was applied, and notify nothing.
LEMMA OthersKeepPushes ==
  ASSUME NoticeInv, PushInv, notifier' = notifier, notices' = notices,
         dispatch.completed => dispatch'.completed,
         \A m \in Messages : updates[m].state = "applied" => updates'[m] = updates[m],
         \A m \in Messages :
            updates[m].state # "applied" /\ updates'[m].state = "applied" => ~updates'[m].notified
  PROVE  PushInv'
<1>1. NoticesAreNew'
  BY DEF PushInv, NoticesAreNew
<1>2. NotifiedIsSent'
  BY DEF PushInv, NotifiedIsSent, SentToAll
<1>3. \A n \in Notifiers :
         notifier[n].pc # "idle" => updates'[notifier[n].msg] = updates[notifier[n].msg]
  BY DEF NoticeInv, OwingInv
<1>4. NotifierReads'
  <2> SUFFICES ASSUME NEW n \in Notifiers, notifier[n].pc \in {"receipts", "notify", "stamp"}
               PROVE  /\ notifier[n].pc \in {"receipts", "notify"} =>
                            /\ dispatch'.completed
                            /\ notifier[n].revision >= updates'[notifier[n].msg].revision
                      /\ notifier[n].pc = "notify" /\ notifier[n].failed = FALSE =>
                            \A e \in Paged :
                               e \in notifier[n].todo \/ notices[notifier[n].msg][e].sent
                      /\ notifier[n].pc = "stamp" =>
                            \/ updates'[notifier[n].msg].notified
                            \/ SentToAll(notifier[n].msg)
    BY DEF NotifierReads, SentToAll
  <2>1. updates'[notifier[n].msg] = updates[notifier[n].msg]
    BY <1>3
  <2> QED BY <2>1 DEF PushInv, NotifierReads
<1> QED BY <1>1, <1>2, <1>4 DEF PushInv

LEMMA IngestKeepsStale ==
  ASSUME FInv, IngressInv, NoticeInv, StaleInv, NEW d \in Deliveries, Ingest(d) \/ IngestDies(d)
  PROVE  StaleInv'
<1>1. /\ updates \in [Messages -> UpdateType] /\ ContentOf[d] \in Messages
      /\ dispatch \in [attempts : 0 .. MaxAttempts, completed : BOOLEAN, revision : Nat]
      /\ fan \in FanType
  BY CadConstants DEF IngressInv, IngressTyped, FInv, FanOutTypeOK
<1>2. notifier' = notifier /\ notices' = notices /\ eligible' = eligible /\ receipt' = receipt
  BY DEF Ingest, IngestDies, CheckReplay, Create, CreateCancelled, ReadCall, WriteHistory,
         WriteUpdate, WriteCancelled, CheckNeedsNotice, HandOff, fanOutVars, FanOutRest
<1>3. dispatch'.completed = dispatch.completed
  BY <1>1 DEF Ingest, IngestDies, CheckReplay, Create, CreateCancelled, ReadCall, WriteHistory,
         WriteUpdate, WriteCancelled, CheckNeedsNotice, HandOff, fanOutVars, FanOutRest
<1>4. fan' = fan \/ fan' = [fan EXCEPT !.pc = "audience"]
  BY DEF Ingest, IngestDies, CheckReplay, Create, CreateCancelled, ReadCall, WriteHistory,
         WriteUpdate, WriteCancelled, CheckNeedsNotice, HandOff, fanOutVars, FanOutRest,
         RecordArrives
<1>5. AudienceInv'
  BY <1>1, <1>2, <1>3, <1>4 DEF StaleInv, AudienceInv, FanType
<1>6. CASE WriteUpdate(d)
  <2>1. /\ updates[ContentOf[d]].state = "none"
        /\ \A v \in Messages \ {ContentOf[d]} : updates'[v] = updates[v]
        /\ updates'[ContentOf[d]].state = IF Changes(d) THEN "applied" ELSE "unchanged"
        /\ updates'[ContentOf[d]].notified = ~Changes(d)
    BY <1>1, <1>6 DEF WriteUpdate, Known
  <2> QED BY <1>2, <1>3, <1>5, <2>1, OthersKeepPushes DEF StaleInv, PushInv
<1>7. CASE WriteHistory(d)
  <2>1. /\ updates[ContentOf[d]].state = "none"
        /\ \A v \in Messages \ {ContentOf[d]} : updates'[v] = updates[v]
        /\ updates'[ContentOf[d]].state = "history"
    BY <1>1, <1>7 DEF WriteHistory, Known, UpdateType
  <2> QED BY <1>2, <1>3, <1>5, <2>1, OthersKeepPushes DEF StaleInv, PushInv
<1>8. CASE updates' = updates
  BY <1>2, <1>3, <1>5, <1>8, OthersKeepPushes DEF StaleInv, PushInv
<1> QED BY <1>6, <1>7, <1>8 DEF Ingest, IngestDies, CheckReplay, Create, CreateCancelled, ReadCall,
       WriteCancelled, CheckNeedsNotice, HandOff

\* A notifier that moves on without a push: what it now stands for must hold.
LEMMA ReaderKeepsPushes ==
  ASSUME NoticeInv, PushInv, NEW n \in Notifiers, NEW r \in NotifierType,
         notifier' = [notifier EXCEPT ![n] = r],
         notices' = notices, updates' = updates, dispatch' = dispatch,
         r.pc \in {"receipts", "notify"} =>
            dispatch.completed /\ r.revision >= updates[r.msg].revision,
         r.pc = "notify" /\ r.failed = FALSE =>
            \A e \in Paged : e \in r.todo \/ notices[r.msg][e].sent,
         r.pc = "stamp" => updates[r.msg].notified \/ SentToAll(r.msg)
  PROVE  PushInv'
<1>1. /\ notifier'[n] = r /\ \A o \in Notifiers \ {n} : notifier'[o] = notifier[o]
  BY DEF NoticeInv, NotifierTyped
<1>2. NoticesAreNew' /\ NotifiedIsSent'
  BY DEF PushInv, NoticesAreNew, NotifiedIsSent, SentToAll
<1>3. NotifierReads'
  BY <1>1 DEF PushInv, NotifierReads, SentToAll
<1> QED BY <1>2, <1>3 DEF PushInv

LEMMA ReadingKeepsPushes ==
  ASSUME FInv, IngressInv, NoticeInv, StaleInv, NEW n \in Notifiers,
         \/ ReadUpdate(n) \/ ReadDispatch(n) \/ ReadReceipts(n) \/ Settle(n) \/ NotifierDies(n)
         \/ ClearPending(n) \/ \E m \in Messages : Invoke(n, m)
  PROVE  PushInv'
<1> DEFINE r == notifier[n]
<1>1. /\ notifier \in [Notifiers -> NotifierType] /\ r \in NotifierType
      /\ r.pc # "idle" => r.msg \in Messages /\ updates[r.msg].state = "applied"
  BY DEF NoticeInv, NotifierTyped, OwingInv
<1>2. /\ notices' = notices /\ updates' = updates /\ dispatch' = dispatch
  BY DEF ReadUpdate, ReadDispatch, ReadReceipts, Settle, NotifierDies, ClearPending, Invoke,
         NotifierOnly, fanOutVars
<1>3. PushInv
  BY DEF StaleInv, PushInv
<1>4. ASSUME NEW new \in NotifierType, notifier' = [notifier EXCEPT ![n] = new],
             new.pc \notin {"receipts", "notify", "stamp"}
      PROVE  PushInv'
  BY <1>2, <1>3, <1>4, ReaderKeepsPushes
<1>5. ASSUME notifier' = NotifierThrows(n)
      PROVE  PushInv'
  <2>1. /\ notifier'[n] \in NotifierType /\ notifier'[n].pc \in {"idle", "update"}
        /\ notifier' = [notifier EXCEPT ![n] = notifier'[n]]
    BY <1>5, ThrowStep DEF NoticeInv
  <2>2. PICK new \in NotifierType : new = notifier'[n]
    BY <2>1
  <2> QED BY <1>4, <2>1, <2>2
<1>6. CASE ReadUpdate(n)
  <2> DEFINE pc == IF updates[r.msg].notified THEN "stamp" ELSE "dispatch"
             new == [r EXCEPT !.pc = pc]
  <2>1. notifier' = [notifier EXCEPT ![n] = new]
    BY <1>1, <1>6 DEF ReadUpdate
  <2>2. /\ new \in NotifierType /\ new.msg = r.msg
        /\ new.pc = IF updates[r.msg].notified THEN "stamp" ELSE "dispatch"
    BY <1>1 DEF NotifierType
  <2> HIDE DEF new
  <2> QED BY <1>2, <1>3, <2>1, <2>2, ReaderKeepsPushes
<1>7. CASE ReadDispatch(n)
  <2> DEFINE new == [r EXCEPT !.pc = "receipts", !.revision = dispatch.revision]
  <2>1. /\ new \in NotifierType /\ new.msg = r.msg /\ new.pc = "receipts"
        /\ new.revision = dispatch.revision
    BY <1>1, RevisionTyped DEF NotifierType
  <2>2. CASE ~FanOutComplete
    BY <1>5, <1>7, <2>2 DEF ReadDispatch
  <2>3. CASE FanOutComplete
    <3>1. notifier' = [notifier EXCEPT ![n] = new]
      BY <1>1, <1>7, <2>3 DEF ReadDispatch
    <3>2. dispatch.completed
      BY <2>3 DEF FanOutComplete
    <3>3. r.msg \in Recorded
      BY <1>1, <1>7 DEF ReadDispatch, Recorded
    <3>4. updates[r.msg].revision \in 1 .. dispatch.revision
      BY <3>3 DEF IngressInv, CallShowsItsLatestMessage
    <3>5. dispatch.revision >= updates[r.msg].revision
      BY <3>4, RevisionTyped
    <3> HIDE DEF new
    <3> QED BY <1>2, <1>3, <2>1, <3>1, <3>2, <3>5, ReaderKeepsPushes
  <2> QED BY <2>2, <2>3
<1>8. CASE ReadReceipts(n)
  <2> DEFINE todo == {e \in Members : receipt[e] # "none"}
             new == [r EXCEPT !.pc = "notify", !.todo = todo]
  <2>1. /\ new \in NotifierType /\ new.msg = r.msg /\ new.pc = "notify" /\ new.todo = todo
        /\ new.revision = r.revision
    BY <1>1 DEF NotifierType
  <2>2. notifier' = [notifier EXCEPT ![n] = new]
    BY <1>1, <1>8 DEF ReadReceipts
  <2>3. dispatch.completed /\ r.revision >= updates[r.msg].revision
    BY <1>8 DEF ReadReceipts, StaleInv, NotifierReads
  <2>4. \A e \in Paged : receipt[e] = "sent"
    BY <2>3 DEF StaleInv, AudienceInv
  <2>5. Paged \subseteq todo
    BY <2>4, FanOutConstants DEF Paged
  <2> HIDE DEF new, todo
  <2> QED BY <1>2, <1>3, <2>1, <2>2, <2>3, <2>5, ReaderKeepsPushes
<1>9. CASE Settle(n)
  <2> DEFINE new == [r EXCEPT !.pc = "stamp"]
  <2>1. new \in NotifierType /\ new.msg = r.msg /\ new.pc = "stamp"
    BY <1>1 DEF NotifierType
  <2>2. CASE r.failed
    BY <1>5, <1>9, <2>2 DEF Settle
  <2>3. CASE ~r.failed
    <3>1. notifier' = [notifier EXCEPT ![n] = new] /\ r.pc = "notify" /\ r.todo = {}
      BY <1>1, <1>9, <2>3 DEF Settle
    <3>2. r.failed = FALSE
      BY <1>1, <2>3 DEF NotifierType
    <3>3. SentToAll(r.msg)
      BY <3>1, <3>2 DEF StaleInv, NotifierReads, SentToAll
    <3> HIDE DEF new
    <3> QED BY <1>2, <1>3, <2>1, <3>1, <3>3, ReaderKeepsPushes
  <2> QED BY <2>2, <2>3
<1>10. CASE NotifierDies(n)
  BY <1>5, <1>10 DEF NotifierDies
<1>11. CASE ClearPending(n)
  BY <1>4, <1>11, IdleTyped DEF ClearPending
<1>12. ASSUME NEW m \in Messages, Invoke(n, m)
       PROVE  PushInv'
  <2> DEFINE new == [Idle EXCEPT !.pc = "update", !.msg = m, !.attempt = 1]
  <2>1. new \in NotifierType /\ new.pc = "update"
    BY IdleTyped DEF Idle
  <2>2. notifier' = [notifier EXCEPT ![n] = new]
    BY <1>12 DEF Invoke
  <2> HIDE DEF new
  <2> QED BY <1>4, <2>1, <2>2
<1> QED BY <1>6, <1>7, <1>8, <1>9, <1>10, <1>11, <1>12

\* A push that is accepted is the notifier's own revision, unless an earlier one went out.
LEMMA PushKeepsPushes ==
  ASSUME NoticeInv, StaleInv, NEW n \in Notifiers, NEW e \in Members, NotifyMember(n, e)
  PROVE  PushInv'
<1> DEFINE r == notifier[n]
           m == r.msg
           rev == IF notices[m][e].revision = NoPage THEN r.revision ELSE notices[m][e].revision
           accepted == [notices EXCEPT ![m][e].revision = rev]
           sent == [accepted EXCEPT ![m][e].sent = TRUE]
<1>1. /\ notifier \in [Notifiers -> NotifierType] /\ r \in NotifierType /\ r.pc = "notify"
      /\ m \in Messages /\ updates[m].state = "applied"
      /\ notices \in [Messages -> [Members -> NoticeType]]
  BY DEF NoticeInv, NotifierTyped, OwingInv, NotifyMember
<1>2. PushInv /\ updates' = updates /\ dispatch' = dispatch
  BY DEF StaleInv, PushInv, NotifyMember, fanOutVars
<1>3. dispatch.completed /\ r.revision >= updates[m].revision /\ r.revision \in Nat
  BY <1>1 DEF StaleInv, NotifierReads, NotifierType
<1>4. /\ rev \in Nat /\ rev >= updates[m].revision
  BY <1>1, <1>3 DEF StaleInv, NoticesAreNew, NoticeType
<1>5. \/ notices' = notices /\ (notices[m][e].sent \/ notifier'[n].failed = TRUE)
      \/ notices' = accepted /\ notifier'[n].failed = TRUE
      \/ notices' = sent
  BY <1>1 DEF NotifyMember, NotifierType
<1>6. /\ notifier'[n].pc = "notify" /\ notifier'[n].msg = m /\ notifier'[n].revision = r.revision
      /\ notifier'[n].todo = r.todo \ {e}
      /\ notifier'[n].failed = FALSE => r.failed = FALSE
      /\ \A o \in Notifiers \ {n} : notifier'[o] = notifier[o]
  BY <1>1 DEF NotifyMember, NotifierType
<1>7. rev # NoPage
  BY <1>4 DEF NoPage
<1>8. /\ accepted[m][e].revision = rev /\ accepted[m][e].sent = notices[m][e].sent
      /\ sent[m][e].revision = rev /\ sent[m][e].sent = TRUE
      /\ \A v \in Messages, f \in Members :
            v # m \/ f # e => accepted[v][f] = notices[v][f] /\ sent[v][f] = notices[v][f]
  BY <1>1 DEF NoticeType
<1> HIDE DEF rev, accepted, sent
<1>9. \A v \in Messages, f \in Members : notices[v][f].sent => notices'[v][f].sent
  BY <1>5, <1>8
<1>10. NoticesAreNew'
  <2> SUFFICES ASSUME NEW v \in Messages, NEW f \in Members
               PROVE  /\ notices'[v][f].sent => notices'[v][f].revision # NoPage
                      /\ notices'[v][f].revision # NoPage =>
                            /\ updates[v].state = "applied"
                            /\ notices'[v][f].revision >= updates[v].revision
    BY <1>2 DEF NoticesAreNew
  <2>1. CASE v = m /\ f = e /\ notices' # notices
    BY <1>1, <1>4, <1>5, <1>7, <1>8, <2>1
  <2>2. CASE notices'[v][f] = notices[v][f]
    BY <1>2, <2>2 DEF PushInv, NoticesAreNew
  <2> QED BY <1>5, <1>8, <2>1, <2>2
<1>11. Paged \subseteq Members
  BY FanOutConstants DEF Paged
<1>12. NotifiedIsSent'
  BY <1>2, <1>9, <1>11 DEF PushInv, NotifiedIsSent, SentToAll
<1>13. \A o \in Notifiers \ {n} : notifier[o].pc # "idle" => notifier[o].msg \in Messages
  BY DEF NoticeInv, OwingInv
<1>14. NotifierReads'
  <2> SUFFICES ASSUME NEW o \in Notifiers, notifier'[o].pc \in {"receipts", "notify", "stamp"}
               PROVE  /\ notifier'[o].pc \in {"receipts", "notify"} =>
                            /\ dispatch.completed
                            /\ notifier'[o].revision >= updates[notifier'[o].msg].revision
                      /\ notifier'[o].pc = "notify" /\ notifier'[o].failed = FALSE =>
                            \A f \in Paged :
                               f \in notifier'[o].todo \/ notices'[notifier'[o].msg][f].sent
                      /\ notifier'[o].pc = "stamp" =>
                            \/ updates[notifier'[o].msg].notified
                            \/ \A f \in Paged : notices'[notifier'[o].msg][f].sent
    BY <1>2 DEF NotifierReads, SentToAll
  <2>1. CASE o = n
    <3>1. notifier'[n].failed = FALSE =>
             \A f \in Paged : f \in r.todo \ {e} \/ notices'[m][f].sent
      <4> SUFFICES ASSUME notifier'[n].failed = FALSE, NEW f \in Paged, f \notin r.todo \ {e}
                   PROVE  notices'[m][f].sent
        OBVIOUS
      <4>1. CASE f = e
        BY <1>1, <1>5, <1>8, <1>9, <1>11, <4>1
      <4>2. CASE f # e
        <5>1. f \notin r.todo /\ r.failed = FALSE
          BY <1>6, <4>2
        <5>2. notices[m][f].sent
          BY <1>1, <5>1 DEF StaleInv, NotifierReads
        <5> QED BY <1>1, <1>9, <1>11, <5>2
      <4> QED BY <4>1, <4>2
    <3> QED BY <1>3, <1>6, <2>1, <3>1
  <2>2. CASE o # n
    <3>1. notifier'[o] = notifier[o] /\ notifier[o].msg \in Messages
      BY <1>6, <1>13, <2>2
    <3> QED BY <1>9, <1>11, <3>1 DEF StaleInv, NotifierReads, SentToAll
  <2> QED BY <2>1, <2>2
<1> QED BY <1>10, <1>12, <1>14 DEF PushInv

\* The stamp follows the last push.
LEMMA StampKeepsPushes ==
  ASSUME IngressInv, NoticeInv, StaleInv, NEW n \in Notifiers, StampNotified(n)
  PROVE  PushInv'
<1> DEFINE r == notifier[n]
           m == r.msg
           new == [r EXCEPT !.pc = "clear"]
<1>1. /\ notifier \in [Notifiers -> NotifierType] /\ r \in NotifierType
      /\ updates \in [Messages -> UpdateType] /\ m \in Messages /\ updates[m].state = "applied"
      /\ r.pc = "stamp"
  BY DEF NoticeInv, NotifierTyped, OwingInv, IngressInv, IngressTyped, StampNotified
<1>2. /\ updates' = [updates EXCEPT ![m].notified = TRUE]
      /\ notifier' = [notifier EXCEPT ![n] = new]
      /\ notices' = notices /\ dispatch' = dispatch
  BY <1>1 DEF StampNotified, fanOutVars
<1>3. new.pc = "clear"
  BY <1>1 DEF NotifierType
<1>4. /\ \A v \in Messages \ {m} : updates'[v] = updates[v]
      /\ updates'[m].state = "applied" /\ updates'[m].revision = updates[m].revision
      /\ updates'[m].notified = TRUE
  BY <1>1, <1>2 DEF UpdateType
<1> HIDE DEF new
<1>5. /\ notifier'[n] = new /\ \A o \in Notifiers \ {n} : notifier'[o] = notifier[o]
  BY <1>1, <1>2
<1>6. SentToAll(m)
  BY <1>1 DEF StaleInv, NotifierReads, NotifiedIsSent
<1>7. NoticesAreNew'
  BY <1>2, <1>4 DEF StaleInv, NoticesAreNew
<1>8. NotifiedIsSent'
  BY <1>2, <1>4, <1>6 DEF StaleInv, NotifiedIsSent, SentToAll
<1>9. NotifierReads'
  <2> SUFFICES ASSUME NEW o \in Notifiers, notifier'[o].pc \in {"receipts", "notify", "stamp"}
               PROVE  /\ notifier'[o].pc \in {"receipts", "notify"} =>
                            /\ dispatch.completed
                            /\ notifier'[o].revision >= updates'[notifier'[o].msg].revision
                      /\ notifier'[o].pc = "notify" /\ notifier'[o].failed = FALSE =>
                            \A f \in Paged :
                               f \in notifier'[o].todo \/ notices[notifier'[o].msg][f].sent
                      /\ notifier'[o].pc = "stamp" =>
                            \/ updates'[notifier'[o].msg].notified
                            \/ SentToAll(notifier'[o].msg)
    BY <1>2 DEF NotifierReads, SentToAll
  <2>1. o # n /\ notifier'[o] = notifier[o]
    BY <1>3, <1>5
  <2>2. notifier[o].msg \in Messages
    BY <2>1 DEF NoticeInv, OwingInv
  <2>3. /\ updates'[notifier[o].msg].revision = updates[notifier[o].msg].revision
        /\ updates[notifier[o].msg].notified => updates'[notifier[o].msg].notified
    BY <1>4, <2>2
  <2> QED BY <2>1, <2>3 DEF StaleInv, NotifierReads
<1> QED BY <1>7, <1>8, <1>9 DEF PushInv

-----------------------------------------------------------------------------
(* The specification.                                                      *)

CadInv == FInv /\ IngressInv /\ NoticeInv

LEMMA InitInductive == Init => CadInv /\ StaleInv
<1> SUFFICES ASSUME Init PROVE CadInv /\ StaleInv
  OBVIOUS
<1>1. FInv
  BY FanOutInitInductive DEF Init
<1>2. /\ \A m \in Messages : updates[m] = NoUpdate
      /\ \A d \in Deliveries : ingest[d].pc = "new"
      /\ \A n \in Notifiers : notifier[n].pc = "idle"
  BY DEF Init, Idle
<1>3. IngressTyped
  <2>1. NoUpdate \in UpdateType
    BY DEF NoUpdate, UpdateType
  <2>2. call \in CallType
    BY DEF Init, CallType
  <2>3. MaxWrites \in Nat
    BY CadConstants
  <2>4. [pc |-> "new", writes |-> 0, read |-> NoRead] \in IngestType
    BY <2>3 DEF IngestType, NoRead
  <2> QED BY <2>1, <2>2, <2>4 DEF Init, IngressTyped
<1>4. Recorded = {}
  BY <1>2 DEF Recorded, NoUpdate
<1>5. IngressInv
  BY <1>2, <1>3, <1>4 DEF Init, IngressInv, NothingBeforeCreate, AcceptedIsSeen, ReadsAreCurrent,
       Current, TimeIsTheNewest, CallShowsItsLatestMessage, OriginalIsNeverAnUpdate, NoUpdate
<1>6. NotifierTyped
  <2>1. [revision |-> NoPage, sent |-> FALSE] \in NoticeType
    BY DEF NoticeType
  <2>2. faults \in 0 .. MaxFaults
    <3>1. MaxFaults \in Nat
      BY CadConstants
    <3>2. faults = 0
      BY DEF Init
    <3> QED BY <3>1, <3>2
  <2>3. notices \in [Messages -> [Members -> NoticeType]]
    BY <2>1 DEF Init
  <2>4. notifier \in [Notifiers -> NotifierType]
    BY IdleTyped DEF Init
  <2> QED BY <2>2, <2>3, <2>4 DEF Init, NotifierTyped
<1>7. NoticeInv
  BY <1>2, <1>6 DEF Init, NoticeInv, OwingInv, OwedPushIsPending, OwesPush, NoUpdate
<1>8. StaleInv
  BY <1>2 DEF Init, FanOutInit, StaleInv, AudienceInv, NoticesAreNew, NotifierReads, NotifiedIsSent,
              NoUpdate
<1> QED BY <1>1, <1>5, <1>7, <1>8 DEF CadInv

\* The steps of the ingress.
LEMMA IngestStep ==
  ASSUME CadInv, NEW d \in Deliveries, Ingest(d) \/ IngestDies(d)
  PROVE  CadInv'
<1> USE DEF CadInv
<1>1. CASE Create(d)
  BY <1>1, CreateKeeps, QuietKeepsNotices
<1>2. CASE WriteUpdate(d)
  BY <1>2, UpdateKeepsFanOut, WriteUpdateKeeps, WriteKeepsNotices
<1>3. CASE WriteHistory(d)
  BY <1>3, WriteHistoryKeeps, QuietKeepsNotices, FanOutUnchanged DEF WriteHistory
<1>4. CASE \/ CheckReplay(d) \/ CreateCancelled(d) \/ ReadCall(d) \/ WriteCancelled(d)
           \/ CheckNeedsNotice(d) \/ HandOff(d) \/ IngestDies(d)
  <2>1. UNCHANGED fanOutVars
    BY <1>4 DEF CheckReplay, CreateCancelled, ReadCall, WriteCancelled, CheckNeedsNotice, HandOff,
                IngestDies
  <2>2. IngressInv'
    BY <1>4, CheckReplayKeeps, CreateCancelledKeeps, ReadCallKeeps, WriteCancelledKeeps,
       ReportKeeps
  <2> QED BY <1>4, <2>1, <2>2, FanOutUnchanged, ReadingKeepsNotices
<1> QED BY <1>1, <1>2, <1>3, <1>4 DEF Ingest

\* The steps of the notifier and of the sweep.
LEMMA NoticeStep ==
  ASSUME CadInv,
         \/ \E n \in Notifiers : Notify(n) \/ NotifierDies(n)
         \/ \E m \in Messages : Sweep(m) \/ \E n \in Notifiers : Invoke(n, m)
  PROVE  CadInv'
<1> USE DEF CadInv
<1>1. updates \in [Messages -> UpdateType]
  BY DEF IngressInv, IngressTyped
<1>2. ASSUME NEW n \in Notifiers, StampNotified(n)
      PROVE  CadInv'
  <2>1. updates' = [updates EXCEPT ![notifier[n].msg].notified = TRUE]
    BY <1>2 DEF StampNotified
  <2>2. /\ updates' \in [Messages -> UpdateType]
        /\ \A m \in Messages :
              /\ updates'[m].state = updates[m].state
              /\ updates'[m].revision = updates[m].revision
    BY <1>1, <2>1 DEF UpdateType
  <2>3. UNCHANGED <<fanOutVars, call, seen, markers, ingest>>
    BY <1>2 DEF StampNotified
  <2>4. IngressInv'
    BY <2>2, <2>3, OthersKeepIngress DEF fanOutVars
  <2> QED BY <1>2, <2>3, <2>4, FanOutUnchanged, StampKeepsNotices
<1>3. ASSUME UNCHANGED <<fanOutVars, call, seen, markers, ingest, updates>>
      PROVE  FInv' /\ IngressInv'
  BY <1>1, <1>3, FanOutUnchanged, OthersKeepIngress DEF fanOutVars
<1>4. ASSUME NEW n \in Notifiers,
             \/ ReadUpdate(n) \/ ReadDispatch(n) \/ ReadReceipts(n) \/ Settle(n)
             \/ NotifierDies(n) \/ (\E e \in Members : NotifyMember(n, e))
             \/ (\E m \in Messages : Invoke(n, m))
      PROVE  CadInv'
  <2>1. UNCHANGED <<fanOutVars, call, seen, markers, ingest, updates>>
    BY <1>4 DEF ReadUpdate, ReadDispatch, ReadReceipts, Settle, NotifierDies, NotifyMember, Invoke,
                NotifierOnly
  <2> QED BY <1>3, <1>4, <2>1, NotifyKeepsNotices
<1>5. ASSUME NEW n \in Notifiers, ClearPending(n)
      PROVE  CadInv'
  <2>1. UNCHANGED <<fanOutVars, call, seen, markers, ingest, updates>>
    BY <1>5 DEF ClearPending
  <2> QED BY <1>3, <1>5, <2>1, StampKeepsNotices
<1>6. ASSUME NEW m \in Messages, Sweep(m)
      PROVE  CadInv'
  <2>1. /\ UNCHANGED <<fanOutVars, call, seen, markers, ingest, updates, pending, notifier, notices>>
        /\ m \in pending /\ queued' \subseteq queued \cup {m}
    BY <1>6 DEF Sweep, NotifyUpdate
  <2>2. faults' \in 0 .. MaxFaults
    BY <1>6, FaultTyped DEF Sweep, NotifyUpdate, NoticeInv, NotifierTyped
  <2>3. NoticeInv'
    BY <2>1, <2>2 DEF NoticeInv, NotifierTyped, OwingInv, OwedPushIsPending, OwesPush
  <2> QED BY <1>3, <2>1, <2>3
<1> QED BY <1>2, <1>4, <1>5, <1>6 DEF Notify

LEMMA FanOutOfCall ==
  ASSUME CadInv, FanOutStep \/ FanOutFault \/ \E e \in Members : ChangeEligibility(e),
         UNCHANGED cadVars
  PROVE  CadInv'
<1>1. FInv'
  BY FanOutStepKeeps DEF CadInv
<1>2. updates \in [Messages -> UpdateType]
  BY DEF CadInv, IngressInv, IngressTyped
<1>3. IngressInv'
  BY <1>2, FanOutLeaves, OthersKeepIngress DEF CadInv, cadVars
<1>4. NoticeInv'
  BY DEF CadInv, cadVars, NoticeInv, NotifierTyped, OwingInv, OwedPushIsPending, OwesPush
<1> QED BY <1>1, <1>3, <1>4 DEF CadInv

LEMMA CallUnchanged ==
  ASSUME CadInv, UNCHANGED vars
  PROVE  CadInv'
<1>1. FInv'
  BY FanOutUnchanged DEF CadInv, vars
<1>2. updates \in [Messages -> UpdateType]
  BY DEF CadInv, IngressInv, IngressTyped
<1>3. IngressInv'
  BY <1>2, OthersKeepIngress DEF CadInv, vars, cadVars, fanOutVars
<1>4. NoticeInv'
  BY DEF CadInv, vars, cadVars, NoticeInv, NotifierTyped, OwingInv, OwedPushIsPending, OwesPush
<1> QED BY <1>1, <1>3, <1>4 DEF CadInv

LEMMA CallInductive == CadInv /\ [Next]_vars => CadInv'
BY CallUnchanged, FanOutOfCall, IngestStep, NoticeStep DEF Next

\* With an audience that does not change, the notices keep up as well.
LEMMA StaleInductive ==
  ASSUME MaxChanges = 0
  PROVE  CadInv /\ StaleInv /\ [Next]_vars => StaleInv'
<1> SUFFICES ASSUME CadInv, StaleInv, [Next]_vars PROVE StaleInv'
  OBVIOUS
<1> USE DEF CadInv
<1>1. CASE UNCHANGED vars
  BY <1>1 DEF vars, cadVars, fanOutVars, StaleInv, AudienceInv, NoticesAreNew, NotifierReads,
              NotifiedIsSent, SentToAll
<1>2. CASE /\ FanOutStep \/ FanOutFault \/ \E e \in Members : ChangeEligibility(e)
           /\ UNCHANGED cadVars
  <2>1. AudienceInv'
    BY <1>2, FanOutKeepsAudience DEF StaleInv
  <2>2. dispatch.completed => dispatch'.completed
    BY <1>2, FanOutLeaves
  <2>3. PushInv'
    BY <1>2, <2>2, OthersKeepPushes DEF cadVars, StaleInv, PushInv
  <2> QED BY <2>1, <2>3 DEF StaleInv, PushInv
<1>3. ASSUME UNCHANGED fanOutVars, PushInv'
      PROVE  StaleInv'
  BY <1>3 DEF fanOutVars, StaleInv, AudienceInv, PushInv
<1>4. ASSUME NEW n \in Notifiers,
             \/ Notify(n) \/ NotifierDies(n)
             \/ (\E m \in Messages : Invoke(n, m))
      PROVE  StaleInv'
  <2>1. UNCHANGED fanOutVars
    BY <1>4 DEF Notify, ReadUpdate, ReadDispatch, ReadReceipts, Settle, NotifierDies, NotifyMember,
                Invoke, NotifierOnly, StampNotified, ClearPending
  <2> QED BY <1>3, <1>4, <2>1, ReadingKeepsPushes, PushKeepsPushes, StampKeepsPushes DEF Notify
<1>5. ASSUME NEW m \in Messages, Sweep(m)
      PROVE  StaleInv'
  BY <1>5 DEF Sweep, fanOutVars, StaleInv, AudienceInv, NoticesAreNew, NotifierReads,
              NotifiedIsSent, SentToAll
<1>6. ASSUME NEW d \in Deliveries, Ingest(d) \/ IngestDies(d)
      PROVE  StaleInv'
  BY <1>6, IngestKeepsStale
<1> QED BY <1>1, <1>2, <1>4, <1>5, <1>6 DEF Next

THEOREM CadInvariant == Spec => []CadInv
<1>1. Init => CadInv
  BY InitInductive
<1> QED BY <1>1, CallInductive, PTL DEF Spec

\* Every variable of the call, of its messages and of its notices keeps its type.
THEOREM CadTypeCorrect == Spec => []CadTypeOK
<1>1. CadInv => CadTypeOK
  BY DEF CadInv, FInv, IngressInv, IngressTyped, NoticeInv, NotifierTyped, NoticeType,
         NotifierType, CallType, UpdateType, CadTypeOK
<1> QED BY <1>1, CadInvariant, PTL

\* Updates recorded concurrently are numbered one by one in the order of the CAD's own times, and
\* the call shows the last of them (cadIngress/updateRepository.ts:160-393).
THEOREM LatestMessageIsShown == Spec => []CallShowsItsLatestMessage
<1>1. CadInv => CallShowsItsLatestMessage
  BY DEF CadInv, IngressInv
<1> QED BY <1>1, CadInvariant, PTL

\* The message that made the call is never recorded as an update of it
\* (cadIngress/updateRepository.ts:376-388, dispatches/repository.ts:216-234).
THEOREM OriginalStaysOriginal == Spec => []OriginalIsNeverAnUpdate
<1>1. CadInv => OriginalIsNeverAnUpdate
  BY DEF CadInv, IngressInv
<1> QED BY <1>1, CadInvariant, PTL

\* What the ingress answers for is on the call (cadIngress/ingest.ts:332-390).
THEOREM AnsweredIsAccepted == Spec => []AnsweredMessageIsAccepted
<1>1. CadInv => AnsweredMessageIsAccepted
  BY DEF CadInv, IngressInv, AcceptedIsSeen, AnsweredMessageIsAccepted
<1> QED BY <1>1, CadInvariant, PTL

\* The sweep finds every update that owes its push, wherever an invocation died
\* (cadIngress/updateRepository.ts:300-322, updateSweepHandler.ts:18-55).
THEOREM OwedPushIsFound == Spec => []OwedPushIsPending
<1>1. CadInv => OwedPushIsPending
  BY DEF CadInv, NoticeInv
<1> QED BY <1>1, CadInvariant, PTL

\* Whatever the CAD changes meanwhile, a fan-out that succeeds has paged and scheduled everybody
\* (fanout/handler.ts:464-550).
THEOREM CheckpointIsComplete == Spec => []SuccessMeansComplete
<1>1. CadInv => SuccessMeansComplete
  BY DEF CadInv, FInv
<1> QED BY <1>1, CadInvariant, PTL

\* fanOutCompletedAt is stamped after the pages of everybody the attempt read
\* (fanout/handler.ts:155-181, 513-527).
THEOREM StampFollowsPages == Spec => StampWaitsForPages
<1>1. CadInv /\ [Next]_vars =>
        [dispatch'.completed /\ ~dispatch.completed =>
           \A m \in fan.audience \cap Reachable : receipt[m] = "sent"]_fanOutVars
  <2> SUFFICES ASSUME CadInv, [Next]_vars, dispatch'.completed, ~dispatch.completed
               PROVE  \A m \in fan.audience \cap Reachable : receipt[m] = "sent"
    OBVIOUS
  <2>1. dispatch \in [attempts : 0 .. MaxAttempts, completed : BOOLEAN, revision : Nat]
    BY DEF CadInv, FInv, FanOutTypeOK
  <2>2. CASE FanOutStep \/ FanOutFault \/ \E e \in Members : ChangeEligibility(e)
    BY <2>2, StampStep DEF CadInv
  <2>3. CASE dispatch' = dispatch
    BY <2>3
  <2>4. ASSUME NEW d \in Deliveries, WriteUpdate(d)
        PROVE  FALSE
    BY <2>1, <2>4 DEF WriteUpdate
  <2> QED BY <2>2, <2>3, <2>4 DEF Next, vars, fanOutVars, Ingest, IngestDies, CheckReplay, Create,
         CreateCancelled, ReadCall, WriteHistory, WriteCancelled, CheckNeedsNotice, HandOff, Notify,
         NotifierDies, ReadUpdate, ReadDispatch, ReadReceipts, Settle, NotifyMember, Invoke,
         NotifierOnly, StampNotified, ClearPending, Sweep
<1> QED BY <1>1, CadInvariant, PTL DEF Spec, StampWaitsForPages

\* As long as nobody joins or leaves the audience, everybody who was paged has the text of every
\* update that counts as notified (cadIngress/updateNotifierHandler.ts:226-291).
THEOREM CrewIsNotLeftStale ==
  ASSUME MaxChanges = 0
  PROVE  Spec => []NobodyLeftStale
<1>1. Init => CadInv /\ StaleInv
  BY InitInductive
<1>2. CadInv /\ StaleInv /\ [Next]_vars => CadInv' /\ StaleInv'
  BY CallInductive, StaleInductive
<1>3. CadInv /\ StaleInv => NobodyLeftStale
  BY NobodyStale DEF CadInv
<1> QED BY <1>1, <1>2, <1>3, PTL DEF Spec
=============================================================================
