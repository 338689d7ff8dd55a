----------------------------- MODULE CadUpdates -----------------------------
(***************************************************************************)
(* A CAD incident from its first message to its last update push: the      *)
(* ingress (cadIngress/ingest.ts, updateRepository.ts, and the create      *)
(* transaction of dispatches/repository.ts), the update notifier           *)
(* (updateNotifierHandler.ts) and the sweep (updateSweepHandler.ts),       *)
(* composed with the tone-1 fan-out of module FanOut that reads the text   *)
(* the updates change.                                                     *)
(*                                                                         *)
(* One incident within its identity window.  A message carries one text    *)
(* for all the fields it sets and the CAD's own time, 0 when none resolves *)
(* from it; a content hash is the message itself.  A delivery is one       *)
(* arrival of a message under a replay token: an identical retry has the   *)
(* token of the first, a re-signed one has its own.                        *)
(***************************************************************************)
EXTENDS FanOut

CONSTANTS
    Deliveries,  \* arrivals at the webhook or the mail Lambda
    Messages,    \* what they may say
    Tokens,      \* replay tokens
    ContentOf,   \* each delivery's message
    TokenOf,     \* each delivery's token
    TextOf,      \* each message's fields
    TimeOf,      \* each message's own time, 0 when none resolves
    Notifiers,   \* concurrent invocations of the update notifier
    MaxWrites,   \* MAX_WRITE_ATTEMPTS
    MaxInvokes,  \* attempts of one notifier event (1 + maximumRetryAttempts)
    MaxFaults    \* bound on dead invocations and failed calls outside the fan-out

ASSUME CadConstants ==
    /\ ContentOf \in [Deliveries -> Messages] /\ TokenOf \in [Deliveries -> Tokens]
    /\ \A d, e \in Deliveries : TokenOf[d] = TokenOf[e] => ContentOf[d] = ContentOf[e]
    /\ TimeOf \in [Messages -> Nat] /\ DOMAIN TextOf = Messages /\ "no message" \notin Messages
    /\ MaxWrites \in Nat \ {0} /\ MaxInvokes \in Nat \ {0} /\ MaxFaults \in Nat

VARIABLES
    call,       \* METADATA: the text, cadMessageTime, cadContentHash; history: the message that made it
    updates,    \* UPDATE# items: how the message was recorded, its revision, notifiedAt set
    pending,    \* messages with a CAD_UPDATE_PENDING item
    seen,       \* messages with a SEEN# item
    markers,    \* tokens with a replay marker
    ingest,     \* each delivery's invocation
    queued,     \* notices in the notifier's asynchronous event queue
    notifier,   \* the notifier invocations
    notices,    \* CADUPDATE# items: the revision the topic accepted for a member, sentAt set
    faults      \* dead invocations and failed calls so far

cadVars == <<call, updates, pending, seen, markers, ingest, queued, notifier,
             notices, faults>>
vars == <<fanOutVars, cadVars>>

\* The fields of the composed state that no CAD step touches, but for METADATA itself.
FanOutRest == <<eligible, changes, fan, receipt, page, rostered, voice, tones, preempted,
                lostStamps>>

NoText    == "no text"
NoMessage == "no message"
NoUpdate  == [state |-> "none", revision |-> 0, notified |-> FALSE]
NoRead    == [text |-> NoText, time |-> 0, hash |-> NoMessage, revision |-> 0]
Idle      == [pc |-> "idle", msg |-> NoMessage, attempt |-> 0, revision |-> 0, todo |-> {},
              failed |-> FALSE]

Init ==
    /\ FanOutInit
    /\ call = [text |-> NoText, time |-> 0, hash |-> NoMessage, original |-> NoMessage]
    /\ updates = [m \in Messages |-> NoUpdate]
    /\ pending = {} /\ seen = {} /\ markers = {}
    /\ ingest = [d \in Deliveries |-> [pc |-> "new", writes |-> 0, read |-> NoRead]]
    /\ queued = {}
    /\ notifier = [n \in Notifiers |-> Idle]
    /\ notices = [m \in Messages |-> [e \in Members |-> [revision |-> NoPage, sent |-> FALSE]]]
    /\ faults = 0

Fault == faults < MaxFaults /\ faults' = faults + 1
-----------------------------------------------------------------------------
(* The ingress.                                                            *)

Go(d, pc) == ingest' = [ingest EXCEPT ![d].pc = pc]

\* The early answer to a marked token. The marker itself is written by the transactions.
CheckReplay(d) ==
    /\ ingest[d].pc = "new"
    /\ Go(d, IF TokenOf[d] \in markers THEN "answered" ELSE "create")
    /\ UNCHANGED <<fanOutVars, call, updates, pending, seen, markers, queued, notifier,
                   notices, faults>>

\* createManualDispatch: one transaction of the lock, METADATA, SEEN# and the marker.
SeenOnCreate(m) == seen \cup {m}

Create(d) ==
    LET m == ContentOf[d] IN
    /\ ingest[d].pc = "create" /\ TokenOf[d] \notin markers
    /\ RecordArrives
    /\ call' = [text |-> TextOf[m], time |-> TimeOf[m], hash |-> m, original |-> m]
    /\ seen' = SeenOnCreate(m)
    /\ markers' = markers \cup {TokenOf[d]}
    /\ Go(d, "answered")
    /\ UNCHANGED <<dispatch, eligible, changes, receipt, page, rostered, voice, tones,
                   preempted, lostStamps, updates, pending, queued, notifier, notices,
                   faults>>

\* A cancellation for the marker is answered as a replay; one for the lock leads to the update.
CreateCancelled(d) ==
    /\ ingest[d].pc = "create"
    /\ \/ TokenOf[d] \in markers /\ Go(d, "answered")
       \/ TokenOf[d] \notin markers /\ fan.pc # "waiting" /\ Go(d, "read")
    /\ UNCHANGED <<fanOutVars, call, updates, pending, seen, markers, queued, notifier,
                   notices, faults>>

\* recordCadUpdate reads METADATA: the message it already shows is a duplicate, and a write that
\* lost every race is thrown for the sender to retry.
ReadCall(d) ==
    /\ ingest[d].pc = "read"
    /\ ingest' = [ingest EXCEPT
         ![d].pc = CASE ingest[d].writes = MaxWrites -> "failed"
                     [] call.hash = ContentOf[d]     -> "needs"
                     [] OTHER                        -> "write",
         ![d].read = [text |-> call.text, time |-> call.time, hash |-> call.hash,
                      revision |-> dispatch.revision]]
    /\ UNCHANGED <<fanOutVars, call, updates, pending, seen, markers, queued, notifier,
                   notices, faults>>

-----------------------------------------------------------------------------
(* writeUpdate: one transaction of UPDATE#, SEEN#, the pending notice, METADATA and the marker. *)

\* The marker, UPDATE# or SEEN# exists already: a replay or a duplicate.
Known(d) == TokenOf[d] \in markers \/ ContentOf[d] \in seen \/ updates[ContentOf[d]].state # "none"

\* The message is stamped earlier than the one last applied, as it was read.
Older(d) ==
    LET mt == TimeOf[ContentOf[d]] IN
    mt # 0 /\ ingest[d].read.time # 0 /\ mt < ingest[d].read.time

\* The condition on METADATA: nothing was applied since the read, and nothing newer.
AnyMetadata(d) == TRUE   \* mutant: no condition on the update of METADATA
MetadataAsRead(d) ==
    LET mt == TimeOf[ContentOf[d]] IN
    /\ dispatch.revision = ingest[d].read.revision
    /\ mt = 0 \/ call.time = 0 \/ call.time <= mt

\* What the transaction leaves whatever the update is worth.
Accept(d) ==
    /\ seen' = seen \cup {ContentOf[d]}
    /\ markers' = markers \cup {TokenOf[d]}

Changes(d) == TextOf[ContentOf[d]] # ingest[d].read.text

WriteHistory(d) ==
    /\ ingest[d].pc = "write" /\ ~Known(d) /\ Older(d)
    /\ Accept(d)
    /\ updates' = [updates EXCEPT ![ContentOf[d]].state = "history"]
    /\ Go(d, "answered")
    /\ UNCHANGED <<fanOutVars, call, pending, queued, notifier, notices, faults>>

\* The owed push is recorded with the update that owes it.
PendingLater(m) == pending   \* mutant: the pending item is not part of the transaction
PendingOnWrite(m) == pending \cup {m}

\* An update that changes nothing is recorded as notified and hands nothing off.
WriteUpdate(d) ==
    LET m == ContentOf[d] IN
    /\ ingest[d].pc = "write" /\ ~Known(d) /\ ~Older(d) /\ MetadataAsRead(d)
    /\ Accept(d)
    /\ dispatch' = [dispatch EXCEPT !.revision = @ + 1]
    /\ call' = [text |-> IF Changes(d) THEN TextOf[m] ELSE call.text,
                time |-> IF TimeOf[m] # 0 THEN TimeOf[m] ELSE call.time,
                hash |-> m, original |-> call.original]
    /\ updates' = [updates EXCEPT
                     ![m] = [state |-> IF Changes(d) THEN "applied" ELSE "unchanged",
                             revision |-> dispatch'.revision, notified |-> ~Changes(d)]]
    /\ pending' = IF Changes(d) THEN PendingOnWrite(m) ELSE pending
    /\ Go(d, IF Changes(d) THEN "handOff" ELSE "answered")
    /\ UNCHANGED <<FanOutRest, queued, notifier, notices, faults>>

\* The transaction was cancelled: for what exists already, or by a newer message.
AfterLostRace == "needs"   \* mutant: a lost race is taken for a duplicate
AfterRace == "read"

WriteCancelled(d) ==
    /\ ingest[d].pc = "write"
    /\ \/ Known(d) /\ Go(d, "needs")
       \/ /\ ~Known(d) /\ ~Older(d) /\ ~MetadataAsRead(d)
          /\ ingest' = [ingest EXCEPT ![d].pc = AfterRace, ![d].writes = @ + 1]
    /\ UNCHANGED <<fanOutVars, call, updates, pending, seen, markers, queued, notifier,
                   notices, faults>>

\* A duplicate or a replay hands an update off again that still owes its push.
UpdateNeedsNotice(m) == updates[m].state = "applied" /\ ~updates[m].notified

CheckNeedsNotice(d) ==
    /\ ingest[d].pc = "needs"
    /\ Go(d, IF UpdateNeedsNotice(ContentOf[d]) THEN "handOff" ELSE "answered")
    /\ UNCHANGED <<fanOutVars, call, updates, pending, seen, markers, queued, notifier,
                   notices, faults>>

-----------------------------------------------------------------------------
(* The hand-off, the sweep and the notifier.                               *)

\* notifyUpdate never throws: a failed invoke is only counted.
NotifyUpdate(m) ==
    \/ queued' = queued \cup {m} /\ UNCHANGED faults
    \/ Fault /\ UNCHANGED queued

HandOff(d) ==
    /\ ingest[d].pc = "handOff"
    /\ NotifyUpdate(ContentOf[d])
    /\ Go(d, "answered")
    /\ UNCHANGED <<fanOutVars, call, updates, pending, seen, markers, notifier, notices>>

\* The ingress dies, or a call of it fails: whoever sent the message decides to send it again.
IngestDies(d) ==
    /\ ingest[d].pc \in {"create", "read", "write", "needs", "handOff"}
    /\ Fault /\ Go(d, "failed")
    /\ UNCHANGED <<fanOutVars, call, updates, pending, seen, markers, queued, notifier,
                   notices>>

\* Every pending update is handed off again, every five minutes.
Sweep(m) ==
    /\ m \in pending
    /\ NotifyUpdate(m)
    /\ UNCHANGED <<fanOutVars, call, updates, pending, seen, markers, ingest, notifier, notices>>

Invoke(n, m) ==
    /\ notifier[n].pc = "idle" /\ m \in queued
    /\ queued' = queued \ {m}
    /\ notifier' = [notifier EXCEPT ![n] = [Idle EXCEPT !.pc = "update", !.msg = m,
                                                        !.attempt = 1]]
    /\ UNCHANGED <<fanOutVars, call, updates, pending, seen, markers, ingest, notices,
                   faults>>

\* The event is retried, or it goes to the on-failure queue.
NotifierThrows(n) ==
    IF notifier[n].attempt < MaxInvokes
    THEN [notifier EXCEPT ![n].pc = "update", ![n].attempt = @ + 1, ![n].todo = {},
                          ![n].failed = FALSE]
    ELSE [notifier EXCEPT ![n] = Idle]

NotifierOnly == UNCHANGED <<fanOutVars, call, updates, pending, seen, markers, ingest, queued,
                            notices>>

ReadUpdate(n) ==
    /\ notifier[n].pc = "update"
    /\ notifier' = [notifier EXCEPT ![n].pc = IF updates[notifier[n].msg].notified
                                              THEN "stamp" ELSE "dispatch"]
    /\ NotifierOnly /\ UNCHANGED faults

\* processUpdate reads METADATA, and throws while tone 1 is not complete.
NeverWaits == TRUE   \* mutant: the notifier does not wait for tone 1
FanOutComplete == dispatch.completed

ReadDispatch(n) ==
    /\ notifier[n].pc = "dispatch"
    /\ notifier' = IF FanOutComplete
                   THEN [notifier EXCEPT ![n].pc = "receipts",
                                         ![n].revision = dispatch.revision]
                   ELSE NotifierThrows(n)
    /\ NotifierOnly /\ UNCHANGED faults

\* The audience: the members who hold a tone-1 receipt.
ReadReceipts(n) ==
    /\ notifier[n].pc = "receipts"
    /\ notifier' = [notifier EXCEPT ![n].pc = "notify",
                                    ![n].todo = {e \in Members : receipt[e] # "none"}]
    /\ NotifierOnly /\ UNCHANGED faults

\* notifyMember: one already sent is skipped; only the first push accepted under this key goes
\* out. The publish or the write after it may fail.
NotifyMember(n, e) ==
    LET m == notifier[n].msg
        accepted == [notices EXCEPT ![m][e].revision = IF @ = NoPage THEN notifier[n].revision
                                                       ELSE @]
    IN
    /\ notifier[n].pc = "notify" /\ e \in notifier[n].todo
    /\ \/ /\ notices[m][e].sent /\ UNCHANGED <<notices, faults>>
          /\ notifier' = [notifier EXCEPT ![n].todo = @ \ {e}]
       \/ /\ ~notices[m][e].sent
          /\ notices' = [accepted EXCEPT ![m][e].sent = TRUE] /\ UNCHANGED faults
          /\ notifier' = [notifier EXCEPT ![n].todo = @ \ {e}]
       \/ /\ ~notices[m][e].sent
          /\ notices' \in {notices, accepted} /\ Fault
          /\ notifier' = [notifier EXCEPT ![n].todo = @ \ {e}, ![n].failed = TRUE]
    /\ UNCHANGED <<fanOutVars, call, updates, pending, seen, markers, ingest, queued>>

\* A failed member fails the invocation; its retry skips the members already sent.
Settle(n) ==
    /\ notifier[n].pc = "notify" /\ notifier[n].todo = {}
    /\ notifier' = IF notifier[n].failed THEN NotifierThrows(n)
                   ELSE [notifier EXCEPT ![n].pc = "stamp"]
    /\ NotifierOnly /\ UNCHANGED faults

\* markNotified: the update is stamped, then its pending item is deleted.
StampNotified(n) ==
    /\ notifier[n].pc = "stamp"
    /\ updates' = [updates EXCEPT ![notifier[n].msg].notified = TRUE]
    /\ notifier' = [notifier EXCEPT ![n].pc = "clear"]
    /\ UNCHANGED <<fanOutVars, call, pending, seen, markers, ingest, queued, notices, faults>>

ClearPending(n) ==
    /\ notifier[n].pc = "clear"
    /\ pending' = pending \ {notifier[n].msg}
    /\ notifier' = [notifier EXCEPT ![n] = Idle]
    /\ UNCHANGED <<fanOutVars, call, updates, seen, markers, ingest, queued, notices,
                   faults>>

NotifierDies(n) ==
    /\ notifier[n].pc # "idle"
    /\ Fault /\ notifier' = NotifierThrows(n)
    /\ NotifierOnly

-----------------------------------------------------------------------------
Ingest(d) ==
    \/ CheckReplay(d) \/ Create(d) \/ CreateCancelled(d) \/ ReadCall(d)
    \/ WriteHistory(d) \/ WriteUpdate(d) \/ WriteCancelled(d)
    \/ CheckNeedsNotice(d) \/ HandOff(d)

Notify(n) ==
    \/ ReadUpdate(n) \/ ReadDispatch(n) \/ ReadReceipts(n) \/ Settle(n)
    \/ StampNotified(n) \/ ClearPending(n)
    \/ \E e \in Members : NotifyMember(n, e)

Next ==
    \/ (FanOutStep \/ FanOutFault \/ \E e \in Members : ChangeEligibility(e)) /\ UNCHANGED cadVars
    \/ \E d \in Deliveries : Ingest(d) \/ IngestDies(d)
    \/ \E n \in Notifiers : Notify(n) \/ NotifierDies(n)
    \/ \E m \in Messages : Sweep(m) \/ \E n \in Notifiers : Invoke(n, m)

Spec == Init /\ [][Next]_vars

\* A running invocation runs on; the stream, the event queue and the sweep keep coming, and an
\* event waiting for a free invocation is taken in the end.
FairSpec ==
    /\ Spec
    /\ WF_vars(FanOutStep /\ UNCHANGED cadVars)
    /\ \A d \in Deliveries : WF_vars(Ingest(d))
    /\ \A n \in Notifiers : WF_vars(Notify(n))
    /\ \A m \in Messages : WF_vars(Sweep(m)) /\ SF_vars(\E n \in Notifiers : Invoke(n, m))
-----------------------------------------------------------------------------
IngestType ==
    [pc : {"new", "create", "read", "write", "needs", "handOff", "answered", "failed"},
     writes : 0 .. MaxWrites,
     read : [text : {NoText} \cup {TextOf[m] : m \in Messages}, time : Nat,
             hash : Messages \cup {NoMessage}, revision : Nat]]

\* Every variable of the incident holds what its items and invocations can hold.
CadTypeOK ==
    /\ FanOutTypeOK
    /\ call \in [text : {NoText} \cup {TextOf[m] : m \in Messages}, time : Nat,
                 hash : Messages \cup {NoMessage}, original : Messages \cup {NoMessage}]
    /\ updates \in [Messages -> [state : {"none", "applied", "unchanged", "history"},
                                 revision : Nat, notified : BOOLEAN]]
    /\ pending \subseteq Messages /\ seen \subseteq Messages /\ markers \subseteq Tokens
    /\ ingest \in [Deliveries -> IngestType]
    /\ queued \subseteq Messages
    /\ notifier \in [Notifiers ->
          [pc : {"idle", "update", "dispatch", "receipts", "notify", "stamp", "clear"},
           msg : Messages \cup {NoMessage}, attempt : 0 .. MaxInvokes, revision : Nat,
           todo : SUBSET Members, failed : BOOLEAN]]
    /\ notices \in [Messages -> [Members -> [revision : Nat \cup {NoPage}, sent : BOOLEAN]]]
    /\ faults \in 0 .. MaxFaults

Recorded == {m \in Messages : updates[m].state \in {"applied", "unchanged"}}

\* The crew is shown the newest dispatch text: updates recorded concurrently are numbered one by
\* one, a later one is never stamped earlier by the CAD, and METADATA holds the text of the last.
CallShowsItsLatestMessage ==
    \A u \in Recorded :
       /\ updates[u].revision = dispatch.revision => call.text = TextOf[u]
       /\ updates[u].revision \in 1 .. dispatch.revision
       /\ \A v \in Recorded \ {u} :
             /\ updates[u].revision # updates[v].revision
             /\ updates[u].revision < updates[v].revision /\ TimeOf[u] # 0 /\ TimeOf[v] # 0 =>
                   TimeOf[u] <= TimeOf[v]

\* A message is taken once: the original that arrives again after a correction, under another
\* token, is a duplicate and never recorded as an update of itself.
OriginalIsNeverAnUpdate ==
    call.original # NoMessage => updates[call.original].state = "none"

\* A message the sender was answered for is on the call: it created it or is among its updates.
AnsweredMessageIsAccepted ==
    \A d \in Deliveries : ingest[d].pc = "answered" => ContentOf[d] \in seen

OwesPush(m) == updates[m].state = "applied" /\ ~updates[m].notified

\* An update that still owes its push is never forgotten, wherever an invocation died: the sweep
\* finds it.
OwedPushIsPending ==
    \A m \in Messages : OwesPush(m) => m \in pending

\* Once an update counts as notified, nobody whose tone-1 page went out is left with older text:
\* the page carried the update already, or its push was accepted.
NobodyLeftStale ==
    \A m \in Messages, e \in Members :
       updates[m].state = "applied" /\ updates[m].notified /\ page[e] # NoPage =>
          page[e] >= updates[m].revision \/ notices[m][e].revision >= updates[m].revision

\* Every update of a call whose fan-out is not given up on is notified in the end, whatever
\* invocations died on the way.
EveryUpdateReachesItsCrew ==
    []<>(\/ fan.pc = "givenUp"
         \/ \A m \in Messages : updates[m].state = "applied" => updates[m].notified)
=============================================================================
