---------------------------- MODULE OutboxDrain ----------------------------
(***************************************************************************)
(* The transactional outbox: a service commits an event as a row of its    *)
(* table, and the table's stream feeds the drain                           *)
(* (packages/outbox/src/drainHandler.ts), which publishes the rows on the  *)
(* bus and marks them sent.                                                *)
(*                                                                         *)
(* A row is the event it carries.  The stream is one shard: the rows of a  *)
(* member share a partition.  A batch is at most ten rows, the handler's   *)
(* chunk as well, so an invocation makes one PutEvents call.               *)
(***************************************************************************)
EXTENDS Integers, Sequences, FiniteSets

CONSTANTS
    BatchSize,       \* rows the event source mapping hands over at once
    MaxRetries,      \* maximumRetryAttempts of the mapping
    MaxDrainFaults,  \* bound on failed invocations, calls and entries
    Publishable(_)   \* the row has its envelope and, on the bridge, an allowed type

ASSUME DrainConstants ==
    BatchSize \in Nat \ {0} /\ MaxRetries \in Nat /\ MaxDrainFaults \in Nat

VARIABLES
    stream,     \* the rows committed, in their order
    drain,      \* the mapping's position in the stream and its invocation
    published,  \* events the bus has accepted
    abandoned   \* rows the mapping has sent to its failure destination

drainVars == <<stream, drain, published, abandoned>>

DrainInit ==
    /\ drain = [pc |-> "idle", from |-> 0, size |-> 0, retries |-> 0, failed |-> 0,
                faults |-> 0]
    /\ published = {} /\ abandoned = {}

\* The rows of the batch, by their positions, that the handler would publish.
Batch ==
    {i \in DOMAIN stream : /\ drain.from < i /\ i <= drain.from + drain.size
                           /\ Publishable(stream[i])}
First(S) == IF S = {} THEN 0 ELSE CHOOSE i \in S : \A j \in S : i <= j

FaultsLeft(n) == drain.faults + n <= MaxDrainFaults

\* The next batch; after a failure its rest, or, bisected, a part of that.
Poll ==
    /\ drain.pc = "idle" /\ drain.from < Len(stream)
    /\ \E size \in 1..BatchSize :
          /\ drain.from + size <= Len(stream)
          /\ drain' = [drain EXCEPT !.pc = "publish", !.size = size, !.failed = 0]
    /\ UNCHANGED <<stream, published, abandoned>>

\* PutEvents answers entry by entry; the first refused one is where the mapping resumes.
OnlyThrownFailures(refused) == 0   \* mutant: the answers are not looked at
FirstFailure(refused) == First(refused)

PutEvents ==
    /\ drain.pc = "publish"
    /\ \E refused \in SUBSET Batch :
          /\ FaultsLeft(Cardinality(refused))
          /\ published' = published \cup {stream[i] : i \in Batch \ refused}
          /\ drain' = [drain EXCEPT !.pc = "mark", !.failed = FirstFailure(refused),
                                    !.faults = @ + Cardinality(refused)]
    /\ UNCHANGED <<stream, abandoned>>

\* The call throws, whether or not the bus has taken the entries.
PutEventsThrows ==
    /\ drain.pc = "publish" /\ Batch # {} /\ FaultsLeft(1)
    /\ published' \in {published, published \cup {stream[i] : i \in Batch}}
    /\ drain' = [drain EXCEPT !.pc = "report", !.failed = First(Batch), !.faults = @ + 1]
    /\ UNCHANGED <<stream, abandoned>>

\* The accepted rows are marked sentAt, which nothing reads: a mark that fails is logged.
MarkSent ==
    /\ drain.pc = "mark"
    /\ drain' = [drain EXCEPT !.pc = "report"]
    /\ UNCHANGED <<stream, published, abandoned>>

\* The invocation dies: the mapping takes its whole batch as failed.
DrainDies ==
    /\ drain.pc \in {"publish", "mark"} /\ FaultsLeft(1)
    /\ drain' = [drain EXCEPT !.pc = "report", !.failed = drain.from + 1, !.faults = @ + 1]
    /\ UNCHANGED <<stream, published, abandoned>>

\* The mapping moves past the batch, or up to the first failed row; out of retries it hands
\* the rest of the batch to the failure destination and moves on.
Report ==
    LET end == drain.from + drain.size
    IN  /\ drain.pc = "report"
        /\ IF drain.failed = 0
           THEN /\ drain' = [drain EXCEPT !.pc = "idle", !.from = end, !.retries = 0]
                /\ UNCHANGED abandoned
           ELSE IF drain.retries < MaxRetries
           THEN /\ drain' = [drain EXCEPT !.pc = "idle", !.from = drain.failed - 1,
                                          !.retries = @ + 1]
                /\ UNCHANGED abandoned
           ELSE /\ abandoned' = abandoned \cup {stream[i] : i \in drain.failed .. end}
                /\ drain' = [drain EXCEPT !.pc = "idle", !.from = end, !.retries = 0]
        /\ UNCHANGED <<stream, published>>

DrainNext == Poll \/ PutEvents \/ PutEventsThrows \/ MarkSent \/ DrainDies \/ Report
=============================================================================
