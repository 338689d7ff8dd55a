----------------------------- MODULE NerisSync -----------------------------
(***************************************************************************)
(* What comes back from NERIS for one report: the status poller, every     *)
(* five minutes, reads the history of a record on its work list, and the   *)
(* nightly reconciliation compares NERIS's listing with the local rows and *)
(* repairs what drifted.  Both run beside the officers and the workers of  *)
(* NerisSubmission and write to the same row.                              *)
(*                                                                         *)
(* NERIS moves its record's status, deletes it, drops it or stops listing  *)
(* it, a bounded number of times.                                          *)
(***************************************************************************)
EXTENDS NerisSubmission

CONSTANTS
    MaxMissing,     \* MISSING_MAX_CHECKS
    MaxMoves        \* bound: changes NERIS makes to its record by itself

ASSUME SyncAssumption == MaxMissing \in Nat \ {0} /\ MaxMoves \in Nat

VARIABLES
    poll,       \* the poller's work on this report
    night,      \* the reconciliation's work on this report
    moves

syncVars == <<poll, night, moves>>
allVars == <<row, watched, reviewed, jobs, worker, neris, requests, faults,
             poll, night, moves>>

Open == {"SUBMITTED"}    \* and PENDING_INCIDENT_DATA and PENDING_APPROVAL, which read the same

Asleep == [pc |-> "idle", status |-> None, previous |-> None]
Day == [pc |-> "day", status |-> None, counted |-> FALSE, givenUp |-> FALSE,
        listing |-> None, found |-> FALSE]

SyncInit == Init /\ poll = Asleep /\ night = Day /\ moves = 0

------------------------------------------------------------------------------
(* NERIS. *)

Move ==
    /\ moves < MaxMoves
    /\ moves' = moves + 1
    /\ neris.held
    /\ \/ /\ neris.status = "SUBMITTED"
          /\ \E status \in {"APPROVED", "REJECTED"} : neris' = [neris EXCEPT !.status = status]
       \/ neris' = [neris EXCEPT !.status = "DELETED"]
       \/ neris' = [neris EXCEPT !.listed = ~@]
       \/ \* It does not drop a record between refusing its duplicate and being asked for it.
          /\ \A w \in Workers : worker[w].pc # "adopt"
          /\ neris' = [held |-> FALSE, listed |-> FALSE, content |-> None, status |-> None]
    /\ UNCHANGED <<row, watched, reviewed, jobs, worker, requests, faults, poll, night>>

------------------------------------------------------------------------------
(* applyStatusChange: a status is shown only over the one the row had when it was compared. *)

Applies(previous) == row.known /\ row.nerisStatus = previous

Shown(status) ==
    [row EXCEPT !.nerisStatus = status,
                !.status = CASE status = "APPROVED" -> "ACCEPTED"
                             [] status = "REJECTED" -> "REJECTED"
                             [] OTHER -> @,
                !.missing = @ \/ status = "DELETED"]

------------------------------------------------------------------------------
(* The status poller.  Its runs do not overlap: each is over before the next. *)

\* A row of the work list is due, and NERIS is asked for the record's history.
PollHistory ==
    /\ poll.pc = "idle"
    /\ watched
    /\ \/ /\ neris.held
          /\ poll' = [Asleep EXCEPT !.pc = "metadata", !.status = neris.status]
       \/ poll' = [Asleep EXCEPT !.pc = "reschedule"]
    /\ UNCHANGED <<row, watched, reviewed, jobs, worker, neris, requests, faults,
                   night, moves>>

\* The row is read after the history; one that already shows a final status leaves the list.
PollMetadata ==
    /\ poll.pc = "metadata"
    /\ IF row.nerisStatus = poll.status
         THEN /\ poll' = [Asleep EXCEPT !.pc = "reschedule"]
              /\ watched' = (watched /\ poll.status \in Open)
         ELSE /\ poll' = [poll EXCEPT !.pc = "apply", !.previous = row.nerisStatus]
              /\ UNCHANGED watched
    /\ UNCHANGED <<row, reviewed, jobs, worker, neris, requests, faults, night, moves>>

PollApply ==
    /\ poll.pc = "apply"
    /\ IF Applies(poll.previous)
         THEN row' = Shown(poll.status) /\ watched' = (watched /\ poll.status \in Open)
         ELSE UNCHANGED <<row, watched>>
    /\ poll' = [Asleep EXCEPT !.pc = "reschedule"]
    /\ UNCHANGED <<reviewed, jobs, worker, neris, requests, faults, night, moves>>

\* The row is polled again later; one that is too old or fails too often leaves the list.
PollReschedule ==
    /\ poll.pc = "reschedule"
    /\ watched' \in {watched, FALSE}
    /\ poll' = Asleep
    /\ UNCHANGED <<row, reviewed, jobs, worker, neris, requests, faults, night, moves>>

------------------------------------------------------------------------------
(* The nightly reconciliation. *)

\* The department's reports NERIS is known to hold, read before NERIS's listing.
NightBegins ==
    /\ night.pc = "day"
    /\ row.known
    /\ night' = [Day EXCEPT !.pc = "list", !.status = row.nerisStatus,
                            !.counted = row.checks > 0, !.givenUp = row.missing]
    /\ UNCHANGED <<row, watched, reviewed, jobs, worker, neris, requests, faults,
                   poll, moves>>

Listed == neris.held /\ neris.listed

\* Mutant: only a report that is still open is compared.
DiffersWhileOpen == Listed /\ night.status \in Open /\ neris.status # night.status

Differs == Listed /\ neris.status # night.status

\* One record's line of the comparison (diffAgainstNeris): a status that differs, a record that
\* is missing, or neither; and whether a record counted as missing is found again.
NightLists ==
    /\ night.pc = "list"
    /\ LET missing == ~Listed /\ ~night.givenUp
           again   == /\ Listed /\ neris.status # "DELETED"
                      /\ night.counted \/ night.givenUp
       IN  night' = [Day EXCEPT !.pc = CASE Differs -> "mismatch"
                                         [] missing -> "missing"
                                         [] OTHER -> "found",
                                !.listing = IF Differs THEN neris.status ELSE None,
                                !.found = again]
    /\ UNCHANGED <<row, watched, reviewed, jobs, worker, neris, requests, faults,
                   poll, moves>>

\* The listing fails, or is cut short before this record: nothing is concluded from it.
NightFails ==
    /\ night.pc = "list"
    /\ night' = Day
    /\ UNCHANGED <<row, watched, reviewed, jobs, worker, neris, requests, faults,
                   poll, moves>>

NightMetadata ==
    /\ night.pc = "mismatch"
    /\ night' = [night EXCEPT !.pc = "apply", !.status = row.nerisStatus]
    /\ UNCHANGED <<row, watched, reviewed, jobs, worker, neris, requests, faults,
                   poll, moves>>

\* A record that is still open goes back on the poller's work list.
NightApply ==
    /\ night.pc = "apply"
    /\ IF Applies(night.status)
         THEN row' = Shown(night.listing) /\ watched' = (night.listing \in Open)
         ELSE UNCHANGED <<row, watched>>
    /\ night' = [Day EXCEPT !.pc = "found", !.found = night.found]
    /\ UNCHANGED <<reviewed, jobs, worker, neris, requests, faults, poll, moves>>

\* One more night without the record (repairMissing).
NightCounts ==
    /\ night.pc = "missing"
    /\ IF row.known /\ ~row.missing
         THEN /\ row' = [row EXCEPT !.checks = @ + 1]
              /\ night' = [night EXCEPT !.pc = IF row.checks + 1 < MaxMissing
                                                 THEN "requeue" ELSE "give up"]
         ELSE night' = [night EXCEPT !.pc = "found"] /\ UNCHANGED row
    /\ UNCHANGED <<watched, reviewed, jobs, worker, neris, requests, faults, poll, moves>>

NightRequeues ==
    /\ night.pc = "requeue"
    /\ watched' = TRUE
    /\ night' = [night EXCEPT !.pc = "found"]
    /\ UNCHANGED <<row, reviewed, jobs, worker, neris, requests, faults, poll, moves>>

NightGivesUp ==
    /\ night.pc = "give up"
    /\ IF row.known /\ ~row.missing
         THEN row' = [row EXCEPT !.missing = TRUE] /\ watched' = FALSE
         ELSE UNCHANGED <<row, watched>>
    /\ night' = [night EXCEPT !.pc = "found"]
    /\ UNCHANGED <<reviewed, jobs, worker, neris, requests, faults, poll, moves>>

\* A record counted as missing that is listed again starts its count over (clearFoundAgain).
NightEnds ==
    /\ night.pc = "found"
    /\ row' = IF night.found /\ row.known
                THEN [row EXCEPT !.checks = 0, !.missing = FALSE] ELSE row
    /\ night' = Day
    /\ UNCHANGED <<watched, reviewed, jobs, worker, neris, requests, faults, poll, moves>>

\* A job is cut off between two of its writes; its next run starts afresh.
JobDies ==
    /\ faults < MaxFaults
    /\ faults' = faults + 1
    /\ \/ poll.pc # "idle" /\ poll' = Asleep /\ UNCHANGED night
       \/ night.pc # "day" /\ night' = Day /\ UNCHANGED poll
    /\ UNCHANGED <<row, watched, reviewed, jobs, worker, neris, requests, moves>>

\* A repair that fails is logged and the night goes on.
RepairFails ==
    /\ night.pc \in {"mismatch", "apply", "missing", "requeue", "give up"}
    /\ faults < MaxFaults
    /\ faults' = faults + 1
    /\ night' = [Day EXCEPT !.pc = "found", !.found = night.found]
    /\ UNCHANGED <<row, watched, reviewed, jobs, worker, neris, requests, poll, moves>>

PollStep == PollHistory \/ PollMetadata \/ PollApply \/ PollReschedule

NightWork ==
    \/ NightMetadata \/ NightApply \/ NightCounts \/ NightRequeues \/ NightGivesUp \/ NightEnds

SyncNext ==
    \/ Sends /\ UNCHANGED syncVars
    \/ Move \/ PollStep \/ NightBegins \/ NightLists \/ NightFails \/ NightWork \/ RepairFails \/ JobDies

SyncSpec == SyncInit /\ [][SyncNext]_allVars

\* Workers run to their end and jobs are delivered; the reconciliation runs every night, and NERIS
\* answers its listing in full again and again.
SyncFairness ==
    /\ WF_allVars(AnHourPasses /\ UNCHANGED syncVars)
    /\ \A w \in Workers : WF_allVars((Receive(w) \/ Step(w)) /\ UNCHANGED syncVars)
    /\ WF_allVars(NightBegins) /\ SF_allVars(NightLists) /\ WF_allVars(NightWork)
    /\ WF_allVars(PollStep)

SyncFairSpec == SyncSpec /\ SyncFairness

------------------------------------------------------------------------------
\* The report shows the status NERIS has in the end, or that NERIS no longer has its record,
\* whatever polls were lost or overtaken.
StatusConverges ==
    <>[](row.known => row.missing \/ (neris.held /\ row.nerisStatus = neris.status))
=============================================================================
