--------------------------- MODULE LadderPromise ---------------------------
(***************************************************************************)
(* What the tone ladder of one dispatch promises, without invocations,     *)
(* retries, markers or transactions: tones are paged, a paged tone is      *)
(* fired at most once, firing moves an active ladder forward and tone 3    *)
(* completes it, and a halt freezes it for good.                           *)
(***************************************************************************)
EXTENDS Integers

VARIABLES status, current, paged, fired

promised == <<status, current, paged, fired>>

PromisedTones == {2, 3}

\* Nothing is promised about members nobody can page: an empty roster is paged from the start.
PromiseInit ==
    /\ status = "ACTIVE" /\ current = 1
    /\ paged \in SUBSET PromisedTones /\ fired = {}

\* The last member's page of tone t is published.
PageTone(t) ==
    /\ paged' = paged \cup {t}
    /\ UNCHANGED <<status, current, fired>>

\* Tone t is recorded as fired; the ladder moves unless it has passed t or has ended.
FireTone(t) ==
    /\ t \in paged \ fired
    /\ fired' = fired \cup {t}
    /\ IF status = "ACTIVE" /\ current < t
       THEN current' = t /\ status' = IF t = 3 THEN "COMPLETED" ELSE "ACTIVE"
       ELSE UNCHANGED <<status, current>>
    /\ UNCHANGED paged

\* An officer stops a ladder that has not reached its last tone.
HaltLadder ==
    /\ status = "ACTIVE" /\ current < 3
    /\ status' = "HALTED_MANUAL"
    /\ UNCHANGED <<current, paged, fired>>

PromiseNext == HaltLadder \/ \E t \in PromisedTones : PageTone(t) \/ FireTone(t)

PromiseSpec == PromiseInit /\ [][PromiseNext]_promised
=============================================================================
