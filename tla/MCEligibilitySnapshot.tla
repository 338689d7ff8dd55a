----------------------- MODULE MCEligibilitySnapshot -----------------------
(* Small instances of the eligibility snapshot for TLC. *)
EXTENDS EligibilitySnapshot

Entry(token, reg) == [token |-> token, reg |-> reg, valid |-> TRUE]
Member(time, sets) == [kind |-> "member", time |-> time, sets |-> sets]
Qual(time, qual, eligible) ==
    [kind |-> "qual", time |-> time, qual |-> qual, eligible |-> eligible]
Availability(time, state) == [kind |-> "availability", time |-> time, state |-> state]
Malformed == [kind |-> "malformed"]

History(rows, created, quals, legacy) ==
    [rows |-> rows, created |-> created, quals |-> quals, legacy |-> legacy]

\* A second device registers, while the member's phone is known from the first event only.
SecondDevice ==
    << Member(2, [push |-> {Entry("a", 1)}, phone |-> "p"]),
       Member(3, [push |-> {Entry("a", 1), Entry("b", 3)}]) >>
\* The same device registers again, and the phone changes with it.
SameDevice ==
    << Member(2, [push |-> {Entry("a", 1)}]),
       Member(5, [push |-> {Entry("a", 5)}, phone |-> "p"]) >>
\* A member retires and comes back while his availability changes; a row has no envelope.
Statuses ==
    << Member(2, [active |-> FALSE, roles |-> {"CHIEF"}]), Malformed,
       Availability(4, "MARKED_OFF"), Member(3, [active |-> TRUE]) >>
\* Two qualifications change; one changes twice; and the snapshot is of time 3, from before
\* there was a clock for each.
TwoQuals == << Qual(2, "q", TRUE), Qual(3, "r", TRUE) >>
TwoChanges == << Qual(2, "q", TRUE), Qual(4, "q", FALSE) >>
OldSnapshot == << Qual(2, "q", FALSE), Qual(4, "r", TRUE) >>

DeviceHistories == {History(rows, FALSE, {}, 0) : rows \in {SecondDevice, SameDevice}}
StatusHistories == {History(Statuses, created, {}, 0) : created \in BOOLEAN}
QualHistories ==
    {History(TwoQuals, FALSE, {}, 0), History(TwoChanges, TRUE, {}, 0),
     History(OldSnapshot, TRUE, {"q"}, 3)}
TheHistories == DeviceHistories \cup StatusHistories \cup QualHistories
HasEnvelope(e) == e.kind # "malformed"
=============================================================================
