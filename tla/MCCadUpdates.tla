---------------------------- MODULE MCCadUpdates ----------------------------
(* Small instances of a CAD incident for TLC. *)
EXTENDS CadUpdates, TLC

\* The messages: the first one, two that correct it and one that changes nothing, with the CAD's
\* own times; the remark carries no time.
TheText == [m \in Messages |->
    CASE m = "call" -> "A" [] m = "correction" -> "B" [] m = "remark" -> "C" [] OTHER -> "A"]
TheTime == [m \in Messages |->
    CASE m = "call" -> 1 [] m = "correction" -> 3 [] m = "remark" -> 0 [] OTHER -> 2]

\* Deliveries are named for their message, with a second arrival of some.
TheContent == [d \in Deliveries |->
    CASE d \in {"call", "call again"} -> "call"
      [] d \in {"correction", "correction again", "correction re-signed"} -> "correction"
      [] OTHER -> d]

\* An identical retry has the token of the first arrival; a re-signed one has its own.
TheToken == [d \in Deliveries |-> IF d = "correction again" THEN "correction" ELSE d]

\* Members who are all eligible and reachable are interchangeable.
MemberSymmetry == Permutations(Members)
=============================================================================
