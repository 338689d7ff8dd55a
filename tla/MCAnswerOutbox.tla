--------------------------- MODULE MCAnswerOutbox ---------------------------
(* Small instances of the phone's answers and the dispatch roster for TLC. *)
EXTENDS AnswerOutbox, TLC

CONSTANTS a1, b1   \* a member who is paged, and one who shares the phone

TheCallee == [c \in Calls |-> a1]
=============================================================================
