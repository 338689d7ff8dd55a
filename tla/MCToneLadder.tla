---------------------------- MODULE MCToneLadder ----------------------------
(* Small instances of the tone ladder for TLC. *)
EXTENDS ToneLadder, TLC

\* The deliveries of one schedule are interchangeable.
TwinSymmetry == Permutations(Timers2) \cup Permutations(Timers3)
=============================================================================
