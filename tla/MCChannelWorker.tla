-------------------------- MODULE MCChannelWorker --------------------------
(* Small instances of the channel worker for TLC. *)
EXTENDS ChannelWorker, TLC

Interchangeable == Permutations(Messages) \cup Permutations(Devices)
=============================================================================
