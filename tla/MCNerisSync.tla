---------------------------- MODULE MCNerisSync ----------------------------
(* Small instances of one report on its way to NERIS and back for TLC. *)
EXTENDS NerisSync, TLC
=============================================================================
