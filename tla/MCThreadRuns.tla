---------------------------- MODULE MCThreadRuns ----------------------------
(***************************************************************************)
(* The instances of ThreadRuns that TLC checks; their configurations say   *)
(* how many workers, calls and crashes.                                    *)
(***************************************************************************)
EXTENDS ThreadRunsGate

=============================================================================
