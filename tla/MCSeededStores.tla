---------------------------- MODULE MCSeededStores ----------------------------
(***************************************************************************)
(* The instances of SeededStores that TLC checks; their configurations say *)
(* how many callers, tables, calls and crashes.                            *)
(***************************************************************************)
EXTENDS SeededStores

=============================================================================
