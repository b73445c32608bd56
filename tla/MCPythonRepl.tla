---------------------------- MODULE MCPythonRepl ----------------------------
(***************************************************************************)
(* The instances of PythonRepl that TLC checks; their configurations name  *)
(* the calls and say how much each snippet prints.                         *)
(***************************************************************************)
EXTENDS PythonRepl

=============================================================================
