----------------------------- MODULE MCDrillRun -----------------------------
(***************************************************************************)
(* An instance of DrillRun for TLC, of a recipe with a dump: the database  *)
(* starts first, the application and its cache once the dump is loaded.    *)
(***************************************************************************)
EXTENDS DrillRun

AppNeeds == [s \in Services |-> IF s = "app" THEN Services ELSE {s}]

DumpInputs == <<"dump", "tree", "sqlite">>

InDb == [i \in 1..3 |-> "db"]
=============================================================================
