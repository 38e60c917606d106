---------------------------- MODULE MCDinitCtl ----------------------------
(* Model-checking instance of DinitCtl: the records and dependency graph  *)
(* of MCService, and one name ("x") that no service description has.     *)
EXTENDS DinitCtl, MCService

====
