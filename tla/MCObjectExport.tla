----------------------------- MODULE MCObjectExport -----------------------------
(******************************************************************************)
(* Instances of ObjectExport for TLC.                                         *)
(******************************************************************************)
EXTENDS ObjectExportProps
================================================================================
