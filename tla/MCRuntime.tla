----------------------------- MODULE MCRuntime -----------------------------
(***************************************************************************)
(* Runtime on a few modules and handles, given in the .cfg files.  A       *)
(* module that was dropped never comes back, so the ids bound the run.     *)
(***************************************************************************)
EXTENDS Runtime
=============================================================================
