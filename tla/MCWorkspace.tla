----------------------------- MODULE MCWorkspace -----------------------------
(* The Workspace for model checking: the bounds are in the configuration. *)
EXTENDS Workspace
=============================================================================
