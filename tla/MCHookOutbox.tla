---------------------------- MODULE MCHookOutbox ----------------------------
(* Instances for the runs of HookOutbox. *)
EXTENDS HookOutbox

=============================================================================
