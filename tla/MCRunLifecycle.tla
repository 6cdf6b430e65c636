--------------------------- MODULE MCRunLifecycle ---------------------------
(* A small instance of RunLifecycle: two turns, one or two failing requests. *)
EXTENDS RunLifecycle

MCOperations == {"task", "review", "edit", "fix"}
=============================================================================
