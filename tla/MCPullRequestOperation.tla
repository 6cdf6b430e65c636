----------------------- MODULE MCPullRequestOperation -----------------------
(* A run, a re-run and another; the Agent may produce two different trees. *)
EXTENDS FixOperation

MCTrees == {"t1", "t2"}
=============================================================================
