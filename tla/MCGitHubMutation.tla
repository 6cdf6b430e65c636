--------------------------- MODULE MCGitHubMutation ---------------------------
(* A labels mutation on an entity with three possible label sets. *)
EXTENDS GitHubMutation

MCValues == {"old", "requested", "edited"}
MCTarget == "requested"
=============================================================================
