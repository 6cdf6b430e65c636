--------------------------- MODULE MCControllerRun ---------------------------
(* Three turns, two calls of one tool, two ways for validation to fail. *)
EXTENDS ControllerRun

MCCalls == {"labels1", "labels2"}
MCTools == {"labels"}
MCToolOf == [c \in MCCalls |-> "labels"]
MCMaxCalls == [t \in MCTools |-> 2]
MCFailures == {"exit", "timeout"}
=============================================================================
