-------------------------- MODULE MCAuthorityGateway --------------------------
(* Two calls of one tool whose budget they use up between them. *)
EXTENDS AuthorityGateway

MCCalls == {"labels1", "labels2"}
MCTools == {"labels"}
MCToolOf == [c \in MCCalls |-> "labels"]
MCMaxCalls == [t \in MCTools |-> 2]
=============================================================================
