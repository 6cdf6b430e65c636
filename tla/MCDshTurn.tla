----------------------------- MODULE MCDshTurn -----------------------------
(* Two tools of one owner: one call of the first, and two in all.  A       *)
(* runtime of one package, a plugin of a version and a bundle of a commit. *)
(* The first turn binds a runtime without a network; the second may ask    *)
(* for the same, for another or for one that contradicts itself.           *)
EXTENDS DshTurn

MCTools == {"read", "search"}
MCGroups == {"owner"}
MCGroupOf == [t \in MCTools |-> "owner"]
MCMaxCalls == [t \in MCTools |-> IF t = "read" THEN 1 ELSE 2]
MCGroupMaxCalls == [g \in MCGroups |-> 2]
MCPlain == [bash |-> FALSE, network |-> FALSE, webSearch |-> FALSE, searchBase |-> FALSE]
MCRequests == <<{MCPlain}, {MCPlain, [MCPlain EXCEPT !.network = TRUE],
                            [MCPlain EXCEPT !.webSearch = TRUE]}>>
MCCallIds == {"c1", "c2"}

=============================================================================
