--------------------------- MODULE MutationReceipt ---------------------------
(***************************************************************************)
(* What one deferred GitHub mutation promises its caller, independently of *)
(* reads, retries, timeouts and postconditions: the receipt never claims   *)
(* less about the outside world than what is true of it.                   *)
(*                                                                         *)
(* "Exposed" means that a write of ours was handed to GitHub and is not    *)
(* known to have been refused; "landed" means GitHub applied one.          *)
(***************************************************************************)

VARIABLES
    exposed,    \* TRUE iff a write may have taken, or may still take, effect
    landed,     \* TRUE iff GitHub has applied a write of ours
    receipt     \* "open" until the mutation reports, then its final claim

vars == <<exposed, landed, receipt>>

Claims == {"unchanged", "none", "possible", "confirmed", "updated"}

TypeOK ==
    /\ exposed \in BOOLEAN
    /\ landed \in BOOLEAN
    /\ receipt \in Claims \cup {"open"}

Init ==
    /\ exposed = FALSE
    /\ landed = FALSE
    /\ receipt = "open"

\* A write leaves the Controller, only while the mutation has not reported.
Expose ==
    /\ receipt = "open"
    /\ exposed' = TRUE
    /\ UNCHANGED <<landed, receipt>>

\* GitHub applies a write it holds, possibly long after the report.
Land ==
    /\ exposed
    /\ landed' = TRUE
    /\ UNCHANGED <<exposed, receipt>>

\* GitHub refuses the only write there was.
Refuse ==
    /\ ~landed
    /\ exposed' = FALSE
    /\ UNCHANGED <<landed, receipt>>

\* The two claims that deny an effect need that nothing is exposed, the claim
\* that affirms one needs that a write landed. "updated" only says that the
\* requested value was observed, "possible" says nothing.
Report(claim) ==
    /\ receipt = "open"
    /\ claim \in {"unchanged", "none"} => ~exposed
    /\ claim = "confirmed" => landed
    /\ receipt' = claim
    /\ UNCHANGED <<exposed, landed>>

Next ==
    \/ Expose
    \/ Land
    \/ Refuse
    \/ \E claim \in Claims : Report(claim)

Spec == Init /\ [][Next]_vars
=============================================================================
