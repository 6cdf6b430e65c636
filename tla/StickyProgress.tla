--------------------------- MODULE StickyProgress ---------------------------
(***************************************************************************)
(* The one comment in which a run tells its progress and its end           *)
(* (github/progress.ts), and the upsert behind it (github/comments.ts).    *)
(*                                                                         *)
(* A comment carries a marker of its kind; whoever publishes lists the     *)
(* comments with the marker, updates the last one, or creates one.  Four   *)
(* publications of a run may overlap: the intermediate "progress", the     *)
(* "final" state, the "correction" of a provisional cancellation, and the  *)
(* "result", which the run publishes itself.  Each has its own signal.     *)
(* The texts of a run all differ, so a body is a name.                     *)
(*                                                                         *)
(* Callers await each progress update before the next, so the reporter's   *)
(* queue never holds more than the update it is publishing.                *)
(***************************************************************************)
EXTENDS Naturals, Sequences

CONSTANTS
    MaxFaults       \* how many requests of a run GitHub or the network fails

ASSUME FaultsAssumption == MaxFaults \in Nat

Publications == {"progress", "final", "correction", "result"}

Failures == {"cancelled", "timeout", "other"}

Bodies ==
    Failures \cup {"earlier", "context", "turn", "retry", "finalizing",
                   "result", "complete", "blocked"}

VARIABLES
    comments,       \* bodies of the comments with the marker, oldest first
    pc,             \* what each publication waits for
    body,           \* what it publishes
    aim,            \* the comment it updates, 0 when it creates one
    said,           \* how its last upsert ended: "none", "ok", "failed"
    cut,            \* publications whose signal is aborted
    terminal,       \* terminalState, "none" before the end
    adrift,         \* requests given up by the Controller that may yet land
    overtaken,      \* whether one of them has landed
    faults

reporterVars == <<body, said, pc, cut, terminal>>
gitHubVars   == <<comments, aim, adrift, overtaken, faults>>
progressVars == <<comments, pc, body, aim, said, cut, terminal, adrift, overtaken, faults>>

Request == [aim : Nat, body : Bodies]

ProgressTypeOK ==
    /\ comments \in Seq(Bodies)
    /\ pc \in [Publications -> {"idle", "list", "sent", "served", "relist"}]
    /\ body \in [Publications -> Bodies \cup {"none"}]
    /\ aim \in [Publications -> Nat]
    /\ said \in [Publications -> {"none", "ok", "failed"}]
    /\ cut \subseteq Publications
    /\ terminal \in Failures \cup {"none", "complete", "blocked"}
    /\ adrift \subseteq Request
    /\ overtaken \in BOOLEAN
    /\ faults \in 0..MaxFaults

ProgressInit ==
    /\ comments \in {<<>>, <<"earlier">>}
    /\ pc = [p \in Publications |-> "idle"]
    /\ body = [p \in Publications |-> "none"]
    /\ aim = [p \in Publications |-> 0]
    /\ said = [p \in Publications |-> "none"]
    /\ cut = {}
    /\ terminal = "none"
    /\ adrift = {}
    /\ overtaken = FALSE
    /\ faults = 0

Idle(p) == pc[p] = "idle"

-----------------------------------------------------------------------------
(* What the reporter's methods do before they wait.  A publication begins  *)
(* with its list request.                                                  *)

Publish(p, text) ==
    /\ pc' = [pc EXCEPT ![p] = "list"]
    /\ body' = [body EXCEPT ![p] = text]
    /\ said' = [said EXCEPT ![p] = "none"]

(* update: nothing is published after the end or under an aborted signal. *)
Update(text) ==
    /\ IF terminal = "none" /\ "progress" \notin cut
       THEN Publish("progress", text)
       ELSE UNCHANGED <<pc, body, said>>
    /\ UNCHANGED <<cut, terminal>>

(* A mutant: the update in flight keeps its signal. *)
PublishTerminalBeside(state, already) ==
    /\ terminal' = state
    /\ cut' = cut \cup already
    /\ Publish("final", state)

(* publishTerminal: the end supersedes the progress in flight. `already`   *)
(* are the signals aborted by what caused the end.                         *)
PublishTerminal(state, already) ==
    /\ terminal' = state
    /\ cut' = cut \cup already \cup {"progress"}
    /\ Publish("final", state)

(* A mutant: the provisional publication keeps its signal. *)
CorrectBeside(state, already) ==
    /\ terminal' = state
    /\ cut' = cut \cup already
    /\ Publish("correction", state)

(* correctProvisionalTerminal: the true end supersedes the cancellation. *)
CorrectProvisionalTerminal(state, already) ==
    /\ terminal' = state
    /\ cut' = cut \cup already \cup {"final"}
    /\ Publish("correction", state)

(* complete, blocked: the first end counts. *)
Close(state) ==
    IF terminal = "none"
    THEN PublishTerminal(state, {})
    ELSE UNCHANGED reporterVars

(* fail: a provisional cancellation yields to another failure. *)
Fail(failure, already) ==
    \/ /\ terminal = "none"
       /\ PublishTerminal(failure, already)
    \/ /\ terminal = "cancelled"
       /\ failure # "cancelled"
       /\ CorrectProvisionalTerminal(failure, already)
    \/ /\ terminal # "none"
       /\ terminal # "cancelled" \/ failure = "cancelled"
       /\ cut' = cut \cup already
       /\ UNCHANGED <<pc, body, said, terminal>>

-----------------------------------------------------------------------------
(* The upsert, one action for each way a request may end. *)

End(p, how) ==
    /\ pc' = [pc EXCEPT ![p] = "idle"]
    /\ said' = [said EXCEPT ![p] = how]

Fault ==
    /\ faults < MaxFaults
    /\ faults' = faults + 1

Written(a, text) ==
    IF a = 0 THEN Append(comments, text) ELSE [comments EXCEPT ![a] = text]

(* indexTrackingComments(...).at(-1), 0 if there is none. *)
LastTracked == Len(comments)

Listed(p) ==
    /\ pc[p] = "list" /\ p \notin cut
    /\ aim' = [aim EXCEPT ![p] = LastTracked]
    /\ pc' = [pc EXCEPT ![p] = "sent"]
    /\ UNCHANGED <<comments, body, said, cut, terminal, adrift, overtaken, faults>>

Served(p) ==
    /\ pc[p] = "sent" /\ p \notin cut
    /\ comments' = Written(aim[p], body[p])
    /\ pc' = [pc EXCEPT ![p] = "served"]
    /\ UNCHANGED <<body, aim, said, cut, terminal, adrift, overtaken, faults>>

Answered(p) ==
    /\ pc[p] = "served" /\ p \notin cut
    /\ End(p, "ok")
    /\ UNCHANGED <<body, cut, terminal>> /\ UNCHANGED gitHubVars

(* A mutant: a failed creation is tried again. *)
DoubtedRepeats(p) ==
    IF aim[p] = 0
    THEN /\ pc' = [pc EXCEPT ![p] = "sent"]
         /\ UNCHANGED said
    ELSE End(p, "failed")

(* A failed creation may have succeeded: look again before giving up. *)
Doubted(p) ==
    IF aim[p] = 0
    THEN /\ pc' = [pc EXCEPT ![p] = "relist"]
         /\ UNCHANGED said
    ELSE End(p, "failed")

WriteFails(p) ==
    /\ p \notin cut
    /\ Fault
    /\ \/ /\ pc[p] = "served"                      \* the answer is lost
          /\ UNCHANGED adrift
       \/ /\ pc[p] = "sent"                        \* refused
          /\ UNCHANGED adrift
       \/ /\ pc[p] = "sent"                        \* on its way, or gone
          /\ adrift' = adrift \cup {[aim |-> aim[p], body |-> body[p]]}
    /\ Doubted(p)
    /\ UNCHANGED <<comments, body, aim, cut, terminal, overtaken>>

(* Any comment with the marker counts as the one that was created. *)
Relisted(p) ==
    /\ pc[p] = "relist" /\ p \notin cut
    /\ End(p, IF LastTracked = 0 THEN "failed" ELSE "ok")
    /\ UNCHANGED <<body, cut, terminal>> /\ UNCHANGED gitHubVars

ListFails(p) ==
    /\ pc[p] \in {"list", "relist"} /\ p \notin cut
    /\ Fault
    /\ End(p, "failed")
    /\ UNCHANGED <<comments, body, aim, cut, terminal, adrift, overtaken>>

(* waitForCommentRequest: an abort rejects at once.  A request already     *)
(* sent may still be served.                                               *)
Rejected(p) ==
    /\ p \in cut /\ ~Idle(p)
    /\ adrift' = IF pc[p] = "sent"
                 THEN adrift \cup {[aim |-> aim[p], body |-> body[p]]}
                 ELSE adrift
    /\ End(p, "failed")
    /\ UNCHANGED <<comments, body, aim, cut, terminal, overtaken, faults>>

(* A mutant: a terminal publication has no timer. *)
FinalizationUntimed(p) ==
    /\ p \notin Publications
    /\ UNCHANGED progressVars

(* The timer of a terminal publication, five seconds. *)
FinalizationTimesOut(p) ==
    /\ p \in {"final", "correction"}
    /\ ~Idle(p) /\ p \notin cut
    /\ cut' = cut \cup {p}
    /\ UNCHANGED <<body, said, pc, terminal>> /\ UNCHANGED gitHubVars

AdriftLands ==
    \E r \in adrift :
        /\ comments' = Written(r.aim, r.body)
        /\ adrift' = adrift \ {r}
        /\ overtaken' = TRUE
        /\ UNCHANGED <<pc, body, aim, said, cut, terminal, faults>>

AdriftVanishes ==
    \E r \in adrift :
        /\ adrift' = adrift \ {r}
        /\ UNCHANGED <<comments, pc, body, aim, said, cut, terminal, overtaken, faults>>

Network ==
    \/ \E p \in Publications :
          \/ Listed(p) \/ Served(p) \/ Answered(p) \/ Relisted(p)
          \/ WriteFails(p) \/ ListFails(p)
    \/ AdriftLands
    \/ AdriftVanishes

=============================================================================
