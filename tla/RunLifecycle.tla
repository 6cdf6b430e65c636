---------------------------- MODULE RunLifecycle ----------------------------
(***************************************************************************)
(* A run from preparation to outcome, as its user sees it: the outcome of  *)
(* the job and the sticky comment (orchestrator.ts, orchestration/         *)
(* lifecycle.ts, prepare.ts, agent-phase.ts).  The Agent, the flush and    *)
(* the write are steps that return or fail; ControllerRun and              *)
(* PullRequestOperation say what happens in them.                          *)
(*                                                                         *)
(* Two things may end a run early: the user's signal, which has a listener *)
(* of its own, and the run's deadline.  Both abort the run's signal, whose *)
(* reason is the first of them.  An error travels from where it is thrown  *)
(* through the loop's cleanup, the publication of the failure, the removal *)
(* of the workspace and the last wait for the comment.                     *)
(***************************************************************************)
EXTENDS StickyProgress

CONSTANTS
    Operations,     \* subset of {"task", "review", "edit", "fix"}; "edit" is a task --write
    MaxTurns        \* maxTurns

ASSUME LifecycleAssumption ==
    /\ Operations \subseteq {"task", "review", "edit", "fix"}
    /\ MaxTurns \in Nat

VARIABLES
    operation,
    progressComment,    \* the input that asks for lifecycle updates
    tracking,           \* state.progress is defined
    at,                 \* what the run awaits
    phase,              \* state.phase
    turn,
    cleared,            \* a write may be spoken of: see Writes below
    reason,             \* why the run's signal is aborted, "none" if it is not
    cancelled,          \* the user's signal is aborted
    attempt,            \* state.progressFailure
    verdict,            \* what the run is about to return or throw
    outcome

runVars  == <<operation, progressComment, tracking, at, phase, turn, cleared,
              reason, cancelled, attempt, verdict, outcome>>
vars     == <<runVars, progressVars>>
settings == <<operation, progressComment>>

Points ==
    {"prepare", "announce", "workspace", "execution", "turn", "hook", "agent", "finalize",
     "finalizing", "validating", "writing", "retry", "publish", "publishing",
     "cleanup", "closing", "dispose", "finish", "over"}

TypeOK ==
    /\ ProgressTypeOK
    /\ operation \in Operations
    /\ progressComment \in BOOLEAN /\ tracking \in BOOLEAN /\ cleared \in BOOLEAN
    /\ at \in Points
    /\ phase \in {"authorization", "context", "agent", "publication", "validation", "write"}
    /\ turn \in 0..MaxTurns
    /\ reason \in {"none", "cancel", "deadline"}
    /\ cancelled \in BOOLEAN
    /\ attempt \in Failures \cup {"none"}
    /\ verdict \in Failures \cup {"none", "success", "neutral"}
    /\ outcome \in Failures \cup {"none", "success", "neutral"}

Init ==
    /\ ProgressInit
    /\ operation \in Operations
    /\ progressComment \in BOOLEAN
    /\ tracking = FALSE
    /\ at = "prepare"
    /\ phase = "authorization"
    /\ turn = 0
    /\ cleared = FALSE
    /\ reason = "none"
    /\ cancelled = FALSE
    /\ attempt = "none"
    /\ verdict = "none"
    /\ outcome = "none"

-----------------------------------------------------------------------------

(* A write may be spoken of once it is validated, by this attempt or by    *)
(* the earlier one whose pull request it finds, or known to change nothing. *)
Writes == {"edit", "fix"}

(* A mutant: writes announce themselves like reads. *)
DeferredNever == FALSE

(* deferProgressUntilWriteValidation *)
Deferred == operation \in Writes

Aborted == reason # "none"

(* The reason of the run's signal, as the error it becomes. *)
Reason == IF reason = "cancel" THEN "cancelled" ELSE "timeout"

(* An operation of the Controller fails of itself, or because of the signal. *)
FailureOfStep == {"other"} \cup (IF Aborted THEN {Reason} ELSE {})

Phase(p) == phase' = p

Goto(point) == at' = point

Throw(error) ==
    /\ verdict' = error
    /\ Goto("cleanup")

(* onTurn, onValidationRetry and finalize update the comment if there is one. *)
Tell(text) ==
    /\ IF tracking THEN Update(text) ELSE UNCHANGED reporterVars
    /\ UNCHANGED gitHubVars

(* startProgressFailure: the failure to publish is the first one, unless   *)
(* that was a cancellation.                                                *)
StartProgressFailure(error, already) ==
    IF /\ tracking
       /\ attempt = "none" \/ (attempt = "cancelled" /\ error # "cancelled")
    THEN /\ attempt' = error
         /\ Fail(error, already)
    ELSE /\ cut' = cut \cup already
         /\ UNCHANGED <<attempt, pc, body, said, terminal>>

-----------------------------------------------------------------------------
(* What ends a run early. *)

RunSignal == {"progress", "result"}     \* what the run's signal aborts

(* A mutant: the listener does not look at the phase. *)
UserCancelsAnytime ==
    /\ at # "over" /\ ~cancelled
    /\ cancelled' = TRUE
    /\ reason' = IF Aborted THEN reason ELSE "cancel"
    /\ StartProgressFailure("cancelled", RunSignal)
    /\ UNCHANGED <<settings, tracking, at, phase, turn, cleared, verdict, outcome>>
    /\ UNCHANGED gitHubVars

(* The listener of the user's signal publishes a provisional cancellation, *)
(* but not once the run is publishing or writing.                          *)
UserCancels ==
    /\ at # "over" /\ ~cancelled
    /\ cancelled' = TRUE
    /\ reason' = IF Aborted THEN reason ELSE "cancel"
    /\ IF phase \in {"publication", "write"}
       THEN /\ cut' = cut \cup RunSignal
            /\ UNCHANGED <<attempt, pc, body, said, terminal>>
       ELSE StartProgressFailure("cancelled", RunSignal)
    /\ UNCHANGED <<settings, tracking, at, phase, turn, cleared, verdict, outcome>>
    /\ UNCHANGED gitHubVars

(* createRunDeadline: the deadline has no listener. *)
DeadlineExpires ==
    /\ at # "over" /\ ~Aborted
    /\ reason' = "deadline"
    /\ cut' = cut \cup RunSignal
    /\ UNCHANGED <<settings, tracking, at, phase, turn, cleared, cancelled, attempt,
                   verdict, outcome>>
    /\ UNCHANGED <<pc, body, said, terminal>> /\ UNCHANGED gitHubVars

-----------------------------------------------------------------------------
(* Preparation. *)

(* An authorized run that may tell about itself begins to do so. *)
Prepare ==
    /\ at = "prepare" /\ ~Aborted
    /\ tracking' = (progressComment /\ ~Deferred)
    /\ IF tracking'
       THEN Goto("announce") /\ Update("context") /\ UNCHANGED phase
       ELSE Goto("workspace") /\ Phase("context") /\ UNCHANGED reporterVars
    /\ UNCHANGED <<settings, turn, cleared, reason, cancelled, attempt, verdict, outcome>>
    /\ UNCHANGED gitHubVars

(* An error of the preparation is caught by runAction itself. *)
PreparationFails ==
    /\ at = "prepare"
    /\ verdict' \in FailureOfStep
    /\ Goto("finish")
    /\ UNCHANGED <<settings, tracking, phase, turn, cleared, reason, cancelled, attempt, outcome>>
    /\ UNCHANGED progressVars

(* The update has been published or given up; throwIfCancelled. *)
Announced ==
    /\ at = "announce" /\ Idle("progress")
    /\ IF Aborted
       THEN /\ verdict' = Reason
            /\ Goto("finish")
            /\ StartProgressFailure(Reason, {})
            /\ UNCHANGED phase
       ELSE /\ Goto("workspace")
            /\ Phase("context")
            /\ UNCHANGED <<verdict, attempt>> /\ UNCHANGED reporterVars
    /\ UNCHANGED <<settings, tracking, turn, cleared, reason, cancelled, outcome>>
    /\ UNCHANGED gitHubVars

(* prepareWorkspace tells of its failure before it cleans up after itself. *)
WorkspacePrepared ==
    /\ at = "workspace"
    /\ \/ ~Aborted /\ Goto("execution") /\ UNCHANGED verdict
       \/ \E error \in FailureOfStep : Throw(error)
    /\ UNCHANGED <<settings, tracking, phase, turn, cleared, reason, cancelled, attempt, outcome>>
    /\ UNCHANGED progressVars

(* prepareExecution, and the runtime under its own timer. *)
ExecutionPrepared ==
    /\ at = "execution"
    /\ \/ /\ ~Aborted
          /\ Goto("turn") /\ Phase("agent") /\ UNCHANGED verdict
       \/ /\ \E error \in FailureOfStep \cup {"timeout"} : Throw(error)
          /\ UNCHANGED phase
    /\ UNCHANGED <<settings, tracking, turn, cleared, reason, cancelled, attempt, outcome>>
    /\ UNCHANGED progressVars

-----------------------------------------------------------------------------
(* The Agent loop. *)

TurnsLeft == turn < MaxTurns

BeginTurn ==
    /\ at = "turn"
    /\ IF TurnsLeft /\ ~Aborted
       THEN /\ turn' = turn + 1
            /\ Goto("hook") /\ Phase("agent") /\ Tell("turn")
            /\ UNCHANGED verdict
       ELSE /\ Throw(IF Aborted THEN Reason ELSE "other")
            /\ UNCHANGED <<turn, phase>> /\ UNCHANGED progressVars
    /\ UNCHANGED <<settings, tracking, cleared, reason, cancelled, attempt, outcome>>

(* runLifecycleHookWithinDeadline: the update is awaited, for a minute at  *)
(* most and not after an abort; it is not itself aborted by that minute.   *)
HookEnds ==
    /\ at \in {"hook", "retry"}
    /\ \/ /\ Idle("progress") /\ ~Aborted
          /\ Goto(IF at = "hook" THEN "agent" ELSE "turn")
          /\ UNCHANGED verdict
       \/ Aborted /\ Throw(Reason)
       \/ ~Idle("progress") /\ Throw("timeout")
       \/ at = "retry" /\ Throw("other")           \* no progress since the last failure
    /\ UNCHANGED <<settings, tracking, phase, turn, cleared, reason, cancelled, attempt, outcome>>
    /\ UNCHANGED progressVars

(* A turn ends with an answer, a tool request or a failure.  The process   *)
(* reports any abort of its signal as a cancellation.                      *)
AgentAnswers ==
    /\ at = "agent" /\ ~Aborted
    /\ at' \in {"turn", "finalize"}
    /\ UNCHANGED <<settings, tracking, phase, turn, cleared, reason, cancelled, attempt,
                   verdict, outcome>>
    /\ UNCHANGED progressVars

AgentFails ==
    /\ at = "agent"
    /\ \E error \in FailureOfStep \cup (IF Aborted THEN {"cancelled"} ELSE {}) : Throw(error)
    /\ UNCHANGED <<settings, tracking, phase, turn, cleared, reason, cancelled, attempt, outcome>>
    /\ UNCHANGED progressVars

(* Blocked: the answer to a task is published if no comment is kept. *)
AgentBlocked ==
    /\ at = "agent" /\ ~Aborted
    /\ verdict' = "neutral"
    /\ Phase("publication")
    /\ Goto(IF operation = "task" /\ ~tracking THEN "publish" ELSE "cleanup")
    /\ UNCHANGED <<settings, tracking, turn, cleared, reason, cancelled, attempt, outcome>>
    /\ UNCHANGED progressVars

-----------------------------------------------------------------------------
(* The finalizers. *)

FinalizeReview ==
    /\ at = "finalize" /\ operation = "review"
    /\ Phase("publication")
    /\ Tell("finalizing")
    /\ Goto("finalizing")
    /\ UNCHANGED <<settings, tracking, turn, cleared, reason, cancelled, attempt, verdict, outcome>>

ReviewAnnounced ==
    /\ at = "finalizing" /\ Idle("progress")
    /\ Goto("publish")
    /\ UNCHANGED <<settings, tracking, phase, turn, cleared, reason, cancelled, attempt,
                   verdict, outcome>>
    /\ UNCHANGED progressVars

(* A task that changes nothing: the flush, then the answer. *)
FinalizeAnswer ==
    /\ at = "finalize" /\ operation \in {"task", "edit"} /\ ~Aborted
    /\ cleared' = TRUE
    /\ Phase("publication")
    /\ Goto("publish")
    /\ UNCHANGED <<settings, tracking, turn, reason, cancelled, attempt, verdict, outcome>>
    /\ UNCHANGED progressVars

FinalizeWrite ==
    /\ at = "finalize" /\ operation \in Writes /\ ~Aborted
    /\ Phase("validation")
    /\ Goto("validating")
    /\ UNCHANGED <<settings, tracking, turn, cleared, reason, cancelled, attempt, verdict, outcome>>
    /\ UNCHANGED progressVars

WriteValidated ==
    /\ at = "validating" /\ ~Aborted
    /\ cleared' = TRUE
    /\ Phase("write")
    /\ Goto("writing")
    /\ UNCHANGED <<settings, tracking, turn, reason, cancelled, attempt, verdict, outcome>>
    /\ UNCHANGED progressVars

(* An earlier attempt has made the pull request. *)
WriteFound ==
    /\ at = "validating" /\ operation = "edit"
    /\ cleared' = TRUE
    /\ verdict' = "success"
    /\ Goto("cleanup")
    /\ UNCHANGED <<settings, tracking, phase, turn, reason, cancelled, attempt, outcome>>
    /\ UNCHANGED progressVars

(* The write and the flush behind it.  A fix goes on to its own comment. *)
WriteDone ==
    /\ at = "writing"
    /\ IF operation = "fix"
       THEN Goto("publish") /\ UNCHANGED verdict
       ELSE Goto("cleanup") /\ verdict' = "success"
    /\ UNCHANGED <<settings, tracking, phase, turn, cleared, reason, cancelled, attempt, outcome>>
    /\ UNCHANGED progressVars

(* A failed validation of the workspace sends the run round again. *)
ValidationRetried ==
    /\ at \in {"finalize", "validating"} /\ operation # "review" /\ ~Aborted
    /\ Tell("retry")
    /\ Goto("retry")
    /\ UNCHANGED <<settings, tracking, phase, turn, cleared, reason, cancelled, attempt,
                   verdict, outcome>>

FinalizerFails ==
    /\ \/ at \in {"finalize", "validating", "writing"}
       \/ at = "publish" /\ operation # "fix"
    /\ \E error \in FailureOfStep \cup {"timeout"} : Throw(error)
    /\ UNCHANGED <<settings, tracking, phase, turn, cleared, reason, cancelled, attempt, outcome>>
    /\ UNCHANGED progressVars

(* publishTaskAnswer, finishReview, finishDiagnosis, publishStatusComment. *)
PublishResult ==
    /\ at = "publish" /\ ~Aborted
    /\ Publish("result", "result")
    /\ Goto("publishing")
    /\ UNCHANGED <<cut, terminal>> /\ UNCHANGED gitHubVars
    /\ UNCHANGED <<settings, tracking, phase, turn, cleared, reason, cancelled, attempt,
                   verdict, outcome>>

(* A fix has been pushed by now: its comment no longer decides. *)
ResultPublished ==
    /\ \/ at = "publishing" /\ Idle("result")
       \/ at = "publish" /\ operation = "fix" /\ Aborted
    /\ \/ /\ said["result"] = "ok" \/ operation = "fix"
          /\ verdict' = IF verdict = "neutral" THEN "neutral" ELSE "success"
          /\ Goto("cleanup")
       \/ /\ said["result"] # "ok" /\ operation # "fix"
          /\ \E error \in FailureOfStep : Throw(error)
    /\ UNCHANGED <<settings, tracking, phase, turn, cleared, reason, cancelled, attempt, outcome>>
    /\ UNCHANGED progressVars

-----------------------------------------------------------------------------
(* The way out. *)

(* The loop has cleaned up; the run closes its comment or publishes the    *)
(* failure.                                                                *)
CloseComment ==
    /\ at = "cleanup"
    /\ \/ /\ verdict = "neutral"
          /\ UNCHANGED <<tracking, attempt>>
          /\ IF tracking THEN Close("blocked") ELSE UNCHANGED reporterVars
          /\ Goto("closing")
       \/ /\ verdict = "success"
          /\ tracking' = (tracking \/ (operation = "edit" /\ phase # "publication"
                                       /\ progressComment))
          /\ IF operation = "edit" /\ tracking'
             THEN Close("complete")
             ELSE UNCHANGED reporterVars
          /\ Goto("closing")
          /\ UNCHANGED attempt
       \/ /\ verdict \in Failures
          /\ StartProgressFailure(verdict, {})
          /\ Goto("dispose")
          /\ UNCHANGED tracking
    /\ UNCHANGED <<settings, phase, turn, cleared, reason, cancelled, verdict, outcome>>
    /\ UNCHANGED gitHubVars

Closed ==
    /\ at = "closing" /\ Idle("final")
    /\ Goto("dispose")
    /\ UNCHANGED <<settings, tracking, phase, turn, cleared, reason, cancelled, attempt,
                   verdict, outcome>>
    /\ UNCHANGED progressVars

(* finishProgressFailure starts an attempt if there is none yet, and waits *)
(* five seconds from the start of the attempt.                             *)
Disposed ==
    /\ at = "dispose" /\ verdict \in Failures
    /\ StartProgressFailure(verdict, {})
    /\ Goto("finish")
    /\ UNCHANGED <<settings, tracking, phase, turn, cleared, reason, cancelled, verdict, outcome>>
    /\ UNCHANGED gitHubVars

(* process.exit: whatever is on its way is on its own. *)
Report ==
    /\ \/ at = "finish"
       \/ at = "dispose" /\ verdict \notin Failures
    /\ outcome' = verdict
    /\ Goto("over")
    /\ adrift' = adrift \cup {[aim |-> aim[p], body |-> body[p]] :
                                 p \in {q \in Publications : pc[q] = "sent"}}
    /\ pc' = [p \in Publications |-> "idle"]
    /\ UNCHANGED <<comments, body, aim, said, cut, terminal, overtaken, faults>>
    /\ UNCHANGED <<settings, tracking, phase, turn, cleared, reason, cancelled, attempt, verdict>>

-----------------------------------------------------------------------------

Controller ==
    \/ Prepare \/ PreparationFails \/ Announced \/ WorkspacePrepared
    \/ ExecutionPrepared
    \/ BeginTurn \/ HookEnds \/ AgentAnswers \/ AgentFails \/ AgentBlocked
    \/ FinalizeReview \/ ReviewAnnounced \/ FinalizeAnswer \/ FinalizeWrite
    \/ WriteValidated \/ WriteFound \/ WriteDone \/ ValidationRetried \/ FinalizerFails
    \/ PublishResult \/ ResultPublished
    \/ CloseComment \/ Closed \/ Disposed \/ Report

Publishing ==
    /\ \/ Network
       \/ \E p \in Publications : Rejected(p) \/ FinalizationTimesOut(p)
    /\ UNCHANGED runVars

Next == Controller \/ Publishing \/ UserCancels \/ DeadlineExpires

(* Only timers are fair.  The deadline aborts the run's signal; after it   *)
(* every wait of the Controller ends, one way or another.                  *)
Fairness ==
    /\ WF_vars(DeadlineExpires)
    /\ WF_vars(Aborted /\ Controller)
    /\ WF_vars(\E p \in Publications : Rejected(p) /\ UNCHANGED runVars)
    /\ WF_vars(\E p \in Publications : FinalizationTimesOut(p) /\ UNCHANGED runVars)

Spec == Init /\ [][Next]_vars /\ Fairness

-----------------------------------------------------------------------------
(* Properties. *)

(* Once a run has published its end, no intermediate update is sent any    *)
(* more, not even one that was looking for its comment at that moment      *)
(* (progress.ts:241).                                                      *)
NoProgressAfterTerminal ==
    [][terminal # "none" =>
          ~ (pc["progress"] # "sent" /\ pc'["progress"] = "sent")]_vars

(* The end told in the comment is the outcome of the job: a failure is the *)
(* same failure, a cancellation that was published too early is corrected, *)
(* and a run that cancellation could no longer stop does not tell of one   *)
(* (lifecycle.ts:116-149, orchestrator.ts:116-142).                        *)
CommentTellsOutcome ==
    at = "over" /\ tracking =>
        \/ outcome \in Failures /\ terminal = outcome
        \/ outcome = "neutral" /\ terminal = "blocked"
        \/ outcome = "success" /\ operation = "edit" /\ terminal = "complete"
        \/ outcome = "success" /\ operation # "edit" /\ terminal = "none"

LastPublication ==
    CHOOSE p \in Publications :
        /\ body[p] # "none"
        /\ \A q \in Publications \ {p} :
              body[q] # "none" => <<q, p>> \in {"progress"} \X {"result", "final", "correction"}
                                           \cup {"result"} \X {"final", "correction"}
                                           \cup {"final"} \X {"correction"}

(* If the last publication of a run was acknowledged, the last comment is  *)
(* what it said: nothing earlier overwrites it.  The one exception is a    *)
(* request the Controller had given up.                                    *)
LastWord ==
    at = "over" /\ ~overtaken
       /\ (\E p \in Publications : body[p] # "none")
       /\ said[LastPublication] = "ok"
    => comments[Len(comments)] = body[LastPublication]

(* One run, however often it publishes and whatever answers are lost, adds *)
(* at most one comment, unless a creation it had given up lands            *)
(* (comments.ts:137-150).                                                  *)
OneComment == Len(comments) > 1 => overtaken

(* A write says nothing until it is cleared, its failure and its           *)
(* cancellation included (context.ts:26-30).                               *)
WritesAreSilent ==
    operation \in Writes /\ ~cleared =>
        /\ \A p \in Publications : body[p] = "none"
        /\ comments \in {<<>>, <<"earlier">>}

(* A run ends, whatever GitHub, the Agent or the comment do.               *)
RunEnds == <>(at = "over")

(* What docs/troubleshooting.md says of the deadline: it has a code of its *)
(* own.  A run reported as cancelled was cancelled.                        *)
CancelledByUser == outcome = "cancelled" => cancelled

=============================================================================
