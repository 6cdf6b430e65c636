---------------------------- MODULE ControllerRun ----------------------------
(***************************************************************************)
(* One run of the Action from the first Agent turn to its conclusion:      *)
(* runAgentLoop with its tool requests, validation retries and cleanup,    *)
(* and runAgentPhase's blocked and finalize callbacks, composed with the   *)
(* gateway's queue and flush (AuthorityGateway).                           *)
(*                                                                         *)
(* Reviews and diagnoses are left out: their access is read-only, so no    *)
(* mutation tool can be enabled for them and their finalizer never flushes.*)
(***************************************************************************)
EXTENDS AuthorityGateway

CONSTANTS
    MaxTurns,   \* the max-turns input
    Failures    \* what a validation failure shows: argv, exit code, timed out

ASSUME MaxTurnsAssumption == MaxTurns \in Nat \ {0}

VARIABLES
    op,             \* "task", or "write" for implement and fix
    writable,       \* the policy lets the operation modify the workspace
    leftover,       \* a process of some turn outlives it
    repeats,        \* the write may meet a pull request completed before (not a fix's)
    step,           \* where the Controller is
    turn,
    issued,         \* callIds the Agent has used: they hash the turn, so none recurs
    failing,        \* pendingValidationFailure is set
    lastFailure,    \* lastValidationFingerprint, a set of at most one
    commits,        \* how often executeWrite has put a tree on GitHub and returned
    found,          \* executeWrite has returned for a pull request completed before
    half,           \* executeWrite has thrown with its tree on GitHub
    conclusion

loopVars == <<op, writable, leftover, repeats>>
writeVars == <<commits, found, half>>
controlVars == <<step, turn, failing, lastFailure, conclusion>>
vars == <<gatewayVars, loopVars, controlVars, issued, writeVars>>

Steps == {"turn", "finalize", "write", "accept", "flush-answer", "flush-write",
          "publish", "dispose", "done"}

TypeOKRun ==
    /\ TypeOK
    /\ op \in {"task", "write"} /\ writable \in BOOLEAN
    /\ leftover \in BOOLEAN /\ repeats \in BOOLEAN
    /\ step \in Steps
    /\ turn \in 1..MaxTurns
    /\ issued \in SUBSET Calls
    /\ failing \in BOOLEAN
    /\ lastFailure \in SUBSET (Failures \X AllTrees)
    /\ commits \in Nat /\ found \in BOOLEAN /\ half \in BOOLEAN
    /\ conclusion \in {"running", "blocked", "answer", "write", "failure"}

InitRun ==
    /\ Init
    /\ op \in {"task", "write"}
    /\ writable \in {w \in BOOLEAN : op = "write" => w}
    /\ leftover \in BOOLEAN
    /\ repeats \in BOOLEAN
    /\ step = "turn"
    /\ turn = 1
    /\ issued = {}
    /\ failing = FALSE
    /\ lastFailure = {}
    /\ commits = 0 /\ found = FALSE /\ half = FALSE
    /\ conclusion = "running"

-----------------------------------------------------------------------------
(* Ways to go on.  Each fixes all of controlVars. *)

Conclude(how) ==
    /\ step' = "dispose"
    /\ conclusion' = how
    /\ UNCHANGED <<turn, failing, lastFailure>>

GoTo(next) ==
    /\ step' = next
    /\ UNCHANGED <<turn, failing, lastFailure, conclusion>>

\* A mutant: a round that is not counted.
NextTurnUncounted ==
    IF turn < MaxTurns
    THEN step' = "turn" /\ UNCHANGED <<turn, conclusion>>
    ELSE step' = "dispose" /\ conclusion' = "failure" /\ UNCHANGED turn

\* The next round of the loop, unless it was the last one.
NextTurn ==
    IF turn < MaxTurns
    THEN step' = "turn" /\ turn' = turn + 1 /\ UNCHANGED conclusion
    ELSE step' = "dispose" /\ conclusion' = "failure" /\ UNCHANGED turn

\* A mutant: the failed validation is not remembered.
RetryForgetful ==
    \E f \in Failures :
        /\ lastFailure' = {<<f, tree>>}
        /\ IF aborted \/ <<f, tree>> \in lastFailure
           THEN step' = "dispose" /\ conclusion' = "failure" /\ UNCHANGED turn
           ELSE NextTurn
        /\ UNCHANGED failing

\* finalize threw a ValidationFailureError: another turn may repair the workspace,
\* unless the same failure on the same tree shows that no progress was made.
Retry ==
    \E f \in Failures :
        /\ failing' = TRUE
        /\ lastFailure' = {<<f, tree>>}
        /\ IF aborted \/ <<f, tree>> \in lastFailure
           THEN step' = "dispose" /\ conclusion' = "failure" /\ UNCHANGED turn
           ELSE NextTurn

-----------------------------------------------------------------------------
(* A turn of the loop *)

TurnEdits ==
    /\ step = "turn" /\ AgentEdits
    /\ UNCHANGED <<loopVars, controlVars, issued, writeVars>>

\* The Agent asks for a tool, and the loop goes round.
RequestTool(c) ==
    /\ step = "turn" /\ ~aborted
    /\ c \notin issued /\ issued' = issued \cup {c}
    /\ Invoke(c)
    /\ NextTurn
    /\ UNCHANGED <<loopVars, failing, lastFailure, writeVars>>

\* The engine fails, times out, is cancelled or answers nonsense; or a tool refuses.
TurnFails ==
    /\ step = "turn"
    /\ Conclude("failure")
    /\ UNCHANGED <<gatewayVars, loopVars, issued, writeVars>>

\* A blocked answer is published, but never hides a failed validation.
Block ==
    /\ step = "turn" /\ ~aborted
    /\ \E how \in {"blocked", "failure"} :
          /\ failing => how = "failure"
          /\ Conclude(how)
    /\ UNCHANGED <<gatewayVars, loopVars, issued, writeVars>>

Finalize ==
    /\ step = "turn" /\ ~aborted
    /\ GoTo("finalize")
    /\ UNCHANGED <<gatewayVars, loopVars, issued, writeVars>>

-----------------------------------------------------------------------------
(* finalize *)

\* session.flush: nothing to do unless something is queued.
FlushOr(flush, next) ==
    \/ pending # <<>> /\ FlushBegin /\ GoTo(flush)
    \/ pending = <<>> /\ next /\ UNCHANGED gatewayVars

\* A mutant: the answer path is taken for a changed workspace too.
AnswerChanged ==
    /\ step = "finalize" /\ ~aborted /\ op = "task"
    /\ FlushOr("flush-answer", GoTo("publish"))
    /\ UNCHANGED <<loopVars, issued, writeVars>>

\* A task that changed no file only has its queue to flush and its answer to publish.
Answer ==
    /\ step = "finalize" /\ ~aborted
    /\ op = "task" /\ tree = 0
    /\ FlushOr("flush-answer", GoTo("publish"))
    /\ UNCHANGED <<loopVars, issued, writeVars>>

BeginWrite ==
    /\ step = "finalize" /\ ~aborted
    /\ writable /\ (op = "task" => tree # 0)
    /\ copied' = tree
    /\ GoTo("write")
    /\ UNCHANGED <<queueVars, flushVars, treeVars, validated, before, vetted, runVars,
                   loopVars, issued, writeVars>>

\* Cancellation, an integrity denial, a read-only task with changes, a stale base, a
\* fingerprint that cannot be taken.
FinalizeFails ==
    /\ step \in {"finalize", "write", "accept", "publish"}
    /\ Conclude("failure")
    /\ UNCHANGED <<gatewayVars, loopVars, issued, writeVars>>

\* A validation command, the integrity inspection or their budget fails.
ValidationFails ==
    /\ step \in {"finalize", "write"} /\ writable /\ ~aborted
    /\ Retry
    /\ UNCHANGED <<gatewayVars, loopVars, issued, writeVars>>

\* A mutant: the write is not marked until the run ends well.
WriteReturnsUnmarked ==
    /\ step = "write" /\ (tree # 0 \/ commits > 0)
    /\ vetted' = vetted \cup {copied}
    /\ commits' = commits + 1
    /\ GoTo("accept")
    /\ UNCHANGED <<queueVars, flushVars, treeVars, validated, before, copied, runVars,
                   loopVars, issued, found, half>>

\* executeWrite returns: the tree it validated is on GitHub.
WriteReturns ==
    /\ step = "write" /\ (tree # 0 \/ commits > 0)
    /\ vetted' = vetted \cup {copied}
    /\ commits' = commits + 1
    /\ partialWrite' = TRUE
    /\ GoTo("accept")
    /\ UNCHANGED <<queueVars, flushVars, treeVars, validated, before, copied, spent, aborted,
                   loopVars, issued, found, half>>

\* executeWrite returns for the pull request that an earlier attempt of the workflow run,
\* or an earlier finalization, has completed: it validates and publishes nothing.
WriteFindsPrior ==
    /\ step = "write" /\ repeats /\ ~aborted
    /\ found' = TRUE
    /\ partialWrite' = TRUE
    /\ GoTo("accept")
    /\ UNCHANGED <<queueVars, flushVars, treeVars, gateVars, spent, aborted,
                   loopVars, issued, commits, half>>

\* executeWrite throws behind createRemoteBranch, or loses the answer to createRef or
\* updateRef and the read behind it: the tree is on GitHub, and the phase never learns of it.
WriteThrows ==
    /\ step = "write" /\ (tree # 0 \/ commits > 0)
    /\ vetted' = vetted \cup {copied}
    /\ half' = TRUE
    /\ Conclude("failure")
    /\ UNCHANGED <<queueVars, flushVars, treeVars, validated, before, copied, runVars,
                   loopVars, issued, commits, found>>

\* A mutant: the written tree is not accepted as validated.
AcceptNothing ==
    /\ step = "accept"
    /\ IF aborted THEN Conclude("failure") ELSE GoTo("flush-write")
    /\ UNCHANGED <<gatewayVars, loopVars, issued, writeVars>>

\* acceptValidatedWorkspaceRevision, then remainingControllerMs.
Accept ==
    /\ step = "accept"
    /\ AcceptRevision
    /\ IF aborted THEN Conclude("failure") ELSE GoTo("flush-write")
    /\ UNCHANGED <<queueVars, flushVars, treeVars, runVars, loopVars, issued, writeVars>>

\* The last act of a write: flush the queue behind it, and forget partialWrite.
FlushAfterWrite ==
    /\ step = "flush-write" /\ stage = "idle" /\ result = "none"
    /\ \/ pending # <<>> /\ FlushBegin /\ GoTo("flush-write")
       \/ pending = <<>> /\ Conclude("write") /\ partialWrite' = FALSE
          /\ UNCHANGED <<queueVars, flushVars, treeVars, gateVars, spent, aborted>>
    /\ UNCHANGED <<loopVars, issued, writeVars>>

\* A mutant: a failed flush still lets the answer be published.
FlushReturnsAnyway ==
    /\ step \in {"flush-answer", "flush-write"} /\ stage = "idle" /\ result # "none"
    /\ IF step = "flush-answer"
       THEN GoTo("publish") /\ UNCHANGED runVars
       ELSE Conclude("write") /\ partialWrite' = FALSE /\ UNCHANGED <<spent, aborted>>
    /\ result' = "none"
    /\ UNCHANGED <<queueVars, stage, active, receipt, exposed, treeVars, gateVars,
                   loopVars, issued, writeVars>>

FlushReturns ==
    /\ step \in {"flush-answer", "flush-write"} /\ stage = "idle"
    /\ \/ /\ result = "ok" /\ step = "flush-answer"
          /\ GoTo("publish") /\ UNCHANGED runVars
       \/ /\ result = "ok" /\ step = "flush-write"
          /\ Conclude("write") /\ partialWrite' = FALSE /\ UNCHANGED <<spent, aborted>>
       \/ /\ result = "invalid"
          /\ Retry /\ UNCHANGED runVars
       \/ /\ result \in {"denied", "cancelled", "failed"}
          /\ Conclude("failure") /\ UNCHANGED runVars
    /\ result' = "none"
    /\ UNCHANGED <<queueVars, stage, active, receipt, exposed, treeVars, gateVars,
                   loopVars, issued, writeVars>>

\* publishTaskAnswer; once the run is cancelled its requests are refused.
Publish ==
    /\ step = "publish" /\ ~aborted
    /\ Conclude("answer")
    /\ UNCHANGED <<gatewayVars, loopVars, issued, writeVars>>

\* The finally clause of the loop drops the queue; its errors change nothing.
Cleanup ==
    /\ step = "dispose"
    /\ Dispose
    /\ GoTo("done")
    /\ UNCHANGED <<loopVars, issued, writeVars>>

-----------------------------------------------------------------------------

GatewaySteps ==
    /\ step \in {"flush-answer", "flush-write"}
    /\ FlushStep
    /\ UNCHANGED <<loopVars, controlVars, issued, writeVars>>

Environment ==
    /\ (leftover /\ Disturb) \/ Cancel \/ SpendBudget
    /\ UNCHANGED <<loopVars, controlVars, issued, writeVars>>

TurnEnds == TurnFails \/ (\E c \in Calls : RequestTool(c)) \/ Block \/ Finalize
FinalizeStep ==
    \/ Answer \/ BeginWrite \/ FinalizeFails \/ ValidationFails
    \/ WriteReturns \/ WriteFindsPrior \/ WriteThrows
    \/ Accept \/ FlushAfterWrite \/ FlushReturns \/ Publish \/ Cleanup

NextRun == TurnEdits \/ TurnEnds \/ FinalizeStep \/ GatewaySteps \/ Environment

\* Turns, publications and validations are bounded by the phase timeouts, and a
\* flush moves on as AuthorityGateway says.
Fairness ==
    /\ WF_vars(TurnEnds)
    /\ WF_vars(FinalizeStep)
    /\ WF_vars(GatewaySteps /\ ~MutationWrites)

SpecRun == InitRun /\ [][NextRun]_vars
FairSpecRun == SpecRun /\ Fairness

-----------------------------------------------------------------------------
(* Properties *)

\* A failed run says so when it has exposed a mutation, or when executeWrite has returned
\* and something behind it failed: its outcome carries partialWrite (orchestrator.ts spreads
\* it; SECURITY.md, "instead of presenting an ordinary retry-safe failure"). Of a write that
\* throws with its branch on GitHub (half) the code does not say so.
PartialWriteTold ==
    conclusion = "failure" /\ (commits > 0 \/ found \/ exposed # {}) => partialWrite

\* A run that succeeds has performed every mutation the Agent was told was scheduled.
SuccessIsComplete ==
    conclusion \in {"answer", "write"} => \A c \in issued : receipt[c] \in Applied

\* A blocked conclusion leaves nothing behind on GitHub: neither a commit of an
\* earlier, retried finalization nor a mutation (loop.ts: a pending validation
\* failure is rethrown).
BlockedLeavesNothing ==
    conclusion = "blocked" => commits = 0 /\ ~found /\ ~half /\ exposed = {} /\ ~failing

\* An applied call is never performed again by a later finalization.
AppliedOnce == [][\A c \in Calls : receipt[c] \in Applied => receipt'[c] = receipt[c]]_vars

\* Mutations that go with changed files come after those files: what is exposed, is
\* exposed behind a tree that has passed the commands or was never changed, and behind
\* executeWrite if anything in it has changed (the order of agent-phase.ts:334-360).
\* There are two exceptions. A process that outlives its turn may edit the workspace
\* behind the Controller; and executeWrite may have returned for a pull request completed
\* before, with this tree neither tested nor published.
EffectsBehindWrite ==
    [][exposed' # exposed /\ ~leftover /\ ~found
          => tree \in vetted /\ (tree # 0 => commits > 0)]_vars

\* Unless somebody edits the workspace behind the Controller, the repository is
\* written at most once in a run, however many finalizations it takes (a validation
\* failure in the flush would lead to another).
WrittenOnce == leftover \/ commits + (IF half THEN 1 ELSE 0) <= 1

\* Every run ends, with its queue dropped.
Terminates == <>[](step = "done" /\ pending = <<>>)

\* What ScheduledMutations sees of a run.
Done == {c \in Calls : receipt[c] \in Applied}
Outcome ==
    CASE conclusion = "running" -> "open"
      [] conclusion \in {"answer", "write"} -> "succeeded"
      [] conclusion = "blocked" -> "blocked"
      [] conclusion = "failure" -> IF partialWrite THEN "marked" ELSE "failed"

Schedule == INSTANCE ScheduledMutations WITH
    queue <- pending, touched <- exposed, applied <- Done, outcome <- Outcome

\* However many turns, finalizations and cancellations a run takes, the mutations whose
\* receipt says "scheduled" (GitHubAuthorityGateway.invoke) are performed in order, once, and
\* completely before it succeeds. A failed validation that the Agent may repair keeps them
\* in the queue (loop.ts:496), whatever SECURITY.md and docs/configuration.md say.
KeepsSchedule == Schedule!Spec
=============================================================================
