--------------------------- MODULE AuthorityGateway ---------------------------
(***************************************************************************)
(* GitHubAuthorityGateway, GitHubAuthoritySession and                      *)
(* ControllerGitHubMutationValidation: mutations the Agent asks for are    *)
(* queued, and flushed in the order they were scheduled, behind a          *)
(* validation of the exact workspace tree.  A single mutation keeps the    *)
(* promise of MutationReceipt, which GitHubMutation is shown to implement. *)
(*                                                                         *)
(* A workspace tree is known by its fingerprint.  Trees are numbered in    *)
(* the order in which they first appear; the baseline is tree 0.           *)
(***************************************************************************)
EXTENDS Integers, Sequences

CONSTANTS
    Calls,      \* tool calls: a callId with its input
    Tools,      \* mutation tool ids
    ToolOf,     \* the tool each call names
    MaxCalls,   \* githubToolMaxCalls: how often a tool may be invoked in a run
    MaxTree     \* bound on the number of trees that appear

ASSUME ToolAssumption == ToolOf \in [Calls -> Tools]
ASSUME MaxCallsAssumption == MaxCalls \in [Tools -> Nat]
ASSUME MaxTreeAssumption == MaxTree \in Nat

VARIABLES
    pending,        \* queued calls, in insertion order
    used,           \* invocations charged to each tool
    stage,          \* how far the flush is; "idle" outside a flush
    active,         \* activeFlushCallId: the set of at most one running call
    receipt,        \* the last receipt of each call
    result,         \* how the last flush ended
    exposed,        \* calls with a write that GitHub has not refused
    tree,           \* the tree in the workspace
    latest,         \* the newest tree seen so far
    validated,      \* the fingerprint the Controller has accepted
    before,         \* the fingerprint taken when the gate started
    copied,         \* the tree in the validation container
    vetted,         \* trees on which every configured command has passed
    spent,          \* the validation budget of the run is exhausted
    partialWrite,   \* RunState.partialWrite
    aborted         \* the run signal: cancellation or the run deadline

queueVars == <<pending, used>>
flushVars == <<stage, active, receipt, result, exposed>>
treeVars == <<tree, latest>>
gateVars == <<validated, before, copied, vetted>>
runVars == <<spent, partialWrite, aborted>>
gatewayVars == <<queueVars, flushVars, treeVars, gateVars, runVars>>

NoTree == -1
AllTrees == 0..MaxTree
Queued == {pending[i] : i \in 1..Len(pending)}
Applied == {"updated", "unchanged"}
WithEffect == {"updated", "possible", "confirmed"}
Stages == {"idle", "gate", "inspect", "commands", "compare", "flush"}

TypeOK ==
    /\ pending \in Seq(Calls)
    /\ used \in [Tools -> Nat] /\ \A t \in Tools : used[t] <= MaxCalls[t]
    /\ stage \in Stages
    /\ active \in SUBSET Calls
    /\ receipt \in [Calls -> Applied \cup WithEffect \cup {"scheduled", "none"}]
    /\ result \in {"none", "ok", "invalid", "denied", "cancelled", "failed"}
    /\ exposed \in SUBSET Calls
    /\ tree \in AllTrees /\ latest \in AllTrees
    /\ validated \in AllTrees /\ before \in AllTrees \cup {NoTree}
    /\ copied \in AllTrees \cup {NoTree}
    /\ vetted \in SUBSET AllTrees
    /\ spent \in BOOLEAN /\ partialWrite \in BOOLEAN /\ aborted \in BOOLEAN

\* The state after prepareExecution, which validates the baseline tree.
Init ==
    /\ pending = <<>>
    /\ used = [t \in Tools |-> 0]
    /\ stage = "idle"
    /\ active = {}
    /\ receipt = [c \in Calls |-> "scheduled"]
    /\ result = "none"
    /\ exposed = {}
    /\ tree = 0
    /\ latest = 0
    /\ validated = 0
    /\ before = NoTree
    /\ copied = NoTree
    /\ vetted = {0}
    /\ spent = FALSE
    /\ partialWrite = FALSE
    /\ aborted = FALSE

-----------------------------------------------------------------------------
(* The queue *)

\* A mutant: the budget is compared before this call is counted.
InvokeOverBudget(c) ==
    LET t == ToolOf[c] IN
    /\ stage = "idle"
    /\ used[t] <= MaxCalls[t]
    /\ used' = [used EXCEPT ![t] = @ + 1]
    /\ pending' = IF c \in Queued THEN pending ELSE Append(pending, c)
    /\ UNCHANGED <<flushVars, treeVars, gateVars, runVars>>

\* invoke outside a flush: charge the tool's budget, then queue the call unless
\* its callId already is.  A call over budget is refused and changes nothing.
Invoke(c) ==
    LET t == ToolOf[c] IN
    /\ stage = "idle"
    /\ used[t] < MaxCalls[t]
    /\ used' = [used EXCEPT ![t] = @ + 1]
    /\ pending' = IF c \in Queued THEN pending ELSE Append(pending, c)
    /\ UNCHANGED <<flushVars, treeVars, gateVars, runVars>>

Dispose ==
    /\ stage = "idle"
    /\ pending' = <<>>
    /\ UNCHANGED <<used, flushVars, treeVars, gateVars, runVars>>

-----------------------------------------------------------------------------
(* The validation gate *)

\* The gate fails before any mutation: the queue is kept as it is.
GateStops(why) ==
    /\ stage' = "idle"
    /\ result' = why
    /\ UNCHANGED <<queueVars, active, receipt, exposed, treeVars, gateVars, runVars>>

\* session.flush with work to do.
FlushBegin ==
    /\ stage = "idle"
    /\ pending # <<>>
    /\ stage' = "gate"
    /\ result' = "none"
    /\ UNCHANGED <<queueVars, active, receipt, exposed, treeVars, gateVars, runVars>>

\* The tree is the one already validated: no command is run again.
GateSkips ==
    /\ stage = "gate"
    /\ tree = validated
    /\ stage' = "flush"
    /\ UNCHANGED <<queueVars, active, receipt, result, exposed, treeVars, gateVars, runVars>>

GateBegins ==
    /\ stage = "gate"
    /\ tree # validated
    /\ ~spent
    /\ before' = tree
    /\ stage' = "inspect"
    /\ UNCHANGED <<queueVars, active, receipt, result, exposed, treeVars,
                   validated, copied, vetted, runVars>>

\* The change set passed the integrity inspection; the tree is copied.
GateCopies ==
    /\ stage = "inspect"
    /\ copied' = tree
    /\ stage' = "commands"
    /\ UNCHANGED <<queueVars, active, receipt, result, exposed, treeVars,
                   validated, before, vetted, runVars>>

CommandsPass ==
    /\ stage = "commands"
    /\ ~spent /\ ~aborted
    /\ vetted' = vetted \cup {copied}
    /\ stage' = "compare"
    /\ UNCHANGED <<queueVars, active, receipt, result, exposed, treeVars,
                   validated, before, copied, runVars>>

\* A mutant: the fingerprint taken after the commands is accepted as it is.
GateTrusts ==
    /\ stage = "compare"
    /\ validated' = tree
    /\ stage' = "flush"
    /\ UNCHANGED <<queueVars, active, receipt, result, exposed, treeVars,
                   before, copied, vetted, runVars>>

GateAccepts ==
    /\ stage = "compare"
    /\ tree = before
    /\ validated' = tree
    /\ stage' = "flush"
    /\ UNCHANGED <<queueVars, active, receipt, result, exposed, treeVars,
                   before, copied, vetted, runVars>>

\* A command failed or the budget ran out (a ValidationFailureError), integrity
\* or the final comparison refused (a denial), or the signal was aborted.
GateFails ==
    \/ /\ stage = "gate" /\ tree # validated /\ spent
       /\ GateStops("invalid")
    \/ /\ stage \in {"inspect", "commands"}
       /\ \E why \in {"invalid", "denied"} : GateStops(why)
    \/ /\ stage = "compare" /\ tree # before
       /\ GateStops("denied")
    \/ /\ stage \in {"inspect", "commands"} /\ aborted
       /\ GateStops("cancelled")

-----------------------------------------------------------------------------
(* The flush proper *)

\* A mutant: an effect that is only possible is not recorded.
RecordConfirmed(receipts) ==
    partialWrite' = (partialWrite \/ \E c \in Calls : receipts[c] \in {"updated", "confirmed"})

\* session.record: mark the run when a receipt shows an external effect.
Record(receipts) ==
    partialWrite' = (partialWrite \/ \E c \in Calls : receipts[c] \in WithEffect)

\* A mutant: the call scheduled last goes first.
MutationBeginsLast ==
    /\ stage = "flush" /\ active = {} /\ pending # <<>>
    /\ active' = {pending[Len(pending)]}
    /\ UNCHANGED <<queueVars, stage, receipt, result, exposed, treeVars, gateVars, runVars>>

MutationBegins ==
    /\ stage = "flush" /\ active = {} /\ pending # <<>>
    /\ active' = {Head(pending)}
    /\ UNCHANGED <<queueVars, stage, receipt, result, exposed, treeVars, gateVars, runVars>>

\* The write leaves; once the run is cancelled no request does.
MutationWrites ==
    /\ active # {} /\ ~aborted
    /\ exposed' = exposed \cup active
    /\ UNCHANGED <<queueVars, stage, active, receipt, result, treeVars, gateVars, runVars>>

\* A mutant: an applied call stays in the queue.
MutationAppliesKept ==
    /\ active # {} /\ ~aborted
    /\ receipt' = [c \in Calls |->
                     IF c \notin active THEN receipt[c]
                     ELSE IF c \in exposed THEN "updated" ELSE "unchanged"]
    /\ active' = {}
    /\ UNCHANGED <<queueVars, stage, result, exposed, treeVars, gateVars, runVars>>

MutationApplies ==
    /\ active # {} /\ ~aborted
    /\ receipt' = [c \in Calls |->
                     IF c \notin active THEN receipt[c]
                     ELSE IF c \in exposed THEN "updated" ELSE "unchanged"]
    /\ pending' = Tail(pending)
    /\ active' = {}
    /\ UNCHANGED <<used, stage, result, exposed, treeVars, gateVars, runVars>>

\* The call fails: its claim is truthful, it stays queued, and nothing behind it runs.
MutationFails ==
    /\ active # {}
    /\ \E claim \in {"none", "possible", "confirmed"} :
          /\ claim = "none" <=> active \cap exposed = {}
          /\ receipt' = [c \in Calls |-> IF c \in active THEN claim ELSE receipt[c]]
    /\ active' = {}
    /\ stage' = "idle"
    /\ result' = "failed"
    /\ Record(receipt')
    /\ UNCHANGED <<queueVars, exposed, treeVars, gateVars, spent, aborted>>

FlushEnds ==
    /\ stage = "flush" /\ active = {} /\ pending = <<>>
    /\ stage' = "idle"
    /\ result' = "ok"
    /\ Record(receipt)
    /\ UNCHANGED <<queueVars, active, receipt, exposed, treeVars, gateVars, spent, aborted>>

FlushStep ==
    \/ GateSkips \/ GateBegins \/ GateCopies \/ CommandsPass \/ GateAccepts \/ GateFails
    \/ MutationBegins \/ MutationWrites \/ MutationApplies \/ MutationFails \/ FlushEnds

-----------------------------------------------------------------------------
(* The Controller's write, and the environment *)

\* acceptValidatedWorkspaceRevision, after a validated Controller write.
AcceptRevision ==
    /\ validated' = tree
    /\ UNCHANGED <<before, copied, vetted>>

\* An Agent turn leaves an old tree or a new one.
AgentEdits ==
    /\ stage = "idle"
    /\ \E t \in 0..(latest + 1) :
          /\ t <= MaxTree
          /\ t # tree
          /\ tree' = t
          /\ latest' = IF t > latest THEN t ELSE latest
    /\ UNCHANGED <<queueVars, flushVars, gateVars, runVars>>

\* A process that outlived its turn edits the workspace behind the Controller;
\* the tree it leaves is a new one.
Disturb ==
    /\ latest < MaxTree
    /\ tree' = latest + 1
    /\ latest' = latest + 1
    /\ UNCHANGED <<queueVars, flushVars, gateVars, runVars>>

Cancel ==
    /\ ~aborted
    /\ aborted' = TRUE
    /\ UNCHANGED <<queueVars, flushVars, treeVars, gateVars, spent, partialWrite>>

SpendBudget ==
    /\ ~spent
    /\ spent' = TRUE
    /\ UNCHANGED <<queueVars, flushVars, treeVars, gateVars, partialWrite, aborted>>

Next ==
    \/ \E c \in Calls : Invoke(c)
    \/ FlushBegin \/ Dispose \/ FlushStep
    \/ AgentEdits \/ Disturb \/ Cancel \/ SpendBudget

Spec == Init /\ [][Next]_gatewayVars

-----------------------------------------------------------------------------
(* Properties *)

\* Mutations are only performed behind a tree on which every configured command
\* passed, even when the workspace moves during the gate (github-validation.ts:
\* "Controller validation for the exact workspace revision behind deferred GitHub
\* mutations").
FlushBehindValidation == stage = "flush" => validated \in vetted

\* Once a flush is over, the run knows of every write that GitHub may have applied by then:
\* none is reported as an ordinary, retry-safe failure (session.record,
\* githubFlushHasExternalEffect). The gateway trusts its receipts, as MutationReceipt
\* promises them: a request that was given up and writes after its receipt said "none"
\* (GitHubMutation's DenialStaysTrue) is not among these writes.
EffectsRecorded == stage = "idle" /\ exposed # {} => partialWrite
=============================================================================
