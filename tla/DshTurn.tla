------------------------------- MODULE DshTurn -------------------------------
(***************************************************************************)
(* The turns of a run in a Docker worker (dsh/runner.ts), one process each *)
(* (dsh/process.ts): the phases of setup, the supervised process, the      *)
(* repair of an answer that does not parse (dsh/output-repair.ts), the     *)
(* observation of the worker's tools, the audit of their receipts and the  *)
(* removal of what the turn and the run have made.                         *)
(*                                                                         *)
(* Timer, output limit, cancellation and the end of the process race for   *)
(* the outcome of the process; a later failure must not replace it.        *)
(* Stopping kills the Docker client for sure and the container beside it,  *)
(* without waiting: the container may go on for a while.                   *)
(***************************************************************************)
EXTENDS ToolAudit, PackageAudit, WorkerResources

CONSTANTS MaxTurns      \* maxTurns

ASSUME TurnAssumption == MaxTurns \in Nat \ {0} /\ DOMAIN Requests = 1..MaxTurns

VARIABLES
    at,             \* what runDsh awaits; "between" two turns; "over"
    step,           \* the phase of setup, for the next turn once it has begun
    turn,
    stopped,        \* terminalError
    exit,           \* how the worker ended, its answer included
    failure,        \* executionFailure
    aborted,        \* the run's signal
    offset, before, \* auditOffset, invocationCountsBefore
    events,         \* what readToolReceipts has read
    receipts,       \* turnReceipts
    finished,       \* history: the calls of the turn that have a result
    cause           \* history: the first failure that the Controller met

turnVars    == <<at, step, turn, stopped, exit, failure, aborted, offset,
                 before, events, receipts, finished, cause>>
aroundVars  == <<packageVars, resourceVars>>
vars        == <<turnVars, auditVars, aroundVars>>
measureVars == <<offset, before, events, receipts>>
outcomeVars == <<stopped, exit, failure, aborted, cause>>

(* The phases of setup in their order; the first is the loop's, once.      *)
Steps == <<"create", "prepare", "bind", "install", "baseline", "compose", "extend",
           "verify", "finalize", "network", "inspect", "proxy", "measure">>

Stops    == {"timeout", "aborted", "limit"}
Failures == Stops \cup {"process", "leak", "malformed", "setup", "observation", "audit"}

(* A clean end comes with an answer: one that fits the schema, one whose   *)
(* form may be repaired, or one that asks for a tool, which may not.       *)
Clean == {"fits", "malformed", "unrepairable"}
Exits == Clean \cup {"secret", "error"}

TypeOK ==
    /\ AuditTypeOK /\ PackageTypeOK /\ ResourceTypeOK
    /\ at \in {"setup", "run", "repair", "observe", "audit", "counts", "cleanup", "between", "over"}
    /\ step \in Range(Steps)
    /\ turn \in 1..MaxTurns
    /\ stopped \in Stops \cup {"none"}
    /\ exit \in Exits \cup {"none"}
    /\ failure \in Failures \cup {"none"} /\ cause \in Failures \cup {"none"}
    /\ aborted \in BOOLEAN
    /\ offset \in 0..MaxEvents /\ before \in Counts
    /\ events \in Seq(Event) /\ receipts \subseteq Receipt
    /\ finished \subseteq Call

Init ==
    /\ AuditInit /\ PackageInit /\ ResourceInit
    /\ at = "setup" /\ step = "create"
    /\ turn = 1
    /\ stopped = "none" /\ exit = "none"
    /\ failure = "none" /\ cause = "none"
    /\ aborted = FALSE
    /\ offset = 0 /\ before = NoCalls
    /\ events = <<>> /\ receipts = {}
    /\ finished = {}

(* runControllerPhase: a phase looks at the signal first, then at its     *)
(* timer, which has what is left of the setup's minute and of the run.     *)
PhaseErrors(own) == IF aborted THEN {"aborted"} ELSE {"timeout"} \cup own

First(earlier, later) == IF earlier = "none" THEN later ELSE earlier

Meets(error) == cause' = First(cause, error)

-----------------------------------------------------------------------------
(* Setup. *)

(* runPhase: a phase that ends in time, and not after a cancellation. *)
Passes(from, to) ==
    /\ at = "setup" /\ ~aborted
    /\ step = from /\ step' = to
    /\ UNCHANGED <<at, turn, outcomeVars, measureVars, finished, auditVars>>

(* createRuntimeWithinDeadline; a later turn finds the runtime there. *)
CreateRuntime ==
    /\ Passes("create", "prepare")
    /\ IF runtime = "none" THEN RuntimeReady ELSE UNCHANGED runtime
    /\ UNCHANGED <<packageVars, binding, network, named, proxy, request>>

(* The workspace, the prompt, the executable: they are there, or not. *)
Prepare == Passes("prepare", "bind") /\ UNCHANGED aroundVars

Bind ==
    /\ Passes("bind", IF modules = Nothing THEN "install" ELSE "compose")
    /\ \E b \in Requests[turn] : Binds(b)
    /\ UNCHANGED <<packageVars, runtime, network, named, proxy, request>>

(* The lock of the action, copied, and what it names. *)
Install ==
    /\ Passes("install", "baseline")
    /\ InstallsRuntime
    /\ UNCHANGED <<baseline, auditedLock, specifiers, resourceVars>>

Baseline == Passes("baseline", "compose") /\ CaptureBaseline /\ UNCHANGED resourceVars

(* prepare: a package manifest that names the extensions, and a launcher. *)
Compose ==
    /\ Passes("compose", IF Dependencies = {} THEN "finalize"
                         ELSE IF auditedLock = {} THEN "extend" ELSE "verify")
    /\ UNCHANGED aroundVars

Extend ==
    /\ Passes("extend", "verify")
    /\ MayExtend
    /\ InstallsExtensions
    /\ UNCHANGED <<baseline, auditedLock, specifiers, resourceVars>>

(* The first worker is preceded by the whole audit, a later one by that of *)
(* the lock.                                                               *)
Verify ==
    /\ Passes("verify", "finalize")
    /\ IF auditedLock = {} THEN FreshHolds ELSE ReusedHolds
    /\ auditedLock' = {lock}
    /\ UNCHANGED <<modules, lock, baseline, specifiers, resourceVars>>

(* finalizeInstalledPlugins, once. *)
Finalize ==
    /\ Passes("finalize", IF NeedsNetwork THEN "network" ELSE "proxy")
    /\ specifiers \/ PluginsWithin(modules)
    /\ specifiers' = (Plugins # {})
    /\ UNCHANGED <<modules, lock, baseline, auditedLock, resourceVars>>

CreateNetwork ==
    /\ Passes("network", "inspect")
    /\ NetworkCreated
    /\ UNCHANGED <<packageVars, runtime, binding, proxy, request>>

(* The gateway is an address of the network, or setup fails. *)
InspectNetwork == Passes("inspect", "proxy") /\ UNCHANGED aroundVars

StartProxy ==
    /\ Passes("proxy", "measure")
    /\ ProxyOpens
    /\ UNCHANGED <<packageVars, runtime, binding, network, named, request>>

(* Where the audit of the turn begins is measured last. *)
StartWorker ==
    /\ at = "setup" /\ step = "measure" /\ ~aborted
    /\ offset' = Len(log) /\ before' = disk
    /\ events' = <<>> /\ receipts' = {} /\ finished' = {}
    /\ WorkerStarts
    /\ at' = "run" /\ step' = "prepare"
    /\ UNCHANGED <<turn, outcomeVars, fileVars, writeFaults, ran, aroundVars>>

(* What a phase leaves when it fails, or is given up: what was being made  *)
(* may still come.                                                         *)
Leaves(givenUp) ==
    CASE step = "create" /\ runtime = "none" ->
             /\ IF givenUp THEN RuntimeAbandoned ELSE RuntimeFails
             /\ UNCHANGED <<binding, network, named, proxy, request>>
      [] step = "network" ->
             /\ NetworkRefused(givenUp)
             /\ UNCHANGED <<runtime, binding, proxy, request>>
      [] step = "proxy" /\ givenUp ->
             /\ ProxyAbandoned
             /\ UNCHANGED <<runtime, binding, network, named, request>>
      [] OTHER -> UNCHANGED resourceVars

(* A failure of the creation is the loop's, which has nothing to clean up. *)
SetUpFails ==
    /\ at = "setup"
    /\ \E error \in PhaseErrors({"setup"}) :
          /\ failure' = error /\ Meets(error)
          /\ Leaves(error # "setup")
    /\ at' = IF step = "create" THEN "over" ELSE "cleanup"
    /\ step' = "prepare"
    /\ UNCHANGED <<turn, stopped, exit, aborted, measureVars, finished>>
    /\ UNCHANGED <<auditVars, packageVars>>

-----------------------------------------------------------------------------
(* The process. *)

(* stop: the first reason counts. *)
Stop(error) ==
    /\ at = "run" /\ stopped = "none"
    /\ stopped' = error
    /\ Meets(error)

TimesOut ==
    /\ Stop("timeout")
    /\ UNCHANGED <<at, turn, exit, failure, aborted, measureVars, finished>>
    /\ UNCHANGED <<step, auditVars, aroundVars>>

Overflows ==
    /\ alive
    /\ Stop("limit")
    /\ UNCHANGED <<at, turn, exit, failure, aborted, measureVars, finished>>
    /\ UNCHANGED <<step, auditVars, aroundVars>>

(* The listener on the run's signal.  Between turns, and once the audit is *)
(* done, nothing listens.                                                  *)
RunAborts ==
    /\ at # "over" /\ ~aborted
    /\ aborted' = TRUE
    /\ IF at = "run" /\ stopped = "none"
       THEN Stop("aborted")
       ELSE UNCHANGED <<stopped, cause>>
    /\ UNCHANGED <<at, turn, exit, failure, measureVars, finished>>
    /\ UNCHANGED <<step, auditVars, aroundVars>>

(* DSH calls tools between two answers of the model; without the directory *)
(* of the runtime no call can be charged.                                  *)
WorkerCalls ==
    /\ at # "over"
    /\ Calls /\ request = "none"
    /\ finished' = finished \cup (running \ running')
    /\ UNCHANGED <<at, step, turn, outcomeVars, measureVars, aroundVars>>

WorkerAsks ==
    /\ alive /\ charging = {} /\ running = {}
    /\ RequestArrives
    /\ UNCHANGED <<turnVars, auditVars, packageVars>>

(* The rest of what may come at any time. *)
Elsewhere ==
    /\ BodyRead \/ RequestEnds \/ RuntimeArrives \/ NetworkArrives \/ ProxyArrives
    /\ UNCHANGED <<turnVars, auditVars, packageVars>>

(* DSH exits with 0 when it is told to stop, and never in the middle of a  *)
(* write.  What a stopped worker has printed is not read.  A client that   *)
(* does not start at all is an exit with an error.                         *)
WorkerExits ==
    /\ at = "run"
    /\ WorkerEnds
    /\ exit' \in IF stopped = "none" THEN Exits ELSE {"fits", "error"}
    /\ exit' \in Clean => charging = {} /\ torn' = torn
    /\ ConnectionLost
    /\ UNCHANGED <<at, step, turn, stopped, failure, aborted, measureVars, finished, cause>>
    /\ UNCHANGED <<packageVars, runtime, binding, network, named, proxy>>

(* A container whose client is gone ends when the kill reaches it. *)
OrphanEnds ==
    /\ at # "run"
    /\ WorkerEnds
    /\ ConnectionLost
    /\ UNCHANGED <<turnVars, packageVars, runtime, binding, network, named, proxy>>

(* A mutant: a clean exit after a stop is a success. *)
ProcessFailureTrusting ==
    CASE exit = "secret"                         -> "leak"
      [] exit = "error"                          -> "process"
      [] stopped # "none" /\ exit \notin Clean   -> stopped
      [] OTHER                                   -> "none"

(* What is wrong with a process that has closed. *)
ProcessFailure ==
    IF stopped # "none" THEN stopped
    ELSE CASE exit = "secret" -> "leak"
           [] exit = "error"  -> "process"
           [] OTHER           -> "none"

(* A mutant: the client of a stopped worker is waited for, not killed. *)
ClientWaitedFor == ~alive

(* terminateTree: a client that is told to stop is killed after a grace. *)
ClientGone == ~alive \/ stopped # "none"

(* close, and the reading of the answer behind it. *)
Close ==
    /\ at = "run" /\ ClientGone
    /\ LET error == IF ProcessFailure = "none" /\ exit = "unrepairable"
                    THEN "malformed" ELSE ProcessFailure
       IN  IF error = "none"
           THEN /\ at' = IF exit = "malformed" THEN "repair" ELSE "observe"
                /\ UNCHANGED <<failure, cause>>
           ELSE /\ at' = "observe"
                /\ failure' = error
                /\ Meets(error)
    /\ stopped' = "none" /\ exit' = "none"
    /\ UNCHANGED <<turn, aborted, measureVars, finished>>
    /\ UNCHANGED <<step, auditVars, aroundVars>>

-----------------------------------------------------------------------------
(* The repair: one request for another form of the same answer, which may  *)
(* neither ask for a tool nor change a state that could be read.           *)

Repaired ==
    /\ at = "repair" /\ ~aborted
    /\ at' = "observe"
    /\ UNCHANGED <<turn, stopped, exit, failure, aborted, measureVars, finished, cause>>
    /\ UNCHANGED <<step, auditVars, aroundVars>>

RepairFails ==
    /\ at = "repair"
    /\ \E error \in PhaseErrors({"malformed", "leak", "limit"}) : failure' = error /\ Meets(error)
    /\ at' = "observe"
    /\ UNCHANGED <<turn, stopped, exit, aborted, measureVars, finished>>
    /\ UNCHANGED <<step, auditVars, aroundVars>>

-----------------------------------------------------------------------------
(* Observation and audit happen after a failure too, and must not hide it. *)

(* A mutant: the last failure counts. *)
LaterFailureReplacing(error) ==
    /\ failure' = error
    /\ Meets(error)

(* executionFailure ??= error *)
LaterFailure(error) ==
    /\ failure' = First(failure, error)
    /\ Meets(error)

Observe ==
    /\ at = "observe"
    /\ at' = "audit"
    /\ \/ ~aborted /\ UNCHANGED <<failure, cause>>
       \/ \E error \in PhaseErrors({"observation", "leak"}) : LaterFailure(error)
    /\ UNCHANGED <<turn, stopped, exit, aborted, measureVars, finished>>
    /\ UNCHANGED <<step, auditVars, aroundVars>>

(* readToolReceipts *)
ReadReceipts ==
    /\ at = "audit" /\ ~aborted
    /\ ~torn /\ WellFormed(Gained(offset))
    /\ events' = Gained(offset)
    /\ at' = "counts"
    /\ UNCHANGED <<turn, stopped, exit, failure, aborted,
                   offset, before, receipts, finished, cause>>
    /\ UNCHANGED <<step, auditVars, aroundVars>>

(* readInvocationCounts and reconcileToolAudit: the counts are read later  *)
(* than the receipts.                                                      *)
Reconcile ==
    /\ at = "counts" /\ ~aborted
    /\ Reconciles(before, disk, ReceiptsOf(events), failure = "none")
    /\ receipts' = ReceiptsOf(events)
    /\ events' = <<>>
    /\ at' = "cleanup"
    /\ UNCHANGED <<turn, stopped, exit, failure, aborted,
                   offset, before, finished, cause>>
    /\ UNCHANGED <<step, auditVars, aroundVars>>

AuditFails ==
    /\ ~aborted
    /\ \/ /\ at = "audit" /\ (torn \/ ~WellFormed(Gained(offset)))
          /\ LaterFailure("audit")
       \/ /\ at = "audit" /\ ~torn /\ WellFormed(Gained(offset))
          /\ LaterFailure("leak")
       \/ /\ at = "counts"
          /\ ~Reconciles(before, disk, ReceiptsOf(events), failure = "none")
          /\ LaterFailure("audit")
    /\ events' = <<>>
    /\ at' = "cleanup"
    /\ UNCHANGED <<turn, stopped, exit, aborted, offset, before, receipts, finished>>
    /\ UNCHANGED <<step, auditVars, aroundVars>>

AuditGivenUp ==
    /\ at \in {"audit", "counts"}
    /\ \E error \in PhaseErrors({}) : LaterFailure(error)
    /\ events' = <<>>
    /\ at' = "cleanup"
    /\ UNCHANGED <<turn, stopped, exit, aborted, offset, before, receipts, finished>>
    /\ UNCHANGED <<step, auditVars, aroundVars>>

-----------------------------------------------------------------------------
(* The end of a turn. *)

(* Best effort, within five seconds; it changes no result.  The loop takes *)
(* no turn after a failure; what it made itself it disposes of at its end. *)
CleanUp ==
    /\ at = "cleanup"
    /\ CloseProxy /\ RemoveNetwork(alive)
    /\ IF failure = "none"
       THEN at' = "between" /\ UNCHANGED runtime
       ELSE at' = "over" /\ DisposeRuntime
    /\ UNCHANGED <<step, turn, outcomeVars, measureVars, finished, auditVars>>
    /\ UNCHANGED <<packageVars, binding>>

(* Another turn makes its own proxy and its own network. *)
NextTurn ==
    /\ at = "between" /\ turn < MaxTurns
    /\ turn' = turn + 1
    /\ at' = "setup"
    /\ proxy' = "none" /\ network' = "none"
    /\ UNCHANGED <<step, outcomeVars, measureVars, finished, auditVars, packageVars>>
    /\ UNCHANGED <<runtime, binding, named, request>>

(* The loop has its answer, or has had enough. *)
LoopEnds ==
    /\ at = "between"
    /\ at' = "over"
    /\ DisposeRuntime
    /\ UNCHANGED <<step, turn, outcomeVars, measureVars, finished, auditVars, packageVars>>
    /\ UNCHANGED <<binding, network, named, proxy, request>>

-----------------------------------------------------------------------------

SetUp ==
    \/ CreateRuntime \/ Prepare \/ Bind \/ Install \/ Baseline \/ Compose
    \/ Extend \/ Verify \/ Finalize \/ CreateNetwork \/ InspectNetwork
    \/ StartProxy \/ StartWorker

Supervisor ==
    \/ SetUp \/ SetUpFails \/ TimesOut \/ Close
    \/ Repaired \/ RepairFails \/ Observe
    \/ ReadReceipts \/ Reconcile \/ AuditFails \/ AuditGivenUp
    \/ CleanUp \/ NextTurn \/ LoopEnds

Next ==
    \/ Supervisor
    \/ Overflows \/ RunAborts
    \/ WorkerCalls \/ WorkerAsks \/ WorkerExits \/ OrphanEnds
    \/ Elsewhere

(* Every wait of the Controller has a timer, and a stopped client closes.  *)
(* The worker owes nothing.                                                *)
Spec == Init /\ [][Next]_vars /\ WF_vars(Supervisor)

-----------------------------------------------------------------------------
(* Properties. *)

(* No tool, and no group of tools, is started more often than its limit,   *)
(* over all workers of a run, whichever of them crashed and whichever      *)
(* write failed: "fresh turns ... cannot reset them", "counts are reserved *)
(* before dispatch" (docs/extension-contracts.md).                         *)
LimitsHold ==
    /\ \A t \in Tools : ran[t] <= MaxCalls[t]
    /\ \A g \in Groups :
          Total([t \in {u \in Tools : GroupOf[u] = g} |-> ran[t]]) <= GroupMaxCalls[g]

(* A turn that succeeds reports exactly the calls that its worker made,    *)
(* each of them once and completed (receipts.ts:288-305).                  *)
SuccessIsAudited ==
    at = "between" =>
        /\ {<<r.call, r.tool>> : r \in CountedIn(receipts)} = finished
        /\ \A r \in receipts : r.completed
        /\ Total(disk.tools) - Total(before.tools) = Cardinality(finished)

(* A turn fails with the first failure the Controller met, and with no     *)
(* other: not with the clean exit of a worker it had stopped, nor with the *)
(* disorder that a killed worker leaves in its files (runner.ts:713-758).  *)
FirstFailureTold == at \in {"between", "over"} => failure = cause

(* When a run is over, whatever it has made is gone, or somebody will take *)
(* it away when it comes: no proxy stays open, nor does it go on asking    *)
(* the model for a worker whose turn is over; the runtime directory and    *)
(* the network have been asked to go.  A run that succeeds leaves nothing  *)
(* that is still to come (loop.ts:222-230, runner.ts:785-826,              *)
(* proxy.ts:338-353).                                                      *)
NothingOutlives ==
    at = "over" =>
        /\ runtime \in {"disposed", "abandoned"}
        /\ network \in {"none", "kept", "late"}
        /\ proxy \in {"none", "closed", "abandoned"}
        /\ request \in {"none", "unheeded"}
        /\ failure = "none" => /\ runtime # "abandoned" /\ network # "late"
                              /\ proxy = "closed" /\ request = "none"

(* Whatever npm has left: a worker loads the runtime that the action's     *)
(* lock pins, untouched by the extensions, and the extensions of the plan, *)
(* each from its own directory and from a resolution that cannot change    *)
(* (install.ts:168-250, runtime-lock.ts:281-410).                          *)
WorkerOnAuditedTree ==
    alive =>
        /\ \A n \in RuntimePackages :
              /\ n \in DOMAIN modules /\ modules[n].exact /\ modules[n].name = n
              /\ n \in DOMAIN lock.packages /\ lock.packages[n] = ProperEntry
        /\ \A d \in Dependencies :
              /\ d \in DOMAIN modules /\ modules[d].name = d /\ modules[d].within
              /\ d \in DOMAIN lock.packages /\ lock.packages[d] = ProperEntry
        /\ lock.dependencies = RuntimePackages \cup Dependencies

(* A run of turns ends, whatever the worker does.                          *)
TurnsEnd == <>(at = "over")

=============================================================================
