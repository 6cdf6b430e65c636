------------------------------ MODULE ToolAudit ------------------------------
(***************************************************************************)
(* The account of what a DSH worker does with its tools.                   *)
(*                                                                         *)
(* The policy inside the worker (assets/dsh/action-policy.mjs) charges     *)
(* every call to the budgets of its tool and of the tool's group, in a     *)
(* state file that outlives the worker, and writes two receipts of it to a *)
(* log: one when the call is admitted, one when it has a result.  After    *)
(* the turn the Controller (dsh/receipts.ts) reads what the log has gained *)
(* and reconciles it with the counts.                                      *)
(*                                                                         *)
(* The policy runs in one thread, but the worker may die, or a write fail, *)
(* between any two writes; tools run side by side.                         *)
(***************************************************************************)
EXTENDS Naturals, Sequences, FiniteSets, Functions

CONSTANTS
    Tools, Groups,
    GroupOf,            \* the owner of a tool: Tools -> Groups
    MaxCalls,           \* maxCalls of a tool
    GroupMaxCalls,      \* groupMaxCalls of a group
    CallIds,            \* ids the model gives to its calls; it may repeat one
    MaxEvents,          \* bound: lines in the log of a run
    MaxWriteFaults      \* bound: writes of the policy that fail

ASSUME AuditAssumption ==
    /\ IsFiniteSet(Tools) /\ IsFiniteSet(Groups)
    /\ GroupOf \in [Tools -> Groups]
    /\ MaxCalls \in [Tools -> Nat]
    /\ GroupMaxCalls \in [Groups -> Nat]
    /\ MaxEvents \in Nat /\ MaxWriteFaults \in Nat

VARIABLES
    alive,          \* the worker runs
    memory,         \* its counts
    charging,       \* the call whose receipt is not written yet, if any
    running,        \* the calls whose tools run
    counted,        \* countedCalls
    disk,           \* the state file
    log,            \* the receipt log
    torn,           \* its last line is incomplete
    writeFaults,
    ran             \* history: how often each tool was started in this run

workerVars == <<alive, memory, charging, running, counted>>
fileVars   == <<disk, log, torn>>
auditVars  == <<workerVars, fileVars, writeFaults, ran>>

Counts  == [tools : [Tools -> Nat], groups : [Groups -> Nat]]
Call    == CallIds \X Tools
Event   == [phase : {"started", "completed"}, call : CallIds, tool : Tools, counted : BOOLEAN]
Receipt == [call : CallIds, tool : Tools, counted : BOOLEAN, completed : BOOLEAN]

NoCalls == [tools |-> [t \in Tools |-> 0], groups |-> [g \in Groups |-> 0]]

AuditTypeOK ==
    /\ alive \in BOOLEAN /\ torn \in BOOLEAN
    /\ memory \in Counts /\ disk \in Counts
    /\ charging \subseteq Call /\ running \subseteq Call
    /\ counted \subseteq CallIds
    /\ log \in Seq(Event) /\ Len(log) <= MaxEvents
    /\ writeFaults \in 0..MaxWriteFaults
    /\ ran \in [Tools -> Nat]

AuditInit ==
    /\ alive = FALSE
    /\ memory = NoCalls /\ disk = NoCalls
    /\ charging = {} /\ running = {} /\ counted = {}
    /\ log = <<>> /\ torn = FALSE
    /\ writeFaults = 0
    /\ ran = [t \in Tools |-> 0]

-----------------------------------------------------------------------------
(* The worker. *)

(* A mutant: a fresh worker begins with fresh counts. *)
WorkerStartsAfresh ==
    /\ alive' = TRUE
    /\ memory' = NoCalls
    /\ charging' = {} /\ running' = {} /\ counted' = {}

(* apply: a fresh process takes its counts from the state file. *)
WorkerStarts ==
    /\ alive' = TRUE
    /\ memory' = disk
    /\ charging' = {} /\ running' = {} /\ counted' = {}

Fault == writeFaults < MaxWriteFaults /\ writeFaults' = writeFaults + 1

Line(phase, c, t, isCounted) ==
    [phase |-> phase, call |-> c, tool |-> t, counted |-> isCounted]

Logs(phase, c, t, isCounted) ==
    /\ Len(log) < MaxEvents
    /\ log' = Append(log, Line(phase, c, t, isCounted))

(* The thread is free for another call. *)
Free(c) == alive /\ charging = {} /\ \A t \in Tools : <<c, t>> \notin running

WithinLimits(t) ==
    /\ memory.tools[t] < MaxCalls[t]
    /\ memory.groups[GroupOf[t]] < GroupMaxCalls[GroupOf[t]]

Charged(t) ==
    [tools  |-> [memory.tools EXCEPT ![t] = @ + 1],
     groups |-> [memory.groups EXCEPT ![GroupOf[t]] = @ + 1]]

(* A call over a limit is not made; its result says so. *)
Refuse(c, t) ==
    /\ Free(c) /\ ~WithinLimits(t)
    /\ Logs("completed", c, t, FALSE)
    /\ UNCHANGED <<workerVars, disk, torn, writeFaults, ran>>

(* guard: first the counts... *)
Charge(c, t) ==
    /\ Free(c) /\ WithinLimits(t)
    /\ memory' = Charged(t)
    /\ disk' = memory'
    /\ charging' = {<<c, t>>}
    /\ UNCHANGED <<alive, running, counted, log, torn, writeFaults, ran>>

(* ...whose failure keeps the tool from running; memory is ahead by one. *)
ChargeFails(c, t) ==
    /\ Free(c) /\ WithinLimits(t)
    /\ Fault
    /\ memory' = Charged(t)
    /\ Logs("completed", c, t, FALSE)
    /\ UNCHANGED <<alive, charging, running, counted, disk, torn, ran>>

(* ...then the admission. *)
Admit(c, t) ==
    /\ alive /\ <<c, t>> \in charging
    /\ Logs("started", c, t, TRUE)
    /\ counted' = counted \cup {c}
    /\ charging' = {}
    /\ running' = running \cup {<<c, t>>}
    /\ ran' = [ran EXCEPT ![t] = @ + 1]
    /\ UNCHANGED <<alive, memory, disk, torn, writeFaults>>

AdmitFails(c, t) ==
    /\ alive /\ <<c, t>> \in charging
    /\ Fault
    /\ Logs("completed", c, t, TRUE)
    /\ charging' = {}
    /\ UNCHANGED <<alive, memory, running, counted, disk, torn, ran>>

(* tools/result *)
Finish(c, t) ==
    /\ alive /\ charging = {} /\ <<c, t>> \in running
    /\ Logs("completed", c, t, c \in counted)
    /\ counted' = counted \ {c}
    /\ running' = running \ {<<c, t>>}
    /\ UNCHANGED <<alive, memory, charging, disk, torn, writeFaults, ran>>

FinishUnwritten(c, t) ==
    /\ alive /\ charging = {} /\ <<c, t>> \in running
    /\ Fault
    /\ counted' = counted \ {c}
    /\ running' = running \ {<<c, t>>}
    /\ UNCHANGED <<alive, memory, charging, disk, log, torn, ran>>

(* The worker ends by itself, crashes or is killed, perhaps in a write. *)
WorkerEnds ==
    /\ alive
    /\ alive' = FALSE
    /\ torn' \in {torn, TRUE}
    /\ torn' => torn \/ charging \cup running # {}
    /\ UNCHANGED <<memory, charging, running, counted, disk, log, writeFaults, ran>>

Calls ==
    \E c \in CallIds, t \in Tools :
        \/ Refuse(c, t) \/ Charge(c, t) \/ ChargeFails(c, t)
        \/ Admit(c, t) \/ AdmitFails(c, t)
        \/ Finish(c, t) \/ FinishUnwritten(c, t)

-----------------------------------------------------------------------------
(* The Controller's reading of it. *)

(* readReceiptRange: what a log has gained since the turn began. *)
Gained(offset) == SubSeq(log, offset + 1, Len(log))

(* readToolReceipts: no line twice, and a counted result was admitted. *)
WellFormed(events) ==
    /\ IsInjective([i \in DOMAIN events |-> <<events[i].phase, events[i].call>>])
    /\ \A e \in Range(events) :
          e.phase = "completed" =>
             IF e.counted
             THEN [e EXCEPT !.phase = "started"] \in Range(events)
             ELSE ~\E s \in Range(events) : s.phase = "started" /\ s.call = e.call

(* One receipt for each call; an admission without a result is incomplete. *)
ReceiptsOf(events) ==
    {[call |-> e.call, tool |-> e.tool, counted |-> e.counted,
      completed |-> [e EXCEPT !.phase = "completed"] \in Range(events)] : e \in Range(events)}

Plus(a, b) == a + b
Total(f) == FoldFunction(Plus, 0, f)

(* invocationDelta, for counts that have not moved backwards. *)
NoLess(before, after) ==
    /\ \A t \in Tools : before.tools[t] <= after.tools[t]
    /\ \A g \in Groups : before.groups[g] <= after.groups[g]

CountedIn(receipts) == {r \in receipts : r.counted}

(* A mutant: calls may be left open. *)
ReconcilesOpen(before, after, receipts, requireCompleted) ==
    /\ NoLess(before, after)
    /\ Total(after.tools) - Total(before.tools) = Cardinality(CountedIn(receipts))
    /\ Total(after.groups) - Total(before.groups) = Cardinality(CountedIn(receipts))

(* reconcileToolAudit *)
Reconciles(before, after, receipts, requireCompleted) ==
    /\ NoLess(before, after)
    /\ Total(after.tools) - Total(before.tools) = Cardinality(CountedIn(receipts))
    /\ Total(after.groups) - Total(before.groups) = Cardinality(CountedIn(receipts))
    /\ requireCompleted => \A r \in CountedIn(receipts) : r.completed

=============================================================================
