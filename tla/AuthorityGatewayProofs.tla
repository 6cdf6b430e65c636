------------------------ MODULE AuthorityGatewayProofs ------------------------
(***************************************************************************)
(* For every set of calls and tools, every budget and any number of        *)
(* workspace trees: mutations run only behind a tree that passed the       *)
(* configured commands, and every write that may have landed marks the     *)
(* run.                                                                    *)
(***************************************************************************)
EXTENDS AuthorityGateway, TLAPS

\* A call runs only in a flush, and it is taken from the queue.
Control ==
    /\ active # {} => stage = "flush" /\ pending # <<>>
    /\ stage \in {"inspect", "commands", "compare"} => before \in AllTrees
    /\ stage \in {"commands", "compare"} => copied \in AllTrees

\* Trees only grow while the gate runs, so a tree equal to the one it started from
\* has not moved in between, and the copy is that tree.
Monotone ==
    /\ tree <= latest
    /\ stage \in {"inspect", "commands", "compare"} => before <= tree
    /\ stage \in {"commands", "compare"} => before <= copied /\ copied <= tree

\* What was accepted was vetted, and so is what is about to be compared.
Vetted ==
    /\ validated \in vetted
    /\ stage = "compare" => copied \in vetted

\* Outside the running call, a write that GitHub may have applied is in a receipt
\* of this flush, or the run is already marked.
Accounted ==
    /\ stage # "flush" /\ exposed # {} => partialWrite
    /\ \A c \in exposed \ active : receipt[c] \in WithEffect \/ partialWrite

\* What holds of the gateway whoever decides which tree is accepted.
Core ==
    /\ TypeOK
    /\ Control
    /\ Monotone
    /\ Accounted

IInv == Core /\ Vetted

USE ToolAssumption, MaxCallsAssumption, MaxTreeAssumption

LEMMA InitCore == Init => Core
<1> SUFFICES ASSUME Init PROVE Core
    OBVIOUS
<1> USE DEF Init
<1>1. TypeOK
  <2>1. used \in [Tools -> Nat] /\ \A t \in Tools : used[t] <= MaxCalls[t]
    OBVIOUS
  <2>2. receipt \in [Calls -> Applied \cup WithEffect \cup {"scheduled", "none"}]
    OBVIOUS
  <2>3. pending \in Seq(Calls)
    OBVIOUS
  <2>4. tree \in AllTrees /\ latest \in AllTrees /\ validated \in AllTrees
        /\ vetted \in SUBSET AllTrees
    BY DEF AllTrees
  <2>5. stage \in Stages
    BY DEF Stages
  <2> QED
    BY <2>1, <2>2, <2>3, <2>4, <2>5, Zenon DEF TypeOK
<1>2. Control /\ Monotone /\ Accounted
    BY DEF Control, Monotone, Accounted
<1> QED
    BY <1>1, <1>2 DEF Core

\* The queue: a call is counted against its tool, whether or not it is queued.
LEMMA QueueCore ==
    Core /\ ((\E c \in Calls : Invoke(c)) \/ Dispose \/ FlushBegin) => Core'
<1> SUFFICES ASSUME Core, (\E c \in Calls : Invoke(c)) \/ Dispose \/ FlushBegin
             PROVE  Core'
    OBVIOUS
<1> USE DEF queueVars, flushVars, treeVars, gateVars, runVars
<1>1. CASE \E c \in Calls : Invoke(c)
  <2> PICK c \in Calls : Invoke(c)
    BY <1>1
  <2>1. used' \in [Tools -> Nat] /\ \A t \in Tools : used'[t] <= MaxCalls[t]
    BY SMTT(60) DEF Invoke, Core, TypeOK
  <2>2. pending' \in Seq(Calls)
    BY DEF Invoke, Core, TypeOK
  <2>3. TypeOK'
    BY <2>1, <2>2 DEF Invoke, Core, TypeOK
  <2>4. Control'
    BY DEF Invoke, Core, Control
  <2>5. Monotone' /\ Accounted'
    BY DEF Invoke, Core, Monotone, Accounted
  <2> QED
    BY <2>3, <2>4, <2>5 DEF Core
<1>2. CASE Dispose
  <2>1. TypeOK'
    BY <1>2 DEF Dispose, Core, TypeOK
  <2>2. Control' /\ Monotone' /\ Accounted'
    BY <1>2 DEF Dispose, Core, Control, Monotone, Accounted
  <2> QED
    BY <2>1, <2>2 DEF Core
<1>3. CASE FlushBegin
  <2>1. TypeOK'
    BY <1>3 DEF FlushBegin, Core, TypeOK, Stages
  <2>2. Control' /\ Monotone' /\ Accounted'
    BY <1>3 DEF FlushBegin, Core, Control, Monotone, Accounted
  <2> QED
    BY <2>1, <2>2 DEF Core
<1> QED
    BY <1>1, <1>2, <1>3

\* The gate: it lets the flush through only with the accepted tree vetted.
LEMMA GateCore ==
    Core /\ (GateSkips \/ GateBegins \/ GateCopies \/ CommandsPass \/ GateAccepts \/ GateFails)
      => Core'
<1> SUFFICES ASSUME Core,
                    GateSkips \/ GateBegins \/ GateCopies \/ CommandsPass
                      \/ GateAccepts \/ GateFails
             PROVE  Core'
    OBVIOUS
<1> USE DEF queueVars, flushVars, treeVars, gateVars, runVars
<1>1. CASE GateSkips
  <2>1. TypeOK'
    BY <1>1 DEF GateSkips, Core, TypeOK, Stages
  <2>2. Control' /\ Monotone' /\ Accounted'
    BY <1>1 DEF GateSkips, Core, Control, Monotone, Accounted
  <2> QED
    BY <2>1, <2>2 DEF Core
<1>2. CASE GateBegins
  <2>1. TypeOK'
    BY <1>2 DEF GateBegins, Core, TypeOK, Stages
  <2>2. Control' /\ Monotone' /\ Accounted'
    BY <1>2 DEF GateBegins, Core, TypeOK, AllTrees, Control, Monotone, Accounted
  <2> QED
    BY <2>1, <2>2 DEF Core
<1>3. CASE GateCopies
  <2>1. TypeOK'
    BY <1>3 DEF GateCopies, Core, TypeOK, Stages
  <2>2. Control' /\ Monotone' /\ Accounted'
    BY <1>3 DEF GateCopies, Core, TypeOK, AllTrees, Control, Monotone, Accounted
  <2> QED
    BY <2>1, <2>2 DEF Core
<1>4. CASE CommandsPass
  <2>1. TypeOK'
    BY <1>4 DEF CommandsPass, Core, TypeOK, Control, Stages
  <2>2. Control' /\ Monotone' /\ Accounted'
    BY <1>4 DEF CommandsPass, Core, Control, Monotone, Accounted
  <2> QED
    BY <2>1, <2>2 DEF Core
<1>5. CASE GateAccepts
  <2>1. TypeOK'
    BY <1>5 DEF GateAccepts, Core, TypeOK, Stages
  <2>2. Control' /\ Monotone' /\ Accounted'
    BY <1>5 DEF GateAccepts, Core, Control, Monotone, Accounted
  <2> QED
    BY <2>1, <2>2 DEF Core
<1>6. CASE GateFails
  <2>1. PICK why \in {"invalid", "denied", "cancelled"} : GateStops(why) /\ stage # "flush"
    BY <1>6 DEF GateFails
  <2>2. TypeOK'
    BY <2>1 DEF GateStops, Core, TypeOK, Stages
  <2>3. Control' /\ Monotone' /\ Accounted'
    BY <2>1 DEF GateStops, Core, Control, Monotone, Accounted
  <2> QED
    BY <2>2, <2>3 DEF Core
<1> QED
    BY <1>1, <1>2, <1>3, <1>4, <1>5, <1>6

\* The mutations: a call that leaves the flush leaves a receipt that owns its write.
LEMMA MutationCore ==
    Core /\ (MutationBegins \/ MutationWrites \/ MutationApplies \/ MutationFails \/ FlushEnds)
      => Core'
<1> SUFFICES ASSUME Core,
                    MutationBegins \/ MutationWrites \/ MutationApplies
                      \/ MutationFails \/ FlushEnds
             PROVE  Core'
    OBVIOUS
<1> USE DEF queueVars, flushVars, treeVars, gateVars, runVars
<1>1. CASE MutationBegins
  <2>1. Head(pending) \in Calls
    BY <1>1 DEF MutationBegins, Core, TypeOK
  <2>2. TypeOK'
    BY <1>1, <2>1 DEF MutationBegins, Core, TypeOK
  <2>3. Control' /\ Monotone' /\ Accounted'
    BY <1>1 DEF MutationBegins, Core, Control, Monotone, Accounted
  <2> QED
    BY <2>2, <2>3 DEF Core
<1>2. CASE MutationWrites
  <2>1. TypeOK'
    BY <1>2 DEF MutationWrites, Core, TypeOK
  <2>2. Control' /\ Monotone' /\ Accounted'
    BY <1>2 DEF MutationWrites, Core, Control, Monotone, Accounted
  <2> QED
    BY <2>1, <2>2 DEF Core
<1>3. CASE MutationApplies
  <2>1. receipt' \in [Calls -> Applied \cup WithEffect \cup {"scheduled", "none"}]
    BY <1>3 DEF MutationApplies, Core, TypeOK, Applied, WithEffect
  <2>2. pending' \in Seq(Calls)
    BY <1>3 DEF MutationApplies, Core, TypeOK, Control
  <2>3. TypeOK'
    BY <1>3, <2>1, <2>2 DEF MutationApplies, Core, TypeOK
  <2>4. Control' /\ Monotone'
    BY <1>3 DEF MutationApplies, Core, Control, Monotone
  <2>5. Accounted'
    BY <1>3 DEF MutationApplies, Core, TypeOK, Control, Accounted, WithEffect
  <2> QED
    BY <2>3, <2>4, <2>5 DEF Core
<1>4. CASE MutationFails
  <2>1. PICK claim \in {"none", "possible", "confirmed"} :
            /\ claim = "none" <=> active \cap exposed = {}
            /\ receipt' = [c \in Calls |-> IF c \in active THEN claim ELSE receipt[c]]
    BY <1>4 DEF MutationFails
  <2>2. receipt' \in [Calls -> Applied \cup WithEffect \cup {"scheduled", "none"}]
    BY <2>1 DEF Core, TypeOK, Applied, WithEffect
  <2>3. partialWrite' \in BOOLEAN
    BY <1>4, Zenon DEF MutationFails, Record
  <2>4. TypeOK'
    BY <1>4, <2>2, <2>3 DEF MutationFails, Core, TypeOK, Stages
  <2>5. Control' /\ Monotone'
    BY <1>4 DEF MutationFails, Core, Control, Monotone
  <2>6. exposed' = exposed /\ active' = {} /\ exposed \in SUBSET Calls
    BY <1>4 DEF MutationFails, Core, TypeOK
  <2>7. ASSUME NEW c \in exposed PROVE partialWrite'
    <3>1. receipt'[c] \in WithEffect \/ partialWrite
      BY <2>1, <2>6, <2>7 DEF Core, Accounted, WithEffect
    <3>2. partialWrite' = (partialWrite \/ \E k \in Calls : receipt'[k] \in WithEffect)
      BY <1>4 DEF MutationFails, Record
    <3> QED
      BY <3>1, <3>2, <2>6, Zenon
  <2>8. Accounted'
    BY <2>6, <2>7 DEF Accounted
  <2> QED
    BY <2>4, <2>5, <2>8 DEF Core
<1>5. CASE FlushEnds
  <2>1. partialWrite' = (partialWrite \/ \E k \in Calls : receipt[k] \in WithEffect)
    BY <1>5 DEF FlushEnds, Record
  <2>2. partialWrite' \in BOOLEAN
    BY <2>1, Zenon
  <2>3. TypeOK'
    BY <1>5, <2>2 DEF FlushEnds, Core, TypeOK, Stages
  <2>4. Control' /\ Monotone'
    BY <1>5 DEF FlushEnds, Core, Control, Monotone
  <2>5. exposed' = exposed /\ active' = {} /\ active = {} /\ exposed \in SUBSET Calls
    BY <1>5 DEF FlushEnds, Core, TypeOK
  <2>6. ASSUME NEW c \in exposed PROVE partialWrite'
    <3>1. receipt[c] \in WithEffect \/ partialWrite
      BY <2>5, <2>6 DEF Core, Accounted
    <3> QED
      BY <3>1, <2>1, <2>5, Zenon
  <2>7. Accounted'
    BY <2>5, <2>6 DEF Accounted
  <2> QED
    BY <2>3, <2>4, <2>7 DEF Core
<1> QED
    BY <1>1, <1>2, <1>3, <1>4, <1>5

\* The environment: trees appear in order, and signals do not touch the queue.
LEMMA EnvironmentCore ==
    Core /\ (AgentEdits \/ Disturb \/ Cancel \/ SpendBudget) => Core'
<1> SUFFICES ASSUME Core, AgentEdits \/ Disturb \/ Cancel \/ SpendBudget PROVE Core'
    OBVIOUS
<1> USE DEF queueVars, flushVars, treeVars, gateVars, runVars
<1>1. CASE AgentEdits
  <2>1. TypeOK'
    BY <1>1 DEF AgentEdits, Core, TypeOK, AllTrees
  <2>2. Control' /\ Monotone' /\ Accounted'
    BY <1>1 DEF AgentEdits, Core, TypeOK, AllTrees, Control, Monotone, Accounted
  <2> QED
    BY <2>1, <2>2 DEF Core
<1>2. CASE Disturb
  <2>1. TypeOK'
    BY <1>2 DEF Disturb, Core, TypeOK, AllTrees
  <2>2. Monotone'
    BY <1>2 DEF Disturb, Core, TypeOK, AllTrees, Control, Monotone
  <2>3. Control' /\ Accounted'
    BY <1>2 DEF Disturb, Core, Control, Accounted
  <2> QED
    BY <2>1, <2>2, <2>3 DEF Core
<1>3. CASE Cancel \/ SpendBudget
  <2>1. TypeOK'
    BY <1>3 DEF Cancel, SpendBudget, Core, TypeOK
  <2>2. Control' /\ Monotone' /\ Accounted'
    BY <1>3 DEF Cancel, SpendBudget, Core, Control, Monotone, Accounted
  <2> QED
    BY <2>1, <2>2 DEF Core
<1> QED
    BY <1>1, <1>2, <1>3

\* The accepted tree is the copy that passed: the tree did not move, and the copy was
\* made in between.
LEMMA AcceptedIsCopied == Core /\ GateAccepts => copied = tree
    BY DEF GateAccepts, Core, TypeOK, AllTrees, Control, Monotone

\* Only the gate decides what is accepted.
LEMMA FlushStepVetted == Core /\ Vetted /\ FlushStep => Vetted'
<1> SUFFICES ASSUME Core, Vetted, FlushStep PROVE Vetted'
    OBVIOUS
<1> USE DEF gateVars, Vetted
<1>1. CASE GateAccepts
    BY <1>1, AcceptedIsCopied DEF GateAccepts
<1>2. CASE GateSkips \/ GateBegins \/ GateCopies \/ CommandsPass
    BY <1>2 DEF GateSkips, GateBegins, GateCopies, CommandsPass
<1>3. CASE GateFails
    BY <1>3 DEF GateFails, GateStops
<1>4. CASE MutationBegins \/ MutationWrites \/ MutationApplies \/ MutationFails \/ FlushEnds
    BY <1>4 DEF MutationBegins, MutationWrites, MutationApplies, MutationFails, FlushEnds
<1> QED
    BY <1>1, <1>2, <1>3, <1>4 DEF FlushStep

LEMMA FlushStepCore == Core /\ FlushStep => Core'
    BY GateCore, MutationCore, Zenon DEF FlushStep

\* The invariant holds in every behaviour of the gateway, fair or not.
THEOREM Invariance == Spec => []IInv
<1>1. IInv /\ [Next]_gatewayVars => IInv'
  <2> SUFFICES ASSUME IInv, [Next]_gatewayVars PROVE IInv'
    OBVIOUS
  <2>1. CASE UNCHANGED gatewayVars
    BY <2>1 DEF gatewayVars, queueVars, flushVars, treeVars, gateVars, runVars,
                IInv, Core, TypeOK, Control, Monotone, Vetted, Accounted
  <2>2. ASSUME Next PROVE Core'
    BY <2>2, QueueCore, FlushStepCore, EnvironmentCore, Zenon DEF Next, IInv
  <2>3. ASSUME Next PROVE Vetted'
    <3>1. CASE FlushStep
      BY <3>1, FlushStepVetted DEF IInv
    <3>2. CASE ~FlushStep
      BY <2>3, <3>2 DEF Next, Invoke, FlushBegin, Dispose, AgentEdits, Disturb, Cancel,
                        SpendBudget, gateVars, flushVars, Vetted, IInv
    <3> QED
      BY <3>1, <3>2
  <2> QED
    BY <2>1, <2>2, <2>3 DEF IInv
<1>2. Init => IInv
    BY InitCore DEF Init, IInv, Vetted
<1> QED
    BY <1>1, <1>2, PTL DEF Spec

\* Every variable keeps its type; in particular a tool is never charged beyond
\* githubToolMaxCalls.
THEOREM TypeCorrect == Spec => []TypeOK
<1>1. IInv => TypeOK
    BY DEF IInv, Core
<1> QED
    BY <1>1, Invariance, PTL

\* No mutation runs behind a tree the configured commands did not pass on, however
\* the workspace moves during the gate (github-validation.ts, validate).
THEOREM MutationsBehindValidation == Spec => []FlushBehindValidation
<1>1. IInv => FlushBehindValidation
    BY DEF IInv, Vetted, FlushBehindValidation
<1> QED
    BY <1>1, Invariance, PTL

\* Outside a flush, every write that GitHub may have applied has marked the run
\* (github-authority.ts, record).
THEOREM EveryEffectRecorded == Spec => []EffectsRecorded
<1>1. IInv => EffectsRecorded
    BY DEF IInv, Core, Accounted, EffectsRecorded
<1> QED
    BY <1>1, Invariance, PTL
=============================================================================
