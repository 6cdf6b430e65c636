-------------------------- MODULE ControllerRunProofs --------------------------
(***************************************************************************)
(* For every set of calls, any number of turns, finalizations and trees:   *)
(* what a run of the Agent loop tells about the writes it made, and that   *)
(* it makes them completely, in order and once.                            *)
(*                                                                         *)
(* The gateway's own invariant (AuthorityGatewayProofs) does not carry     *)
(* over as it stands.  A write that ends well forgets partialWrite, so     *)
(* Accounted is claimed up to there.  A tree that nobody has tested can be *)
(* accepted in two ways, through a process that outlives its turn and      *)
(* through executeWrite's return for a pull request completed before: what *)
(* depends on the test is claimed without them.                            *)
(***************************************************************************)
EXTENDS ControllerRun, AuthorityGatewayProofs

Flushes == {"flush-answer", "flush-write"}
Ended == {"dispose", "done"}

\* The gateway within a run.
GatewayInv ==
    /\ TypeOK
    /\ Control
    /\ Monotone
    /\ conclusion = "write" \/ Accounted

RunTypes ==
    /\ op \in {"task", "write"} /\ writable \in BOOLEAN
    /\ leftover \in BOOLEAN /\ repeats \in BOOLEAN
    /\ step \in Steps
    /\ turn \in 1..MaxTurns
    /\ issued \in SUBSET Calls
    /\ failing \in BOOLEAN
    /\ lastFailure \in SUBSET (Failures \X AllTrees)
    /\ commits \in Nat /\ found \in BOOLEAN /\ half \in BOOLEAN
    /\ conclusion \in {"running", "blocked", "answer", "write", "failure"}

\* The gateway works only while the run flushes, on the first call of the queue; the
\* run goes on past a flush only with an empty queue.
AtRest ==
    /\ step \notin Flushes => stage = "idle" /\ result = "none" /\ active = {}
    /\ active = {} \/ active = {Head(pending)}
    /\ stage # "idle" => result = "none"
    /\ result = "ok" => pending = <<>>
    /\ step = "publish" => pending = <<>>
    /\ step = "write" => copied \in AllTrees
    /\ conclusion = "running" <=> step \notin Ended

\* No call is touched while one scheduled before it has not been applied, over all
\* the finalizations a run makes.
InScheduleOrder ==
    \A i, j \in 1..Len(pending) : i < j => pending[j] \notin exposed

\* Every call the Agent was given a receipt for is queued or applied, never both; calls
\* are queued once, and only the first of the queue has been touched.
QueueInv ==
    /\ \A i, j \in 1..Len(pending) : i # j => pending[i] # pending[j]
    /\ \A i \in 1..Len(pending) : pending[i] \in issued /\ receipt[pending[i]] \notin Applied
    /\ \A c \in Calls \ issued : receipt[c] \notin Applied
    /\ exposed \subseteq issued
    /\ InScheduleOrder
    /\ step \notin Ended => \A c \in issued : receipt[c] \in Applied \/ c \in Queued
    /\ SuccessIsComplete

\* A write that has returned marks the run until the run has succeeded; one that has
\* thrown has ended it. A run with anything on GitHub that goes round again remembers why.
WriteInv ==
    /\ conclusion # "write" /\ (commits > 0 \/ found) => partialWrite
    /\ step \in {"accept", "flush-write"} => commits > 0 \/ found
    /\ half => step \in Ended
    /\ ~failing /\ step \in {"turn", "finalize", "write"} => commits = 0 /\ ~found /\ exposed = {}
    /\ BlockedLeavesNothing

\* Nobody edits the workspace behind the Controller: a write meets what it has copied, and
\* the flush behind it finds the tree that was accepted, so that it has nothing to validate
\* and cannot send the run round again; an answer is flushed for the unchanged tree. Unless
\* executeWrite has found an earlier pull request, what is accepted has passed.
Undisturbed ==
    /\ commits <= 1
    /\ half => commits = 0
    /\ commits > 0 \/ found => step \in {"accept", "flush-write"} \cup Ended
    /\ step = "write" => copied = tree
    /\ step = "accept" => found \/ tree \in vetted
    /\ step = "flush-write" =>
          tree = validated /\ stage \in {"idle", "gate", "flush"} /\ result # "invalid"
    /\ step \in {"flush-answer", "publish"} => tree = 0
    /\ 0 \in vetted
    /\ found \/ Vetted

RunInv ==
    /\ GatewayInv
    /\ RunTypes
    /\ AtRest
    /\ QueueInv
    /\ WriteInv
    /\ leftover \/ Undisturbed

USE MaxTurnsAssumption

LEMMA InitRunInv == InitRun => RunInv
<1> SUFFICES ASSUME InitRun PROVE RunInv
    OBVIOUS
<1>1. GatewayInv
    BY InitCore DEF InitRun, Core, GatewayInv
<1>2. RunTypes
  <2>1. writable \in BOOLEAN
    BY Zenon DEF InitRun
  <2>2. /\ op \in {"task", "write"} /\ leftover \in BOOLEAN /\ repeats \in BOOLEAN
        /\ step = "turn" /\ turn = 1 /\ issued = {} /\ failing = FALSE
        /\ lastFailure = {} /\ commits = 0 /\ found = FALSE /\ half = FALSE
        /\ conclusion = "running"
    BY Zenon DEF InitRun
  <2>3. step \in Steps /\ turn \in 1..MaxTurns /\ commits \in Nat
    BY <2>2 DEF Steps
  <2>4. issued \in SUBSET Calls /\ lastFailure \in SUBSET (Failures \X AllTrees)
    BY <2>2
  <2> QED
    BY <2>1, <2>2, <2>3, <2>4, Zenon DEF RunTypes
<1>3. AtRest /\ WriteInv /\ Undisturbed
    BY DEF InitRun, Init, AtRest, WriteInv, Undisturbed, Vetted, BlockedLeavesNothing,
           Flushes, Ended
<1>4. QueueInv
    BY DEF InitRun, Init, QueueInv, InScheduleOrder, SuccessIsComplete, Applied
<1> QED
    BY <1>1, <1>2, <1>3, <1>4 DEF RunInv

\* A step of the Controller that leaves the gateway alone.
LEMMA GatewayKept ==
    GatewayInv /\ conclusion # "write" /\ UNCHANGED gatewayVars => GatewayInv'
    BY DEF gatewayVars, queueVars, flushVars, treeVars, gateVars, runVars,
           GatewayInv, TypeOK, Control, Monotone, Accounted

\* A turn: the calls it asks for are queued, and only a clean slate may be blocked.
LEMMA TurnPreserves == RunInv /\ (TurnEdits \/ TurnEnds) => RunInv'
<1> SUFFICES ASSUME RunInv, TurnEdits \/ TurnEnds PROVE RunInv'
    OBVIOUS
<1> USE DEF loopVars, writeVars, controlVars, queueVars, flushVars, treeVars, gateVars, runVars,
            gatewayVars, Flushes, Ended, GoTo, Conclude
<1>0. GatewayInv /\ RunTypes /\ AtRest /\ QueueInv /\ WriteInv
    BY DEF RunInv
<1>1. CASE TurnFails
  <2>1. GatewayInv'
    BY <1>1, <1>0, GatewayKept DEF TurnFails, AtRest
  <2>2. RunTypes'
    BY <1>1, <1>0 DEF TurnFails, RunTypes, Steps
  <2>3. AtRest'
    BY <1>1, <1>0 DEF TurnFails, AtRest
  <2>4. QueueInv'
    BY <1>1, <1>0 DEF TurnFails, AtRest, QueueInv, InScheduleOrder, SuccessIsComplete, Queued
  <2>5. WriteInv'
    BY <1>1, <1>0 DEF TurnFails, AtRest, WriteInv, BlockedLeavesNothing
  <2>6. leftover' \/ Undisturbed'
    BY <1>1, <1>0 DEF TurnFails, RunInv, Undisturbed, Vetted
  <2> QED
    BY <2>1, <2>2, <2>3, <2>4, <2>5, <2>6 DEF RunInv
<1>2. CASE Block
  <2>1. GatewayInv'
    BY <1>2, <1>0, GatewayKept DEF Block, AtRest
  <2>2. RunTypes'
    BY <1>2, <1>0 DEF Block, RunTypes, Steps
  <2>3. AtRest'
    BY <1>2, <1>0 DEF Block, AtRest
  <2>4. QueueInv'
    BY <1>2, <1>0 DEF Block, AtRest, QueueInv, InScheduleOrder, SuccessIsComplete, Queued
  <2>5. WriteInv'
    BY <1>2, <1>0 DEF Block, AtRest, WriteInv, BlockedLeavesNothing
  <2>6. leftover' \/ Undisturbed'
    BY <1>2, <1>0 DEF Block, RunInv, Undisturbed, Vetted
  <2> QED
    BY <2>1, <2>2, <2>3, <2>4, <2>5, <2>6 DEF RunInv
<1>3. CASE Finalize
  <2>1. GatewayInv'
    BY <1>3, <1>0, GatewayKept DEF Finalize, AtRest
  <2>2. RunTypes'
    BY <1>3, <1>0 DEF Finalize, RunTypes, Steps
  <2>3. AtRest'
    BY <1>3, <1>0 DEF Finalize, AtRest
  <2>4. QueueInv'
    BY <1>3, <1>0 DEF Finalize, AtRest, QueueInv, InScheduleOrder, SuccessIsComplete, Queued
  <2>5. WriteInv'
    BY <1>3, <1>0 DEF Finalize, AtRest, WriteInv, BlockedLeavesNothing
  <2>6. leftover' \/ Undisturbed'
    BY <1>3, <1>0 DEF Finalize, RunInv, Undisturbed, Vetted
  <2> QED
    BY <2>1, <2>2, <2>3, <2>4, <2>5, <2>6 DEF RunInv
<1>4. CASE TurnEdits
  <2>1. GatewayInv'
    BY <1>4, <1>0, EnvironmentCore DEF TurnEdits, GatewayInv, Core, AtRest
  <2>2. RunTypes'
    BY <1>4, <1>0 DEF TurnEdits, AgentEdits, RunTypes, Steps
  <2>3. AtRest'
    BY <1>4, <1>0 DEF TurnEdits, AgentEdits, AtRest
  <2>4. QueueInv'
    BY <1>4, <1>0 DEF TurnEdits, AgentEdits, AtRest, QueueInv, InScheduleOrder, SuccessIsComplete,
       Queued
  <2>5. WriteInv'
    BY <1>4, <1>0 DEF TurnEdits, AgentEdits, AtRest, WriteInv, BlockedLeavesNothing
  <2>6. leftover' \/ Undisturbed'
    BY <1>4, <1>0 DEF TurnEdits, AgentEdits, RunInv, Undisturbed, Vetted
  <2> QED
    BY <2>1, <2>2, <2>3, <2>4, <2>5, <2>6 DEF RunInv
<1>5. CASE \E c \in Calls : RequestTool(c)
  <2> PICK c \in Calls : RequestTool(c)
    BY <1>5
  <2>1. GatewayInv'
    BY <1>0, QueueCore DEF RequestTool, NextTurn, GatewayInv, Core, AtRest
  <2>2. RunTypes'
    BY <1>0 DEF RequestTool, NextTurn, RunTypes, Steps
  <2>3. AtRest'
    BY <1>0 DEF RequestTool, NextTurn, Invoke, AtRest
  <2>4. QueueInv'
    <3>1. c \notin Queued
      BY <1>0 DEF RequestTool, QueueInv, Queued
    <3>2. pending' = Append(pending, c) /\ issued' = issued \cup {c} /\ c \notin issued
          /\ UNCHANGED <<receipt, exposed>>
      BY <3>1 DEF RequestTool, Invoke
    <3>3. pending \in Seq(Calls)
      BY <1>0 DEF GatewayInv, TypeOK
    <3>4. Len(pending') = Len(pending) + 1 /\ pending'[Len(pending) + 1] = c
          /\ \A i \in 1..Len(pending) : pending'[i] = pending[i]
      BY <3>2, <3>3
    <3>5. \A i, j \in 1..Len(pending') : i # j => pending'[i] # pending'[j]
      BY <3>1, <3>2, <3>3, <3>4, <1>0 DEF QueueInv, Queued
    <3>6. \A i \in 1..Len(pending') : pending'[i] \in issued' /\ receipt'[pending'[i]] \notin Applied
      BY <3>2, <3>3, <3>4, <1>0 DEF QueueInv
    <3>7. InScheduleOrder'
      BY <3>2, <3>3, <3>4, <1>0 DEF QueueInv, InScheduleOrder
    <3>8. Queued' = Queued \cup {c}
      BY <3>3, <3>4 DEF Queued
    <3>9. conclusion' \notin {"answer", "write"}
      BY <1>0 DEF RequestTool, NextTurn, AtRest
    <3> QED
      BY <3>2, <3>5, <3>6, <3>7, <3>8, <3>9, <1>0
      DEF RequestTool, NextTurn, AtRest, QueueInv, SuccessIsComplete
  <2>5. WriteInv'
    BY <1>0 DEF RequestTool, NextTurn, Invoke, AtRest, WriteInv, BlockedLeavesNothing
  <2>6. leftover' \/ Undisturbed'
    BY <1>0 DEF RequestTool, NextTurn, Invoke, RunInv, Undisturbed, Vetted
  <2> QED
    BY <2>1, <2>2, <2>3, <2>4, <2>5, <2>6 DEF RunInv
<1> QED
    BY <1>1, <1>2, <1>3, <1>4, <1>5 DEF TurnEnds

\* finalize, up to the write.
LEMMA FinalizePreserves == RunInv /\ (Answer \/ BeginWrite \/ FinalizeFails \/ ValidationFails) => RunInv'
<1> SUFFICES ASSUME RunInv, Answer \/ BeginWrite \/ FinalizeFails \/ ValidationFails PROVE RunInv'
    OBVIOUS
<1> USE DEF loopVars, writeVars, controlVars, queueVars, flushVars, treeVars, gateVars, runVars,
            gatewayVars, Flushes, Ended, GoTo, Conclude
<1>0. GatewayInv /\ RunTypes /\ AtRest /\ QueueInv /\ WriteInv
    BY DEF RunInv
<1>1. CASE Answer
  <2>1. GatewayInv'
    <3>1. CASE FlushBegin /\ conclusion' = conclusion
      BY <1>0, <1>1, <3>1, QueueCore DEF Answer, GatewayInv, Core, AtRest
    <3>2. CASE UNCHANGED gatewayVars
      BY <1>0, <1>1, <3>2, GatewayKept DEF Answer, AtRest
    <3> QED
      BY <1>1, <3>1, <3>2 DEF Answer, FlushOr
  <2>2. RunTypes'
    BY <1>1, <1>0 DEF Answer, FlushOr, FlushBegin, RunTypes, Steps
  <2>3. AtRest'
    BY <1>1, <1>0 DEF Answer, FlushOr, FlushBegin, AtRest
  <2>4. QueueInv'
    BY <1>1, <1>0 DEF Answer, FlushOr, FlushBegin, AtRest, QueueInv, InScheduleOrder,
       SuccessIsComplete, Queued
  <2>5. WriteInv'
    BY <1>1, <1>0 DEF Answer, FlushOr, FlushBegin, AtRest, WriteInv, BlockedLeavesNothing
  <2>6. leftover' \/ Undisturbed'
    BY <1>1, <1>0 DEF Answer, FlushOr, FlushBegin, RunInv, AtRest, Undisturbed, Vetted
  <2> QED
    BY <2>1, <2>2, <2>3, <2>4, <2>5, <2>6 DEF RunInv
<1>2. CASE BeginWrite
  <2>1. GatewayInv'
    BY <1>2, <1>0 DEF BeginWrite, GatewayInv, TypeOK, Control, Monotone, Accounted, AtRest
  <2>2. RunTypes'
    BY <1>2, <1>0 DEF BeginWrite, RunTypes, Steps
  <2>3. AtRest'
    BY <1>2, <1>0 DEF BeginWrite, AtRest, GatewayInv, TypeOK
  <2>4. QueueInv'
    BY <1>2, <1>0 DEF BeginWrite, AtRest, QueueInv, InScheduleOrder, SuccessIsComplete, Queued
  <2>5. WriteInv'
    BY <1>2, <1>0 DEF BeginWrite, AtRest, WriteInv, BlockedLeavesNothing
  <2>6. leftover' \/ Undisturbed'
    BY <1>2, <1>0 DEF BeginWrite, RunInv, AtRest, Undisturbed, Vetted
  <2> QED
    BY <2>1, <2>2, <2>3, <2>4, <2>5, <2>6 DEF RunInv
<1>3. CASE FinalizeFails
  <2>1. GatewayInv'
    BY <1>3, <1>0, GatewayKept DEF FinalizeFails, AtRest
  <2>2. RunTypes'
    BY <1>3, <1>0 DEF FinalizeFails, RunTypes, Steps
  <2>3. AtRest'
    BY <1>3, <1>0 DEF FinalizeFails, AtRest
  <2>4. QueueInv'
    BY <1>3, <1>0 DEF FinalizeFails, AtRest, QueueInv, InScheduleOrder, SuccessIsComplete, Queued
  <2>5. WriteInv'
    BY <1>3, <1>0 DEF FinalizeFails, AtRest, WriteInv, BlockedLeavesNothing
  <2>6. leftover' \/ Undisturbed'
    BY <1>3, <1>0 DEF FinalizeFails, RunInv, AtRest, Undisturbed, Vetted
  <2> QED
    BY <2>1, <2>2, <2>3, <2>4, <2>5, <2>6 DEF RunInv
<1>4. CASE ValidationFails
  <2>1. GatewayInv'
    BY <1>4, <1>0, GatewayKept DEF ValidationFails, Retry, NextTurn, AtRest
  <2>2. RunTypes'
    <3>1. tree \in AllTrees
      BY <1>0 DEF GatewayInv, TypeOK
    <3>2. lastFailure' \in SUBSET (Failures \X AllTrees)
      BY <1>4, <1>0, <3>1 DEF ValidationFails, Retry, RunTypes
    <3>3. turn' \in 1..MaxTurns
      BY <1>4, <1>0 DEF ValidationFails, Retry, NextTurn, RunTypes
    <3>4. step' \in Steps
          /\ conclusion' \in {"running", "blocked", "answer", "write", "failure"}
      BY <1>4, <1>0 DEF ValidationFails, Retry, NextTurn, RunTypes, Steps
    <3>5. failing' \in BOOLEAN /\ UNCHANGED <<loopVars, issued, writeVars>>
      BY <1>4, <1>0 DEF ValidationFails, Retry, RunTypes
    <3> QED
      BY <1>0, <3>2, <3>3, <3>4, <3>5 DEF RunTypes
  <2>3. AtRest'
    BY <1>4, <1>0 DEF ValidationFails, Retry, NextTurn, AtRest
  <2>4. QueueInv'
    BY <1>4, <1>0 DEF ValidationFails, Retry, NextTurn, AtRest, QueueInv, InScheduleOrder,
       SuccessIsComplete, Queued
  <2>5. WriteInv'
    BY <1>4, <1>0 DEF ValidationFails, Retry, NextTurn, AtRest, WriteInv, BlockedLeavesNothing
  <2>6. leftover' \/ Undisturbed'
    BY <1>4, <1>0 DEF ValidationFails, Retry, NextTurn, RunInv, AtRest, Undisturbed, Vetted
  <2> QED
    BY <2>1, <2>2, <2>3, <2>4, <2>5, <2>6 DEF RunInv
<1> QED
    BY <1>1, <1>2, <1>3, <1>4

\* The write, and the flush behind it or before the answer.
LEMMA WritePreserves ==
    ASSUME RunInv,
           \/ WriteReturns \/ WriteFindsPrior \/ WriteThrows
           \/ Accept \/ FlushAfterWrite \/ FlushReturns
    PROVE  RunInv'
<1> USE DEF loopVars, writeVars, controlVars, queueVars, flushVars, treeVars, gateVars, runVars,
            gatewayVars, Flushes, Ended, GoTo, Conclude
<1>0. GatewayInv /\ RunTypes /\ AtRest /\ QueueInv /\ WriteInv
    BY DEF RunInv
<1>1. CASE WriteReturns
  <2>1. GatewayInv'
    BY <1>1, <1>0 DEF WriteReturns, GatewayInv, TypeOK, Control, Monotone, Accounted, AtRest
  <2>2. RunTypes'
    BY <1>1, <1>0 DEF WriteReturns, RunTypes, Steps
  <2>3. AtRest'
    BY <1>1, <1>0 DEF WriteReturns, AtRest
  <2>4. QueueInv'
    BY <1>1, <1>0 DEF WriteReturns, AtRest, QueueInv, InScheduleOrder, SuccessIsComplete, Queued
  <2>5. WriteInv'
    BY <1>1, <1>0 DEF WriteReturns, AtRest, RunTypes, WriteInv, BlockedLeavesNothing
  <2>6. leftover' \/ Undisturbed'
    BY <1>1, <1>0 DEF WriteReturns, RunInv, RunTypes, WriteInv, Undisturbed, Vetted
  <2> QED
    BY <2>1, <2>2, <2>3, <2>4, <2>5, <2>6 DEF RunInv
<1>2. CASE Accept
  <2>1. GatewayInv'
    BY <1>2, <1>0 DEF Accept, AcceptRevision, GatewayInv, TypeOK, Control, Monotone, Accounted,
       AtRest
  <2>2. RunTypes'
    BY <1>2, <1>0 DEF Accept, AcceptRevision, RunTypes, Steps
  <2>3. AtRest'
    BY <1>2, <1>0 DEF Accept, AcceptRevision, AtRest
  <2>4. QueueInv'
    BY <1>2, <1>0 DEF Accept, AcceptRevision, AtRest, QueueInv, InScheduleOrder,
       SuccessIsComplete, Queued
  <2>5. WriteInv'
    BY <1>2, <1>0 DEF Accept, AcceptRevision, AtRest, WriteInv, BlockedLeavesNothing
  <2>6. leftover' \/ Undisturbed'
    BY <1>2, <1>0 DEF Accept, AcceptRevision, RunInv, AtRest, Undisturbed, Vetted
  <2> QED
    BY <2>1, <2>2, <2>3, <2>4, <2>5, <2>6 DEF RunInv
<1>3. CASE FlushAfterWrite
  <2>1. GatewayInv'
    <3>1. CASE FlushBegin /\ conclusion' = conclusion
      BY <1>0, <1>3, <3>1, QueueCore DEF FlushAfterWrite, GatewayInv, Core, AtRest
    <3>2. CASE /\ conclusion' = "write" /\ partialWrite' = FALSE
               /\ UNCHANGED <<queueVars, flushVars, treeVars, gateVars, spent, aborted>>
      BY <1>0, <3>2 DEF GatewayInv, TypeOK, Control, Monotone
    <3> QED
      BY <1>3, <3>1, <3>2 DEF FlushAfterWrite
  <2>2. RunTypes'
    BY <1>3, <1>0 DEF FlushAfterWrite, FlushBegin, RunTypes, Steps
  <2>3. AtRest'
    <3>1. CASE pending # <<>>
      BY <1>0, <1>3, <3>1 DEF FlushAfterWrite, FlushBegin, AtRest
    <3>2. CASE pending = <<>>
      BY <1>0, <1>3, <3>2 DEF FlushAfterWrite, AtRest, GatewayInv, Control
    <3> QED
      BY <3>1, <3>2
  <2>4. QueueInv'
    BY <1>3, <1>0 DEF FlushAfterWrite, FlushBegin, AtRest, QueueInv, InScheduleOrder,
       SuccessIsComplete, Queued
  <2>5. WriteInv'
    BY <1>3, <1>0 DEF FlushAfterWrite, FlushBegin, AtRest, WriteInv, BlockedLeavesNothing
  <2>6. leftover' \/ Undisturbed'
    BY <1>3, <1>0 DEF FlushAfterWrite, FlushBegin, RunInv, AtRest, Undisturbed, Vetted
  <2> QED
    BY <2>1, <2>2, <2>3, <2>4, <2>5, <2>6 DEF RunInv
<1>4. CASE FlushReturns
  <2>0. \/ Retry
        \/ /\ UNCHANGED <<turn, failing, lastFailure>>
           /\ step' \in {"publish", "dispose"}
           /\ conclusion' \in {conclusion, "write", "failure"}
    BY <1>4 DEF FlushReturns
  <2>1. GatewayInv'
    BY <1>4, <1>0 DEF FlushReturns, Retry, NextTurn, GatewayInv, TypeOK, Control, Monotone,
       Accounted, AtRest
  <2>2. RunTypes'
    <3>1. tree \in AllTrees
      BY <1>0 DEF GatewayInv, TypeOK
    <3>2. Retry => lastFailure' \in SUBSET (Failures \X AllTrees) /\ turn' \in 1..MaxTurns
      <4> HAVE Retry
      <4>1. lastFailure' \in SUBSET (Failures \X AllTrees)
        BY <3>1 DEF Retry
      <4>2. turn' \in 1..MaxTurns
        BY <1>0 DEF Retry, NextTurn, RunTypes
      <4> QED
        BY <4>1, <4>2
    <3>3. lastFailure' \in SUBSET (Failures \X AllTrees) /\ turn' \in 1..MaxTurns
      BY <1>0, <2>0, <3>2 DEF RunTypes
    <3>4. step' \in Steps
          /\ conclusion' \in {"running", "blocked", "answer", "write", "failure"}
      BY <1>4, <1>0 DEF FlushReturns, Retry, NextTurn, RunTypes, Steps
    <3>5. failing' \in BOOLEAN /\ UNCHANGED <<loopVars, issued, writeVars>>
      BY <1>4, <1>0 DEF FlushReturns, Retry, RunTypes
    <3> QED
      BY <1>0, <3>3, <3>4, <3>5 DEF RunTypes
  <2>3. AtRest'
    <3>1. active = {} /\ active' = {} /\ stage' = "idle" /\ result' = "none"
          /\ UNCHANGED <<pending, copied>> /\ conclusion = "running"
      BY <1>4, <1>0 DEF FlushReturns, AtRest, GatewayInv, Control
    <3>2. CASE Retry
      BY <3>1, <3>2, <1>0 DEF Retry, NextTurn, AtRest
    <3>3. CASE ~Retry
      BY <3>1, <3>3, <1>4, <1>0 DEF FlushReturns, AtRest
    <3> QED
      BY <3>2, <3>3
  <2>4. QueueInv'
    <3>1. UNCHANGED <<pending, receipt, exposed, issued>> /\ step \notin Ended
      BY <1>4 DEF FlushReturns
    <3>2. conclusion' \in {"answer", "write"} => pending = <<>>
      BY <1>4, <1>0 DEF FlushReturns, Retry, NextTurn, AtRest
    <3>3. InScheduleOrder' /\ Queued' = Queued
      BY <3>1, <1>0 DEF QueueInv, InScheduleOrder, Queued
    <3>4. SuccessIsComplete'
      BY <3>1, <3>2, <1>0 DEF QueueInv, SuccessIsComplete, Queued
    <3> QED
      BY <3>1, <3>3, <3>4, <1>0 DEF QueueInv
  <2>5. WriteInv'
    BY <1>4, <1>0 DEF FlushReturns, Retry, NextTurn, AtRest, WriteInv, BlockedLeavesNothing
  <2>6. leftover' \/ Undisturbed'
    BY <1>4, <1>0 DEF FlushReturns, Retry, NextTurn, RunInv, AtRest, Undisturbed, Vetted
  <2> QED
    BY <2>1, <2>2, <2>3, <2>4, <2>5, <2>6 DEF RunInv
<1>5. CASE WriteFindsPrior
  <2>1. GatewayInv'
    BY <1>5, <1>0 DEF WriteFindsPrior, GatewayInv, TypeOK, Control, Monotone, Accounted, AtRest
  <2>2. RunTypes'
    BY <1>5, <1>0 DEF WriteFindsPrior, RunTypes, Steps
  <2>3. AtRest'
    BY <1>5, <1>0 DEF WriteFindsPrior, AtRest
  <2>4. QueueInv'
    BY <1>5, <1>0 DEF WriteFindsPrior, AtRest, QueueInv, InScheduleOrder, SuccessIsComplete, Queued
  <2>5. WriteInv'
    BY <1>5, <1>0 DEF WriteFindsPrior, AtRest, RunTypes, WriteInv, BlockedLeavesNothing
  <2>6. leftover' \/ Undisturbed'
    BY <1>5, <1>0 DEF WriteFindsPrior, RunInv, RunTypes, AtRest, Undisturbed, Vetted
  <2> QED
    BY <2>1, <2>2, <2>3, <2>4, <2>5, <2>6 DEF RunInv
<1>6. CASE WriteThrows
  <2>1. GatewayInv'
    BY <1>6, <1>0 DEF WriteThrows, GatewayInv, TypeOK, Control, Monotone, Accounted, AtRest
  <2>2. RunTypes'
    BY <1>6, <1>0 DEF WriteThrows, RunTypes, Steps
  <2>3. AtRest'
    BY <1>6, <1>0 DEF WriteThrows, AtRest
  <2>4. QueueInv'
    BY <1>6, <1>0 DEF WriteThrows, AtRest, QueueInv, InScheduleOrder, SuccessIsComplete, Queued
  <2>5. WriteInv'
    BY <1>6, <1>0 DEF WriteThrows, AtRest, RunTypes, WriteInv, BlockedLeavesNothing
  <2>6. leftover' \/ Undisturbed'
    BY <1>6, <1>0 DEF WriteThrows, RunInv, RunTypes, AtRest, Undisturbed, Vetted
  <2> QED
    BY <2>1, <2>2, <2>3, <2>4, <2>5, <2>6 DEF RunInv
<1> QED
    BY <1>1, <1>2, <1>3, <1>4, <1>5, <1>6

\* The way out.
LEMMA EndPreserves == RunInv /\ (Publish \/ Cleanup) => RunInv'
<1> SUFFICES ASSUME RunInv, Publish \/ Cleanup PROVE RunInv'
    OBVIOUS
<1> USE DEF loopVars, writeVars, controlVars, queueVars, flushVars, treeVars, gateVars, runVars,
            gatewayVars, Flushes, Ended, GoTo, Conclude
<1>0. GatewayInv /\ RunTypes /\ AtRest /\ QueueInv /\ WriteInv
    BY DEF RunInv
<1>1. CASE Publish
  <2>1. GatewayInv'
    BY <1>1, <1>0, GatewayKept DEF Publish, AtRest
  <2>2. RunTypes'
    BY <1>1, <1>0 DEF Publish, RunTypes, Steps
  <2>3. AtRest'
    BY <1>1, <1>0 DEF Publish, AtRest
  <2>4. QueueInv'
    BY <1>1, <1>0 DEF Publish, AtRest, QueueInv, InScheduleOrder, SuccessIsComplete, Queued
  <2>5. WriteInv'
    BY <1>1, <1>0 DEF Publish, AtRest, WriteInv, BlockedLeavesNothing
  <2>6. leftover' \/ Undisturbed'
    BY <1>1, <1>0 DEF Publish, RunInv, AtRest, Undisturbed, Vetted
  <2> QED
    BY <2>1, <2>2, <2>3, <2>4, <2>5, <2>6 DEF RunInv
<1>2. CASE Cleanup
  <2>1. GatewayInv'
    BY <1>2, <1>0 DEF Cleanup, Dispose, GatewayInv, TypeOK, Control, Monotone, Accounted, AtRest
  <2>2. RunTypes'
    BY <1>2, <1>0 DEF Cleanup, Dispose, RunTypes, Steps
  <2>3. AtRest'
    BY <1>2, <1>0 DEF Cleanup, Dispose, AtRest
  <2>4. QueueInv'
    BY <1>2, <1>0 DEF Cleanup, Dispose, AtRest, QueueInv, InScheduleOrder, SuccessIsComplete, Queued
  <2>5. WriteInv'
    BY <1>2, <1>0 DEF Cleanup, Dispose, AtRest, WriteInv, BlockedLeavesNothing
  <2>6. leftover' \/ Undisturbed'
    BY <1>2, <1>0 DEF Cleanup, Dispose, RunInv, AtRest, Undisturbed, Vetted
  <2> QED
    BY <2>1, <2>2, <2>3, <2>4, <2>5, <2>6 DEF RunInv
<1> QED
    BY <1>1, <1>2

\* The gate: it touches neither the queue nor GitHub, and behind a write it is open.
LEMMA GateStepPreserves ==
    ASSUME RunInv, step \in Flushes, UNCHANGED <<loopVars, controlVars, issued, writeVars>>,
           GateSkips \/ GateBegins \/ GateCopies \/ CommandsPass \/ GateAccepts \/ GateFails
    PROVE  AtRest' /\ QueueInv' /\ WriteInv' /\ (leftover' \/ Undisturbed')
<1> USE DEF loopVars, writeVars, controlVars, queueVars, flushVars, treeVars, gateVars, runVars,
            Flushes, Ended
<1>0. GatewayInv /\ AtRest /\ QueueInv /\ WriteInv
    BY DEF RunInv
<1>1. UNCHANGED <<pending, active, receipt, exposed, tree, partialWrite>>
    BY DEF GateSkips, GateBegins, GateCopies, CommandsPass, GateAccepts, GateFails, GateStops
<1>2. /\ stage \notin {"idle", "flush"} /\ active = {}
      /\ stage' # "idle" => result' = "none"
      /\ result' # "ok"
    BY <1>0 DEF GateSkips, GateBegins, GateCopies, CommandsPass, GateAccepts, GateFails,
                GateStops, AtRest, GatewayInv, Control
<1>3. AtRest'
    BY <1>0, <1>1, <1>2 DEF AtRest
<1>4. QueueInv'
    BY <1>0, <1>1 DEF QueueInv, InScheduleOrder, SuccessIsComplete, Queued
<1>5. WriteInv'
    BY <1>0, <1>1 DEF WriteInv, BlockedLeavesNothing
<1>6. leftover' \/ Undisturbed'
  <2> SUFFICES ASSUME ~leftover PROVE Undisturbed'
    OBVIOUS
  <2>1. Undisturbed
    BY DEF RunInv
  <2>2. found' \/ Vetted'
    <3>1. CASE GateAccepts
      <4>1. copied = tree
        BY <3>1, <1>0, AcceptedIsCopied DEF Core, AtRest, GatewayInv
      <4> QED
        BY <3>1, <4>1, <2>1 DEF GateAccepts, Undisturbed, Vetted
    <3>2. CASE ~GateAccepts
      BY <3>2, <2>1 DEF GateSkips, GateBegins, GateCopies, CommandsPass, GateFails, GateStops,
                        Undisturbed, Vetted
    <3> QED
      BY <3>1, <3>2
  <2>3. step = "flush-write" => GateSkips
    BY <2>1, <1>2 DEF GateBegins, GateCopies, CommandsPass, GateAccepts, GateFails, GateStops,
                      Undisturbed
  <2>4. step = "flush-write" => tree' = validated' /\ stage' = "flush" /\ result' # "invalid"
    BY <2>1, <2>3 DEF GateSkips, Undisturbed
  <2> QED
    BY <2>1, <2>2, <2>4, <1>1 DEF Undisturbed, GateSkips, GateBegins, GateCopies, CommandsPass,
       GateAccepts, GateFails, GateStops
<1> QED
    BY <1>3, <1>4, <1>5, <1>6

\* The mutations: the first call of the queue is touched, and leaves it when it is applied.
LEMMA MutationStepPreserves ==
    ASSUME RunInv, step \in Flushes, UNCHANGED <<loopVars, controlVars, issued, writeVars>>,
           MutationBegins \/ MutationWrites \/ MutationApplies \/ MutationFails \/ FlushEnds
    PROVE  AtRest' /\ QueueInv' /\ WriteInv' /\ (leftover' \/ Undisturbed')
<1> USE DEF loopVars, writeVars, controlVars, queueVars, flushVars, treeVars, gateVars, runVars,
            Flushes, Ended
<1>0. GatewayInv /\ AtRest /\ QueueInv /\ WriteInv
    BY DEF RunInv
<1>1. stage = "flush" /\ pending \in Seq(Calls) /\ exposed \subseteq Calls
      /\ (active # {} => pending # <<>> /\ active = {pending[1]})
    BY <1>0 DEF MutationBegins, MutationWrites, MutationApplies, MutationFails, FlushEnds,
                GatewayInv, Control, TypeOK, AtRest
<1>2. UNCHANGED <<tree, validated, copied, vetted>>
    BY DEF MutationBegins, MutationWrites, MutationApplies, MutationFails, FlushEnds
<1>3. AtRest'
    BY <1>0, <1>1, <1>2 DEF MutationBegins, MutationWrites, MutationApplies, MutationFails,
       FlushEnds,
                AtRest
<1>4. WriteInv'
  <2>1. partialWrite => partialWrite'
    BY <1>0 DEF MutationBegins, MutationWrites, MutationApplies, MutationFails, FlushEnds, Record
  <2> QED
    BY <2>1, <1>0 DEF WriteInv, BlockedLeavesNothing, AtRest
<1>5. leftover' \/ Undisturbed'
  <2>1. stage' \in {"flush", "idle"} /\ result' \in {result, "failed", "ok"}
    BY <1>1 DEF MutationBegins, MutationWrites, MutationApplies, MutationFails, FlushEnds
  <2> QED
    BY <2>1, <1>1, <1>2 DEF RunInv, Undisturbed, Vetted
<1>6. SuccessIsComplete' /\ conclusion' = "running"
    BY <1>0 DEF AtRest, SuccessIsComplete
<1>7. QueueInv'
  <2>1. CASE MutationBegins \/ FlushEnds
    BY <2>1, <1>0, <1>6 DEF MutationBegins, FlushEnds, QueueInv, InScheduleOrder, Queued
  <2>2. CASE MutationWrites
    <3>1. InScheduleOrder'
      BY <2>2, <1>0, <1>1 DEF MutationWrites, QueueInv, InScheduleOrder
    <3> QED
      BY <2>2, <3>1, <1>0, <1>1, <1>6 DEF MutationWrites, QueueInv, Queued
  <2>3. CASE MutationApplies
    <3>1. /\ pending # <<>> /\ active = {pending[1]}
          /\ Len(pending') = Len(pending) - 1
          /\ \A i \in 1..Len(pending') : pending'[i] = pending[i + 1]
      BY <2>3, <1>1 DEF MutationApplies
    <3>2. receipt' = [c \in Calls |-> IF c \notin active THEN receipt[c]
                        ELSE IF c \in exposed THEN "updated" ELSE "unchanged"]
          /\ UNCHANGED <<exposed, issued, step>>
      BY <2>3 DEF MutationApplies
    <3>3. \A c \in Calls : IF c = pending[1] THEN receipt'[c] \in Applied
                           ELSE receipt'[c] = receipt[c]
      BY <3>1, <3>2 DEF Applied
    <3>4. \A i \in 1..Len(pending') : pending'[i] \in Calls /\ pending'[i] # pending[1]
      BY <3>1, <1>0, <1>1 DEF QueueInv
    <3>5. \A i, j \in 1..Len(pending') : i # j => pending'[i] # pending'[j]
      BY <3>1, <1>0, <1>1 DEF QueueInv
    <3>6. \A i \in 1..Len(pending') : pending'[i] \in issued' /\ receipt'[pending'[i]] \notin Applied
      BY <3>1, <3>2, <3>3, <3>4, <1>0, <1>1 DEF QueueInv
    <3>7. InScheduleOrder'
      BY <3>1, <3>2, <1>0, <1>1 DEF QueueInv, InScheduleOrder
    <3>8. pending[1] \in issued /\ issued \subseteq Calls
      BY <3>1, <1>0, <1>1 DEF QueueInv, RunInv, RunTypes
    <3>9. \A c \in issued : receipt'[c] \in Applied \/ c \in Queued'
      <4> SUFFICES ASSUME NEW c \in issued, c # pending[1], receipt[c] \notin Applied
                   PROVE  c \in Queued'
        BY <3>3, <3>8
      <4>1. PICK i \in 1..Len(pending) : pending[i] = c
        BY <1>0 DEF QueueInv, Queued
      <4>2. i - 1 \in 1..Len(pending') /\ pending'[i - 1] = c
        BY <4>1, <3>1, <1>1
      <4> QED
        BY <4>2 DEF Queued
    <3>10. \A c \in Calls \ issued' : receipt'[c] \notin Applied
      BY <3>2, <3>3, <3>8, <1>0 DEF QueueInv
    <3>11. exposed' \subseteq issued'
      BY <3>2, <1>0 DEF QueueInv
    <3> QED
      BY <3>5, <3>6, <3>7, <3>9, <3>10, <3>11, <3>2, <1>6 DEF QueueInv
  <2>4. CASE MutationFails
    <3>1. UNCHANGED <<pending, exposed, issued, step>> /\ active = {pending[1]} /\ pending # <<>>
      BY <2>4, <1>1 DEF MutationFails
    <3>2. \A c \in Calls : receipt'[c] = receipt[c] \/ (c = pending[1] /\ receipt'[c] \notin Applied)
      BY <2>4, <3>1 DEF MutationFails, Applied
    <3>3. pending[1] \in issued /\ issued \subseteq Calls /\ pending[1] \in Queued
      BY <3>1, <1>0, <1>1 DEF QueueInv, RunInv, RunTypes, Queued
    <3>4. Queued' = Queued /\ InScheduleOrder'
      BY <3>1, <1>0 DEF Queued, QueueInv, InScheduleOrder
    <3>5. \A i \in 1..Len(pending') : pending'[i] \in issued' /\ receipt'[pending'[i]] \notin Applied
      BY <3>1, <3>2, <1>0, <1>1 DEF QueueInv
    <3>6. \A c \in issued : receipt'[c] \in Applied \/ c \in Queued'
      BY <3>2, <3>3, <3>4, <1>0 DEF QueueInv
    <3>7. \A c \in Calls \ issued' : receipt'[c] \notin Applied
      BY <3>1, <3>2, <1>0 DEF QueueInv
    <3> QED
      BY <3>1, <3>4, <3>5, <3>6, <3>7, <1>0, <1>6 DEF QueueInv
  <2> QED
    BY <2>1, <2>2, <2>3, <2>4
<1> QED
    BY <1>3, <1>4, <1>5, <1>7

LEMMA FlushPreserves == RunInv /\ GatewaySteps => RunInv'
<1> SUFFICES ASSUME RunInv, GatewaySteps PROVE RunInv'
    OBVIOUS
<1>0. GatewayInv /\ RunTypes /\ AtRest
    BY DEF RunInv
<1>1. /\ step \in Flushes /\ FlushStep
      /\ UNCHANGED <<loopVars, controlVars, issued, writeVars>>
    BY DEF GatewaySteps, Flushes
<1>2. GatewayInv'
    BY <1>0, <1>1, FlushStepCore DEF GatewayInv, Core, AtRest, Flushes, Ended, controlVars
<1>3. RunTypes'
    BY <1>0, <1>1 DEF RunTypes, loopVars, writeVars, controlVars
<1>4. AtRest' /\ QueueInv' /\ WriteInv' /\ (leftover' \/ Undisturbed')
    BY <1>1, GateStepPreserves, MutationStepPreserves, Zenon DEF FlushStep
<1> QED
    BY <1>2, <1>3, <1>4 DEF RunInv

\* The environment: only a process that outlives its turn moves the tree.
LEMMA EnvironmentPreserves == RunInv /\ Environment => RunInv'
<1> SUFFICES ASSUME RunInv, Environment PROVE RunInv'
    OBVIOUS
<1> USE DEF loopVars, writeVars, controlVars, queueVars, flushVars, treeVars, gateVars, runVars
<1>0. GatewayInv /\ RunTypes /\ AtRest /\ QueueInv /\ WriteInv
    BY DEF RunInv
<1>1. /\ UNCHANGED <<pending, stage, active, receipt, result, exposed, copied, validated,
                     vetted, partialWrite>>
      /\ UNCHANGED <<loopVars, controlVars, issued, writeVars>>
      /\ leftover \/ UNCHANGED tree
    BY DEF Environment, Disturb, Cancel, SpendBudget
<1>2. GatewayInv'
  <2>1. CASE conclusion = "write"
    <3>1. tree' \in AllTrees /\ latest' \in AllTrees
      BY <1>0, MaxTreeAssumption
         DEF Environment, Disturb, Cancel, SpendBudget, GatewayInv, TypeOK, AllTrees
    <3>2. spent' \in BOOLEAN /\ aborted' \in BOOLEAN
      BY <1>0, Zenon DEF Environment, Disturb, Cancel, SpendBudget, GatewayInv, TypeOK
    <3>3. UNCHANGED <<used, before>>
      BY DEF Environment, Disturb, Cancel, SpendBudget
    <3>4. TypeOK'
      BY <1>0, <1>1, <3>1, <3>2, <3>3, Zenon DEF GatewayInv, TypeOK
    <3>5. Control' /\ Monotone'
      BY <1>0, <1>1 DEF GatewayInv, TypeOK, AllTrees, Control, Monotone, Environment,
                        Disturb, Cancel, SpendBudget
    <3> QED
      BY <2>1, <1>1, <3>4, <3>5 DEF GatewayInv
  <2>2. CASE conclusion # "write"
    BY <2>2, <1>0, EnvironmentCore DEF Environment, GatewayInv, Core
  <2> QED
    BY <2>1, <2>2
<1>3. RunTypes' /\ AtRest'
    BY <1>0, <1>1 DEF RunTypes, AtRest
<1>4. QueueInv'
    BY <1>0, <1>1 DEF QueueInv, InScheduleOrder, SuccessIsComplete, Queued
<1>5. WriteInv'
    BY <1>0, <1>1 DEF WriteInv, BlockedLeavesNothing
<1>6. leftover' \/ Undisturbed'
    BY <1>1 DEF RunInv, Undisturbed, Vetted
<1> QED
    BY <1>2, <1>3, <1>4, <1>5, <1>6 DEF RunInv

LEMMA StepRunInv == RunInv /\ [NextRun]_vars => RunInv'
<1> SUFFICES ASSUME RunInv, [NextRun]_vars PROVE RunInv'
    OBVIOUS
<1>1. CASE NextRun
    BY <1>1, TurnPreserves, FinalizePreserves, WritePreserves, EndPreserves, FlushPreserves,
       EnvironmentPreserves, Zenon DEF NextRun, FinalizeStep
<1>2. CASE UNCHANGED vars
    BY <1>2 DEF vars, loopVars, writeVars, controlVars, gatewayVars, queueVars, flushVars, treeVars,
                gateVars, runVars, RunInv, GatewayInv, TypeOK, Control, Monotone, Accounted,
                RunTypes, AtRest, QueueInv, InScheduleOrder, SuccessIsComplete, Queued,
                WriteInv, BlockedLeavesNothing, Undisturbed, Vetted
<1> QED
    BY <1>1, <1>2

\* The invariant holds in every run, fair or not.
THEOREM RunInvariance == SpecRun => []RunInv
    BY InitRunInv, StepRunInv, PTL DEF SpecRun

-----------------------------------------------------------------------------
(* What the invariant and its steps give *)

\* Every variable of a run keeps its type, and the turn its bound (runAgentLoop).
THEOREM RunTypeCorrect == SpecRun => []TypeOKRun
<1>1. RunInv => TypeOKRun
    BY DEF RunInv, GatewayInv, RunTypes, TypeOKRun
<1> QED
    BY <1>1, RunInvariance, PTL

\* A run that fails with something on GitHub is marked.
LEMMA FailureMarked == RunInv => PartialWriteTold
<1> SUFFICES ASSUME RunInv, conclusion = "failure", commits > 0 \/ found \/ exposed # {}
             PROVE partialWrite
    BY DEF PartialWriteTold
<1>1. GatewayInv /\ RunTypes /\ AtRest /\ WriteInv
    BY DEF RunInv
<1>2. stage = "idle"
    BY <1>1 DEF AtRest, Ended, Flushes, RunTypes
<1> QED
    BY <1>1, <1>2 DEF GatewayInv, Accounted, WriteInv

\* A run that fails after executeWrite has returned, or after it has exposed a mutation,
\* carries partialWrite in its outcome (orchestrator.ts, agent-phase.ts:351).
THEOREM FailureTellsWrites == SpecRun => []PartialWriteTold
    BY FailureMarked, RunInvariance, PTL

\* Every mutation the Agent was told is scheduled has been applied when the run
\* succeeds (session.flush before publishTaskAnswer, and behind executeWrite).
THEOREM SuccessCompletes == SpecRun => []SuccessIsComplete
<1>1. RunInv => SuccessIsComplete
    BY DEF RunInv, QueueInv
<1> QED
    BY <1>1, RunInvariance, PTL

\* A run may only be concluded as blocked from a clean slate (loop.ts rethrows a
\* pending validation failure).
THEOREM BlockedIsClean == SpecRun => []BlockedLeavesNothing
<1>1. RunInv => BlockedLeavesNothing
    BY DEF RunInv, WriteInv
<1> QED
    BY <1>1, RunInvariance, PTL

\* The flush works from the front of the queue, over all its attempts.
THEOREM ScheduleKept == SpecRun => []InScheduleOrder
<1>1. RunInv => InScheduleOrder
    BY DEF RunInv, QueueInv
<1> QED
    BY <1>1, RunInvariance, PTL

\* executeWrite puts a tree on GitHub at most once, whether it returns or throws behind it,
\* unless a process outlives its turn: the flush behind it finds the tree that was accepted,
\* and cannot ask for another turn.
THEOREM CommitOnce == SpecRun => []WrittenOnce
<1>1. RunInv => WrittenOnce
    BY DEF RunInv, RunTypes, Undisturbed, WrittenOnce
<1> QED
    BY <1>1, RunInvariance, PTL

\* The gateway's own promise, within a run: nothing is performed behind a tree that has not
\* passed (github-validation.ts), unless a process outlives its turn, or executeWrite has
\* returned for a pull request completed before: that tree is accepted without a test.
THEOREM RunBehindValidation == SpecRun => [](leftover \/ found \/ FlushBehindValidation)
<1>1. RunInv => leftover \/ found \/ FlushBehindValidation
    BY DEF RunInv, Undisturbed, Vetted, FlushBehindValidation
<1> QED
    BY <1>1, RunInvariance, PTL

\* The queue, the receipts and what is on GitHub move with a tool request, a running
\* mutation of a flush, or the cleanup.
LEMMA QueueMoves ==
    NextRun => \/ UNCHANGED <<pending, receipt, exposed>>
               \/ \E c \in Calls : RequestTool(c)
               \/ GatewaySteps /\ (MutationWrites \/ MutationApplies \/ MutationFails)
               \/ Cleanup
<1> USE DEF gatewayVars, queueVars, flushVars, treeVars, gateVars, runVars
<1>1. TurnEdits \/ TurnFails \/ Block \/ Finalize => UNCHANGED <<pending, receipt, exposed>>
    BY DEF TurnEdits, AgentEdits, TurnFails, Block, Finalize
<1>2. Answer \/ BeginWrite \/ FinalizeFails \/ ValidationFails
      => UNCHANGED <<pending, receipt, exposed>>
    BY DEF Answer, FlushOr, FlushBegin, BeginWrite, FinalizeFails, ValidationFails
<1>3. WriteReturns \/ WriteFindsPrior \/ WriteThrows \/ Accept \/ FlushAfterWrite
      \/ FlushReturns \/ Publish => UNCHANGED <<pending, receipt, exposed>>
    BY DEF WriteReturns, WriteFindsPrior, WriteThrows, Accept, FlushAfterWrite, FlushBegin,
           FlushReturns, Publish
<1>4. GatewaySteps => \/ UNCHANGED <<pending, receipt, exposed>>
                      \/ GatewaySteps /\ (MutationWrites \/ MutationApplies \/ MutationFails)
    BY DEF GatewaySteps, FlushStep, GateSkips, GateBegins, GateCopies, CommandsPass,
           GateAccepts, GateFails, GateStops, MutationBegins, FlushEnds
<1>5. Environment => UNCHANGED <<pending, receipt, exposed>>
    BY DEF Environment, Disturb, Cancel, SpendBudget
<1> QED
    BY <1>1, <1>2, <1>3, <1>4, <1>5, Zenon DEF NextRun, TurnEnds, FinalizeStep

\* Only the running mutation of a flush has an effect or changes a receipt.
LEMMA OnlyMutations ==
    NextRun => \/ UNCHANGED <<receipt, exposed>>
               \/ step \in Flushes /\ (MutationWrites \/ MutationApplies \/ MutationFails)
<1>1. ASSUME NEW c \in Calls, RequestTool(c) PROVE UNCHANGED <<receipt, exposed>>
    BY <1>1 DEF RequestTool, Invoke, flushVars
<1>2. Cleanup => UNCHANGED <<receipt, exposed>>
    BY DEF Cleanup, Dispose, flushVars
<1> QED
    BY <1>1, <1>2, QueueMoves DEF GatewaySteps, Flushes

\* session.flush removes a call from the queue when it is applied, and only the queue
\* is performed: no later finalization touches its receipt.
THEOREM AppliedStays == SpecRun => AppliedOnce
<1>1. RunInv /\ [NextRun]_vars => [\A c \in Calls : receipt[c] \in Applied => receipt'[c] = receipt[c]]_vars
  <2> SUFFICES ASSUME RunInv, NextRun, NEW c \in Calls, receipt[c] \in Applied
               PROVE receipt'[c] = receipt[c]
    BY Zenon
  <2>1. receipt \in [Calls -> Applied \cup WithEffect \cup {"scheduled", "none"}]
        /\ pending \in Seq(Calls)
    BY DEF RunInv, GatewayInv, TypeOK
  <2>2. active # {} => active = {pending[1]} /\ pending # <<>>
    BY <2>1 DEF RunInv, GatewayInv, Control, AtRest
  <2>3. c \notin active
    BY <2>1, <2>2 DEF RunInv, QueueInv
  <2> QED
    BY <2>1, <2>3, OnlyMutations DEF MutationWrites, MutationApplies, MutationFails, flushVars
<1> QED
    BY <1>1, RunInvariance, PTL DEF SpecRun, AppliedOnce

\* A mutation is exposed behind a tree that has passed, or was never changed, and a changed
\* one is on GitHub by then (agent-phase.ts:334-360), with the two exceptions of EffectsBehindWrite.
THEOREM FilesBeforeMutations == SpecRun => EffectsBehindWrite
<1>1. RunInv /\ [NextRun]_vars
      => [exposed' # exposed /\ ~leftover /\ ~found
             => tree \in vetted /\ (tree # 0 => commits > 0)]_vars
  <2> SUFFICES ASSUME RunInv, NextRun, exposed' # exposed, ~leftover, ~found
               PROVE tree \in vetted /\ (tree # 0 => commits > 0)
    BY Zenon
  <2>1. step \in Flushes
    BY OnlyMutations DEF MutationApplies, MutationFails
  <2>2. CASE step = "flush-answer"
    BY <2>2 DEF RunInv, Undisturbed
  <2>3. CASE step = "flush-write"
    BY <2>3 DEF RunInv, Undisturbed, Vetted, WriteInv
  <2> QED
    BY <2>1, <2>2, <2>3 DEF Flushes
<1> QED
    BY <1>1, RunInvariance, PTL DEF SpecRun, EffectsBehindWrite

-----------------------------------------------------------------------------
(* A run implements ScheduledMutations *)

\* A run that has concluded changes neither its conclusion nor its mark.
LEMMA ConclusionStays ==
    RunInv /\ NextRun => conclusion = "running" \/ UNCHANGED <<conclusion, partialWrite>>
<1> SUFFICES ASSUME RunInv, NextRun, conclusion # "running"
             PROVE  UNCHANGED <<conclusion, partialWrite>>
    OBVIOUS
<1>1. step \in Ended
    BY DEF RunInv, AtRest
<1>2. Cleanup \/ Environment
    BY <1>1, Zenon DEF NextRun, TurnEdits, TurnEnds, TurnFails, RequestTool, Block, Finalize,
       FinalizeStep, Answer, BeginWrite, FinalizeFails, ValidationFails, WriteReturns,
       WriteFindsPrior, WriteThrows, Accept, FlushAfterWrite, FlushReturns, Publish, GatewaySteps, Ended
<1> QED
    BY <1>2 DEF Cleanup, Dispose, GoTo, Environment, Disturb, Cancel, SpendBudget, runVars,
                controlVars

\* What a run may conclude: a success has emptied the queue, and a failure without the
\* mark, or a blocked run, has touched nothing.
RightlyConcluded ==
    /\ Outcome = "succeeded" => pending = <<>>
    /\ Schedule!Clean(Outcome)
    /\ Outcome \in Schedule!Outcomes
    /\ Outcome = "open" <=> conclusion = "running"

LEMMA ConcludesRightly == RunInv => RightlyConcluded
<1> SUFFICES ASSUME RunInv PROVE RightlyConcluded
    OBVIOUS
<1>1. conclusion \in {"running", "blocked", "answer", "write", "failure"}
    BY DEF RunInv, RunTypes
<1>2. pending \in Seq(Calls)
    BY DEF RunInv, GatewayInv, TypeOK
<1>3. conclusion \in {"answer", "write"} => Len(pending) = 0
    BY <1>2 DEF RunInv, QueueInv, SuccessIsComplete
<1>4. /\ conclusion = "failure" /\ exposed # {} => partialWrite
      /\ conclusion = "blocked" => exposed = {}
    BY FailureMarked DEF RunInv, WriteInv, BlockedLeavesNothing, PartialWriteTold
<1> QED
    BY <1>1, <1>2, <1>3, <1>4 DEF RightlyConcluded, Outcome, Schedule!Clean, Schedule!Outcomes

\* A step that leaves the queue alone, and performs nothing, concludes or stutters.
LEMMA QuietRefines ==
    ASSUME RunInv, RunInv', NextRun, UNCHANGED <<pending, exposed, Done>>
    PROVE  Schedule!Next \/ UNCHANGED Schedule!vars
<1>1. CASE UNCHANGED <<conclusion, partialWrite>>
    BY <1>1 DEF Schedule!vars, Outcome
<1>2. CASE conclusion = "running" /\ conclusion' = "running"
    BY <1>2 DEF Schedule!vars, Outcome
<1>3. CASE conclusion = "running" /\ conclusion' # "running"
  <2>1. RunInv' => RightlyConcluded'
    BY ConcludesRightly, PTL
  <2>2. Schedule!Conclude(Outcome')
    BY <1>3, <2>1, ConcludesRightly DEF RightlyConcluded, Schedule!Conclude, Schedule!Clean
  <2>3. Outcome' \in Schedule!Outcomes \ {"open"}
    BY <1>3, <2>1 DEF RightlyConcluded
  <2> QED
    BY <2>2, <2>3 DEF Schedule!Next
<1> QED
    BY <1>1, <1>2, <1>3, ConclusionStays

\* A tool request schedules its call; with the last turn it also ends the run.
LEMMA RequestRefines ==
    ASSUME RunInv, RunInv', NEW c \in Calls, RequestTool(c)
    PROVE  Schedule!Next
<1>1. conclusion = "running" /\ Outcome = "open"
    BY DEF RequestTool, RunInv, AtRest, Ended, Outcome
<1>2. c \notin Queued /\ c \notin Done
    BY DEF RequestTool, RunInv, QueueInv, Queued, Done
<1>3. pending' = Append(pending, c) /\ UNCHANGED <<exposed, receipt, partialWrite>>
    BY <1>2 DEF RequestTool, Invoke, flushVars, runVars
<1>4. conclusion' \in {"running", "failure"}
    BY <1>1 DEF RequestTool, NextTurn
<1>5. Outcome' \in {"open", "failed", "marked"}
    BY <1>4 DEF Outcome
<1>6. RunInv' => RightlyConcluded'
    BY ConcludesRightly, PTL
<1>7. Schedule!Clean(Outcome') /\ UNCHANGED Done
    BY <1>3, <1>6 DEF RightlyConcluded, Schedule!Clean, Done
<1>8. Schedule!Schedule(c)
    BY <1>1, <1>2, <1>3, <1>5, <1>7 DEF Schedule!Schedule, Schedule!Waiting, Queued
<1> QED
    BY <1>8 DEF Schedule!Next

\* A running mutation works at the first call of the queue, and leaves the others.
LEMMA MutationRefines ==
    ASSUME RunInv, RunInv', NextRun, GatewaySteps,
           MutationWrites \/ MutationApplies \/ MutationFails
    PROVE  Schedule!Next \/ UNCHANGED Schedule!vars
<1>1. /\ pending \in Seq(Calls)
      /\ receipt \in [Calls -> Applied \cup WithEffect \cup {"scheduled", "none"}]
    BY DEF RunInv, GatewayInv, TypeOK
<1>2. active = {Head(pending)} /\ pending # <<>>
    BY <1>1 DEF MutationWrites, MutationApplies, MutationFails, RunInv, GatewayInv, Control, AtRest
<1>3. conclusion = "running" /\ conclusion' = "running"
    BY DEF GatewaySteps, RunInv, AtRest, Ended, controlVars
<1>4. Outcome = "open" /\ Outcome' = "open"
    BY <1>3 DEF Outcome
<1>5. Head(pending) \in Calls /\ Head(pending) \notin Done
  <2>1. Head(pending) = pending[1] /\ 1 \in 1..Len(pending)
    BY <1>1, <1>2
  <2> QED
    BY <1>1, <2>1 DEF RunInv, QueueInv, Done
<1>6. CASE MutationWrites
  <2>1. pending' = pending /\ receipt' = receipt /\ exposed' = exposed \cup {Head(pending)}
    BY <1>2, <1>6 DEF MutationWrites, queueVars
  <2>2. Schedule!Touch
    BY <1>2, <1>4, <2>1 DEF Schedule!Touch, Done
  <2> QED
    BY <2>2 DEF Schedule!Next
<1>7. CASE MutationApplies
  <2>1. /\ pending' = Tail(pending) /\ exposed' = exposed
        /\ receipt' = [c \in Calls |->
                         IF c # Head(pending) THEN receipt[c]
                         ELSE IF c \in exposed THEN "updated" ELSE "unchanged"]
    BY <1>2, <1>7 DEF MutationApplies
  <2>2. Done' = Done \cup {Head(pending)}
    BY <1>5, <2>1 DEF Done, Applied
  <2>3. Schedule!Apply
    BY <1>2, <1>4, <2>1, <2>2 DEF Schedule!Apply
  <2> QED
    BY <2>3 DEF Schedule!Next
<1>8. CASE MutationFails
  <2>1. UNCHANGED <<pending, exposed>>
    BY <1>8 DEF MutationFails, queueVars
  <2>2. PICK claim \in {"none", "possible", "confirmed"} :
            receipt' = [c \in Calls |-> IF c \in active THEN claim ELSE receipt[c]]
    BY <1>8 DEF MutationFails
  <2>3. Done' = Done
    BY <1>2, <1>5, <2>2 DEF Done, Applied
  <2> QED
    BY <2>1, <2>3, QuietRefines
<1> QED
    BY <1>6, <1>7, <1>8

\* The cleanup drops what is left of the queue, when the run has concluded.
LEMMA CleanupRefines ==
    ASSUME RunInv, Cleanup
    PROVE  Schedule!Next
<1>1. Outcome # "open"
    BY ConcludesRightly DEF RightlyConcluded, Cleanup, RunInv, AtRest, Ended
<1>2. pending' = <<>> /\ UNCHANGED <<exposed, receipt, conclusion, partialWrite>>
    BY DEF Cleanup, Dispose, GoTo, flushVars, runVars
<1>3. Schedule!Drop
    BY <1>1, <1>2 DEF Schedule!Drop, Done, Outcome
<1> QED
    BY <1>3 DEF Schedule!Next

\* A run keeps the promise of ScheduledMutations, for any calls, turns and trees:
\* requestTool, session.flush, the validation retries of runAgentLoop and its cleanup
\* together perform what was scheduled in order, once, and completely before success.
THEOREM RunKeepsSchedule == SpecRun => KeepsSchedule
<1>1. InitRun => Schedule!Init
    BY DEF InitRun, Init, Schedule!Init, Done, Outcome, Applied
<1>2. RunInv /\ RunInv' /\ [NextRun]_vars => [Schedule!Next]_(Schedule!vars)
  <2> SUFFICES ASSUME RunInv, RunInv', [NextRun]_vars
               PROVE  Schedule!Next \/ UNCHANGED Schedule!vars
    OBVIOUS
  <2>1. CASE UNCHANGED vars
    BY <2>1 DEF vars, gatewayVars, queueVars, flushVars, runVars, controlVars, Schedule!vars,
                Done, Outcome
  <2>2. CASE NextRun
    <3>1. UNCHANGED <<pending, receipt, exposed>> => Schedule!Next \/ UNCHANGED Schedule!vars
      BY <2>2, QuietRefines DEF Done
    <3> QED
      BY <2>2, <3>1, QueueMoves, RequestRefines, MutationRefines, CleanupRefines
  <2> QED
    BY <2>1, <2>2
<1> QED
    BY <1>1, <1>2, RunInvariance, PTL DEF SpecRun, KeepsSchedule, Schedule!Spec

================================================================================
