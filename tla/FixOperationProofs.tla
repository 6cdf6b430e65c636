-------------------------- MODULE FixOperationProofs --------------------------
(***************************************************************************)
(* For any number of attempts, faults and changes by others: a repeated    *)
(* write ends in one pull request that holds what was tested, finishes     *)
(* what an earlier attempt left half-done, and is silent once it has       *)
(* succeeded; a fix removes no commit the Agent had not seen.              *)
(***************************************************************************)
EXTENDS FixOperation, TLAPS

Fix == kind = "fix"

\* Attempts come one after the other; what is still to come has done nothing.
Turns ==
    /\ \A a \in Attempts : a < n => outcome[a] # "none"
    /\ pc = "done" <=> outcome[n] # "none"
    /\ \A a \in Attempts : a > n =>
          /\ outcome[a] = "none"
          /\ refReq[a] = "unsent" /\ pullReq[a] = "unsent" /\ updateReq[a] = "unsent"

BeforeRef == {"completed", "reconcile", "revalidate", "tests", "boundary", "objects", "recheck",
              "before-ref", "ref", "equivalent"}
AfterRef == {"head", "before-pull", "find-pull", "pull-sent"}
Opening == {"before-pull", "find-pull", "pull-sent"}

\* What the current attempt has established by the time it is at a step.
Progress ==
    /\ pc \notin {"completed", "reconcile", "revalidate", "tests", "done"} => n \in tested
    /\ pc \in {"completed", "reconcile"} => sha = None
    /\ pc \in {"before-ref", "ref", "ref-sent"} => sha = n
    /\ pc \in {"equivalent"} \cup AfterRef => sha # None
    /\ sha # None => SameSnapshot(sha, n)
    /\ pc \in AfterRef => made[sha] = made[n]
    /\ pc \in Opening => Tip(n) # None /\ (Tip(n) \in Attempts => Tip(n) = sha)
    /\ pc \in BeforeRef => refReq[n] = "unsent"
    /\ pc \notin {"pull-sent", "done"} => pullReq[n] = "unsent"

\* There is a pull request of the attempt's operation.
HasPull(a) == \E p \in pulls : Key(p) = Key(a)

\* What the requests say of GitHub, whoever sent them and however late they came.
Effects ==
    /\ \A a \in Attempts : refReq[a] # "unsent" => a \in tested
    /\ \A k \in Keys : branch[k] \in Attempts => refReq[branch[k]] # "unsent"
    /\ \A a \in Attempts : pullReq[a] # "unsent" =>
          Tip(a) # None /\ (Tip(a) \in Attempts => SameSnapshot(Tip(a), a))
    /\ \A a \in pulls : pullReq[a] \in {"applied", "lost"}
    /\ \A a \in Attempts : pullReq[a] = "applied" => a \in pulls
    /\ \A a \in Attempts : pullReq[a] = "refused" => HasPull(a)

\* A success is settled: its pull request is there, and later attempts at the same
\* operation stop when they find it.
Settled ==
    /\ \A a \in Attempts : outcome[a] = "success" => pullReq[a] # "sent" /\ HasPull(a)
    /\ \A a, b \in Attempts : a < b /\ b <= n /\ outcome[a] = "success" /\ Key(a) = Key(b) =>
          /\ refReq[b] = "unsent" /\ pullReq[b] = "unsent"
          /\ b = n => pc \in {"completed", "done"}

\* Without an excuse nothing has moved since the attempt was bound: what is on its
\* branch is what it would make, or was made by it.
Unhindered ==
    /\ world = bound[n] /\ ~aborted
    /\ \A a \in Attempts \ {n} : refReq[a] # "sent" /\ pullReq[a] # "sent"
    /\ refReq[n] # "lost" /\ pullReq[n] # "lost"
    /\ \/ Tip(n) = None
       \/ Tip(n) \in Attempts /\ SameSnapshot(Tip(n), n) /\ made[Tip(n)] = made[n]
    /\ pc \in {"revalidate", "tests", "boundary", "objects", "recheck", "equivalent"} \cup AfterRef
          => Tip(n) = sha
    /\ pc \in {"before-ref", "ref"} => Tip(n) = None
    /\ pc = "ref-sent" =>
          \/ refReq[n] = "sent" /\ Tip(n) = None
          \/ refReq[n] = "applied" /\ Tip(n) = n

PullInv ==
    /\ Progress
    /\ Effects
    /\ Settled
    /\ excused \/ Unhindered

-----------------------------------------------------------------------------

OnBranch(a) ==
    \/ \E i \in 1..Len(head) : head[i] = a
    \/ \E b \in Attempts : \E i \in 1..Len(from[b]) : from[b][i] = a

\* Its commit was put upon something the Agent had seen.
Landed(a) == updateReq[a] # "unsent" /\ IsPrefix(landed[a], from[a])

FixTypes ==
    /\ head \in Seq(Int)
    /\ from \in [Attempts -> Seq(Int)]
    /\ landed \in [Attempts -> Seq(Int)]
    /\ updateReq \in [Attempts -> Requests]
    /\ pullOpen \in BOOLEAN

\* A fix makes no branch and no pull request of its own.
NoPulls ==
    /\ world.issue = 0
    /\ \A k \in Keys : branch[k] = None
    /\ \A a \in Attempts : refReq[a] = "unsent" /\ pullReq[a] = "unsent"
    /\ pulls = {}

FixInv ==
    /\ NoPulls
    /\ pc \notin {"revalidate", "tests", "done"} => n \in tested
    /\ \A a \in Attempts : OnBranch(a) \/ updateReq[a] = "applied" => Landed(a)
    /\ pc = "publish" => Landed(n)
    /\ pc \notin {"update-sent", "publish", "done"} => updateReq[n] = "unsent"
    /\ \A a \in Attempts : outcome[a] \in {"success", "partial"} => a \in tested /\ Landed(a)
    /\ \/ excused
       \/ /\ pullOpen /\ ~aborted
          /\ \A a \in Attempts \ {n} : updateReq[a] # "sent"
          /\ updateReq[n] \in {"unsent", "sent", "applied"}
          /\ updateReq[n] # "applied" => head = from[n]

OperationInv ==
    /\ TypeOK
    /\ FixTypes
    /\ Turns
    /\ outcome[n] = "failed" => excused
    /\ IF Fix THEN FixInv ELSE PullInv
-----------------------------------------------------------------------------
(* Types *)

USE AttemptsAssumption, FaultsAssumption, WorldAssumption

LEMMA WorldTypes == \A w \in Worlds : w.issue \in Keys /\ w.base \in Nat
    BY DEF Worlds, Keys

LEMMA KeyTypes == TypeOK => \A a \in Attempts : Key(a) \in Keys
<1> SUFFICES ASSUME TypeOK, NEW a \in Attempts PROVE Key(a) \in Keys
    OBVIOUS
<1>1. bound[a] \in Worlds
    BY DEF TypeOK
<1> QED
    BY <1>1, WorldTypes DEF Key, Keys

LEMMA UnmovedTypes == Unmoved \in Worlds
    BY DEF Unmoved, Worlds

LEMMA InitTypes == InitWrite => TypeOK /\ FixTypes
<1> SUFFICES ASSUME InitWrite PROVE TypeOK /\ FixTypes
    OBVIOUS
<1>1. PICK t \in Trees : made = [a \in Attempts |-> IF a = 1 THEN t ELSE NoTree]
    BY DEF InitWrite, Init
<1>2. made \in [Attempts -> Trees \cup {NoTree}]
    BY <1>1
<1>3. kind \in Kinds /\ n = 1 /\ pc = FirstStep /\ aborted = FALSE /\ excused = FALSE
    BY DEF InitWrite, Init
<1>4. n \in Attempts /\ pc \in PCs
    BY <1>3 DEF Attempts, FirstStep, PCs
<1>5. bound \in [Attempts -> Worlds] /\ world \in Worlds
    BY UnmovedTypes DEF InitWrite, Init
<1>6. /\ sha \in Attempts \cup {None} /\ tested \in SUBSET Attempts
      /\ outcome \in [Attempts -> {"none", "success", "partial", "failed", "crashed"}]
      /\ branch \in [Keys -> Attempts \cup {None, Foreign}]
      /\ pulls \in SUBSET Attempts /\ open \in SUBSET pulls
      /\ refReq \in [Attempts -> Requests] /\ pullReq \in [Attempts -> Requests]
      /\ faults \in 0..MaxFaults
    BY DEF InitWrite, Init, Requests
<1>7. TypeOK
    BY <1>2, <1>3, <1>5, <1>6, <1>4 DEF TypeOK
<1>8. FixTypes
    BY DEF InitWrite, FixTypes, NoHead, Requests
<1> QED
    BY <1>7, <1>8

LEMMA AttemptTypes == TypeOK /\ Attempt => TypeOK'
<1> SUFFICES ASSUME TypeOK, Attempt PROVE TypeOK'
    OBVIOUS
<1> USE DEF attemptVars, gitHubVars, requestVars, faultVars, At, GoTo, End, GoToIf
<1>1. /\ UNCHANGED <<kind, n, bound, made, aborted, world, branch, pulls, open, faults, excused>>
      /\ sha' \in Attempts \cup {None} /\ tested' \in SUBSET Attempts
    BY DEF TypeOK, Attempt, FindCompleted, FindReconciled, Revalidate, TestsPass, CreateCommit,
           Recheck, Equivalent, SendRef, RefSettles, CheckHead, FindPull, PullSettles
<1>2. pc' \in PCs
    BY DEF TypeOK, Attempt, FindCompleted, FindReconciled, Revalidate, TestsPass, CreateCommit,
           Recheck, Equivalent, SendRef, RefSettles, CheckHead, FindPull, PullSettles, PCs
<1>3. outcome' \in [Attempts -> {"none", "success", "partial", "failed", "crashed"}]
    BY DEF TypeOK, Attempt, FindCompleted, FindReconciled, Revalidate, TestsPass, CreateCommit,
           Recheck, Equivalent, SendRef, RefSettles, CheckHead, FindPull, PullSettles
<1>4. refReq' \in [Attempts -> Requests] /\ pullReq' \in [Attempts -> Requests]
    BY DEF TypeOK, Attempt, FindCompleted, FindReconciled, Revalidate, TestsPass, CreateCommit,
           Recheck, Equivalent, SendRef, RefSettles, CheckHead, FindPull, PullSettles, Requests
<1> QED
    BY <1>1, <1>2, <1>3, <1>4 DEF TypeOK

LEMMA RerunTypes == TypeOK /\ NewAttempt => 
        /\ n' \in Attempts /\ pc' \in PCs /\ bound' \in [Attempts -> Worlds]
        /\ \A a \in Attempts : a # n + 1 => bound'[a] = bound[a]
        /\ bound'[n + 1] = world
    BY DEF TypeOK, NewAttempt, Attempts, PCs, FirstStep

LEMMA MadeTypes ==
    ASSUME TypeOK, NEW t \in Trees, n < MaxAttempts, made' = [made EXCEPT ![n + 1] = t]
    PROVE  /\ made' \in [Attempts -> Trees \cup {NoTree}]
           /\ \A a \in Attempts : a # n + 1 => made'[a] = made[a]
           /\ made'[n + 1] = t
    BY DEF TypeOK, Attempts

\* Runs that end, are cancelled or are lost.
LEMMA FaultTypes == TypeOK /\ (Fails \/ Cancel \/ CancelStops \/ Crash \/ Lose) => TypeOK'
<1> SUFFICES ASSUME TypeOK, Fails \/ Cancel \/ CancelStops \/ Crash \/ Lose PROVE TypeOK'
    OBVIOUS
<1> USE DEF attemptVars, gitHubVars, requestVars, faultVars, End, Fault
<1>1. UNCHANGED <<kind, n, bound, made, sha, tested, world, branch, pulls, open>>
    BY DEF Fails, Cancel, CancelStops, Crash, Lose
<1>2. faults' \in 0..MaxFaults /\ pc' \in PCs
    BY DEF TypeOK, Fails, Cancel, CancelStops, Crash, Lose, PCs
<1>3. excused' \in BOOLEAN /\ aborted' \in BOOLEAN
    BY Zenon DEF TypeOK, Fails, Cancel, CancelStops, Crash, Lose
<1>4. outcome' \in [Attempts -> {"none", "success", "partial", "failed", "crashed"}]
    BY DEF TypeOK, Fails, Cancel, CancelStops, Crash, Lose
<1>5. refReq' \in [Attempts -> Requests] /\ pullReq' \in [Attempts -> Requests]
    BY DEF TypeOK, Fails, Cancel, CancelStops, Crash, Lose, Requests
<1> QED
    BY <1>1, <1>2, <1>4, <1>5, <1>3 DEF TypeOK

LEMMA ServeTypes == TypeOK /\ Serve => TypeOK'
<1> SUFFICES ASSUME TypeOK, Serve PROVE TypeOK'
    OBVIOUS
<1> USE DEF attemptVars
<1>1. PICK a \in Attempts : ServeRef(a) \/ ServePull(a)
    BY DEF Serve
<1>2. UNCHANGED <<kind, n, bound, made, pc, sha, tested, outcome, aborted, world, faults, excused>>
    BY DEF Serve
<1>3. Key(a) \in Keys
    BY KeyTypes
<1>4. branch' \in [Keys -> Attempts \cup {None, Foreign}]
    BY <1>1, <1>3 DEF TypeOK, ServeRef, ServePull
<1>5. pulls' \in SUBSET Attempts /\ open' \in SUBSET pulls'
    BY <1>1 DEF TypeOK, ServeRef, ServePull
<1>6. refReq' \in [Attempts -> Requests] /\ pullReq' \in [Attempts -> Requests]
    BY <1>1 DEF TypeOK, ServeRef, ServePull, Requests
<1> QED
    BY <1>2, <1>4, <1>5, <1>6 DEF TypeOK

LEMMA DriftTypes == TypeOK /\ Drift => TypeOK'
<1> SUFFICES ASSUME TypeOK, Drift PROVE TypeOK'
    OBVIOUS
<1> USE DEF attemptVars, faultVars, requestVars
<1>1. UNCHANGED <<kind, n, bound, made, pc, sha, tested, outcome, aborted, faults, pulls, refReq,
                  pullReq>>
      /\ excused' = TRUE
    BY DEF Drift
<1>2. world' \in Worlds
    BY DEF TypeOK, Drift
<1>3. branch' \in [Keys -> Attempts \cup {None, Foreign}] /\ open' \in SUBSET pulls
    BY DEF TypeOK, Drift
<1> QED
    BY <1>1, <1>2, <1>3 DEF TypeOK

-----------------------------------------------------------------------------
(* One attempt at a pull request *)

LEMMA PullAttempt ==
    ASSUME OperationInv, ~Fix, Attempt, UNCHANGED fixVars
    PROVE  OperationInv'
<1> USE DEF attemptVars, gitHubVars, requestVars, faultVars, fixVars, At, GoTo, End, GoToIf
<1>1. TypeOK /\ FixTypes /\ Turns /\ (outcome[n] = "failed" => excused) /\ PullInv
    BY DEF OperationInv
<1>2. \A p : p \in Listed <=> p \in pulls /\ Key(p) = Key(n)
    BY DEF Listed, Of
<1>3. TypeOK' /\ FixTypes' /\ ~Fix'
    BY <1>1, AttemptTypes DEF FixTypes, Fix, Attempt, FindCompleted, FindReconciled, Revalidate,
       TestsPass, CreateCommit, Recheck, Equivalent, SendRef, RefSettles, CheckHead, FindPull,
       PullSettles
<1>4. CASE FindCompleted
  <2>1. Turns'
    BY <1>1, <1>4 DEF FindCompleted, Listed, Of, Turns, TypeOK
  <2>2. outcome'[n'] = "failed" => excused'
    BY <1>1, <1>4 DEF FindCompleted, Listed, Of, PullInv, Unhindered, Progress, Effects, TypeOK,
       AfterRef, SameSnapshot, Key, Tip
  <2>3. Progress'
    BY <1>1, <1>4 DEF FindCompleted, Listed, Of, PullInv, Unhindered, Progress, TypeOK, BeforeRef,
       AfterRef, Opening, Attempts, None, SameSnapshot, Key, Tip
  <2>4. Effects'
    BY <1>1, <1>4 DEF FindCompleted, Listed, Of, PullInv, Progress, Effects, TypeOK, HasPull,
       Opening, SameSnapshot, Key, Tip
  <2>5. Settled'
    <3>1. CASE Listed = {} /\ pc' = "reconcile" /\ UNCHANGED outcome
      BY <1>1, <1>2, <3>1, <1>4 DEF FindCompleted, PullInv, Settled, TypeOK, Attempts, HasPull, Key
    <3>2. CASE Listed # {} /\ pc' = "done"
               /\ \E how \in {"success", "failed"} : outcome' = [outcome EXCEPT ![n] = how]
      <4>1. HasPull(n) /\ pullReq[n] = "unsent" /\ refReq[n] = "unsent"
        BY <1>1, <1>2, <3>2, <1>4 DEF FindCompleted, PullInv, Progress, HasPull, BeforeRef
      <4> QED
        BY <1>1, <3>2, <4>1, <1>4 DEF FindCompleted, PullInv, Settled, TypeOK, Attempts, HasPull,
           Key
    <3> QED
      BY <1>4, <3>1, <3>2 DEF FindCompleted
  <2>6. excused' \/ Unhindered'
    BY <1>1, <1>4 DEF FindCompleted, Listed, Of, PullInv, Unhindered, Progress, TypeOK, AfterRef,
       SameSnapshot, Key, Tip
  <2> QED
    BY <1>3, <2>1, <2>2, <2>3, <2>4, <2>5, <2>6 DEF OperationInv, PullInv
<1>5. CASE FindReconciled
  <2>1. Turns'
    BY <1>1, <1>5 DEF FindReconciled, Turns, TypeOK
  <2>2. outcome'[n'] = "failed" => excused'
    BY <1>1, <1>5 DEF FindReconciled, PullInv, Unhindered, Progress, Effects, TypeOK, AfterRef,
       SameSnapshot, Key, Tip
  <2>3. Progress'
    BY <1>1, <1>5 DEF FindReconciled, PullInv, Unhindered, Progress, TypeOK, BeforeRef, AfterRef,
       Opening, Attempts, None, SameSnapshot, Key, Tip
  <2>4. Effects'
    BY <1>1, <1>5 DEF FindReconciled, PullInv, Progress, Effects, TypeOK, HasPull, Opening,
       SameSnapshot, Key, Tip
  <2>5. Settled'
    BY <1>1, <1>5 DEF FindReconciled, PullInv, Progress, Settled, TypeOK, HasPull, SameSnapshot,
       Key, Tip
  <2>6. excused' \/ Unhindered'
    BY <1>1, <1>5 DEF FindReconciled, PullInv, Unhindered, Progress, TypeOK, AfterRef,
       SameSnapshot, Key, Tip
  <2> QED
    BY <1>3, <2>1, <2>2, <2>3, <2>4, <2>5, <2>6 DEF OperationInv, PullInv
<1>6. CASE Revalidate("revalidate", "tests")
  <2>1. Turns'
    BY <1>1, <1>6 DEF Revalidate, Current, Turns, TypeOK
  <2>2. outcome'[n'] = "failed" => excused'
    BY <1>1, <1>6 DEF Revalidate, Current, PullInv, Unhindered, Progress, Effects, TypeOK,
       AfterRef, SameSnapshot, Key, Tip
  <2>3. Progress'
    BY <1>1, <1>6 DEF Revalidate, Current, PullInv, Unhindered, Progress, TypeOK, BeforeRef,
       AfterRef, Opening, Attempts, None, SameSnapshot, Key, Tip
  <2>4. Effects'
    BY <1>1, <1>6 DEF Revalidate, Current, PullInv, Progress, Effects, TypeOK, HasPull, Opening,
       SameSnapshot, Key, Tip
  <2>5. Settled'
    BY <1>1, <1>6 DEF Revalidate, Current, PullInv, Progress, Settled, TypeOK, HasPull,
       SameSnapshot, Key, Tip
  <2>6. excused' \/ Unhindered'
    BY <1>1, <1>6 DEF Revalidate, Current, PullInv, Unhindered, Progress, TypeOK, AfterRef,
       SameSnapshot, Key, Tip
  <2> QED
    BY <1>3, <2>1, <2>2, <2>3, <2>4, <2>5, <2>6 DEF OperationInv, PullInv
<1>7. CASE TestsPass
  <2>1. Turns'
    BY <1>1, <1>7 DEF TestsPass, Turns, TypeOK
  <2>2. outcome'[n'] = "failed" => excused'
    BY <1>1, <1>7 DEF TestsPass, PullInv, Unhindered, Progress, Effects, TypeOK, AfterRef,
       SameSnapshot, Key, Tip
  <2>3. Progress'
    BY <1>1, <1>7 DEF TestsPass, PullInv, Unhindered, Progress, TypeOK, BeforeRef, AfterRef,
       Opening, Attempts, None, SameSnapshot, Key, Tip
  <2>4. Effects'
    BY <1>1, <1>7 DEF TestsPass, PullInv, Progress, Effects, TypeOK, HasPull, Opening,
       SameSnapshot, Key, Tip
  <2>5. Settled'
    BY <1>1, <1>7 DEF TestsPass, PullInv, Progress, Settled, TypeOK, HasPull, SameSnapshot, Key, Tip
  <2>6. excused' \/ Unhindered'
    BY <1>1, <1>7 DEF TestsPass, PullInv, Unhindered, Progress, TypeOK, AfterRef, SameSnapshot,
       Key, Tip
  <2> QED
    BY <1>3, <2>1, <2>2, <2>3, <2>4, <2>5, <2>6 DEF OperationInv, PullInv
<1>8. CASE Revalidate("boundary", "objects")
  <2>1. Turns'
    BY <1>1, <1>8 DEF Revalidate, Current, Turns, TypeOK
  <2>2. outcome'[n'] = "failed" => excused'
    BY <1>1, <1>8 DEF Revalidate, Current, PullInv, Unhindered, Progress, Effects, TypeOK,
       AfterRef, SameSnapshot, Key, Tip
  <2>3. Progress'
    BY <1>1, <1>8 DEF Revalidate, Current, PullInv, Unhindered, Progress, TypeOK, BeforeRef,
       AfterRef, Opening, Attempts, None, SameSnapshot, Key, Tip
  <2>4. Effects'
    BY <1>1, <1>8 DEF Revalidate, Current, PullInv, Progress, Effects, TypeOK, HasPull, Opening,
       SameSnapshot, Key, Tip
  <2>5. Settled'
    BY <1>1, <1>8 DEF Revalidate, Current, PullInv, Progress, Settled, TypeOK, HasPull,
       SameSnapshot, Key, Tip
  <2>6. excused' \/ Unhindered'
    BY <1>1, <1>8 DEF Revalidate, Current, PullInv, Unhindered, Progress, TypeOK, AfterRef,
       SameSnapshot, Key, Tip
  <2> QED
    BY <1>3, <2>1, <2>2, <2>3, <2>4, <2>5, <2>6 DEF OperationInv, PullInv
<1>9. CASE CreateCommit
  <2>1. Turns'
    BY <1>1, <1>9 DEF CreateCommit, Turns, TypeOK
  <2>2. outcome'[n'] = "failed" => excused'
    BY <1>1, <1>9 DEF CreateCommit, PullInv, Unhindered, Progress, Effects, TypeOK, AfterRef,
       SameSnapshot, Key, Tip
  <2>3. Progress'
    BY <1>1, <1>9 DEF CreateCommit, PullInv, Unhindered, Progress, TypeOK, BeforeRef, AfterRef,
       Opening, Attempts, None, SameSnapshot, Key, Tip
  <2>4. Effects'
    BY <1>1, <1>9 DEF CreateCommit, PullInv, Progress, Effects, TypeOK, HasPull, Opening,
       SameSnapshot, Key, Tip
  <2>5. Settled'
    BY <1>1, <1>9 DEF CreateCommit, PullInv, Progress, Settled, TypeOK, HasPull, SameSnapshot,
       Key, Tip
  <2>6. excused' \/ Unhindered'
    BY <1>1, <1>9 DEF CreateCommit, PullInv, Unhindered, Progress, TypeOK, AfterRef, SameSnapshot,
       Key, Tip
  <2> QED
    BY <1>3, <2>1, <2>2, <2>3, <2>4, <2>5, <2>6 DEF OperationInv, PullInv
<1>10. CASE Recheck
  <2>1. Turns'
    BY <1>1, <1>10 DEF Recheck, Current, Turns, TypeOK
  <2>2. outcome'[n'] = "failed" => excused'
    BY <1>1, <1>10 DEF Recheck, Current, PullInv, Unhindered, Progress, Effects, TypeOK, AfterRef,
       SameSnapshot, Key, Tip
  <2>3. Progress'
    BY <1>1, <1>10 DEF Recheck, Current, PullInv, Unhindered, Progress, TypeOK, BeforeRef,
       AfterRef, Opening, Attempts, None, SameSnapshot, Key, Tip
  <2>4. Effects'
    BY <1>1, <1>10 DEF Recheck, Current, PullInv, Progress, Effects, TypeOK, HasPull, Opening,
       SameSnapshot, Key, Tip
  <2>5. Settled'
    BY <1>1, <1>10 DEF Recheck, Current, PullInv, Progress, Settled, TypeOK, HasPull,
       SameSnapshot, Key, Tip
  <2>6. excused' \/ Unhindered'
    BY <1>1, <1>10 DEF Recheck, Current, PullInv, Unhindered, Progress, TypeOK, AfterRef,
       SameSnapshot, Key, Tip
  <2> QED
    BY <1>3, <2>1, <2>2, <2>3, <2>4, <2>5, <2>6 DEF OperationInv, PullInv
<1>11. CASE Equivalent
  <2>1. Turns'
    BY <1>1, <1>11 DEF Equivalent, Turns, TypeOK
  <2>2. outcome'[n'] = "failed" => excused'
    BY <1>1, <1>11 DEF Equivalent, PullInv, Unhindered, Progress, Effects, TypeOK, AfterRef,
       SameSnapshot, Key, Tip
  <2>3. Progress'
    BY <1>1, <1>11 DEF Equivalent, PullInv, Unhindered, Progress, TypeOK, BeforeRef, AfterRef,
       Opening, Attempts, None, SameSnapshot, Key, Tip
  <2>4. Effects'
    BY <1>1, <1>11 DEF Equivalent, PullInv, Progress, Effects, TypeOK, HasPull, Opening,
       SameSnapshot, Key, Tip
  <2>5. Settled'
    BY <1>1, <1>11 DEF Equivalent, PullInv, Progress, Settled, TypeOK, HasPull, SameSnapshot, Key,
       Tip
  <2>6. excused' \/ Unhindered'
    BY <1>1, <1>11 DEF Equivalent, PullInv, Unhindered, Progress, TypeOK, AfterRef, SameSnapshot,
       Key, Tip
  <2> QED
    BY <1>3, <2>1, <2>2, <2>3, <2>4, <2>5, <2>6 DEF OperationInv, PullInv
<1>12. CASE Revalidate("before-ref", "ref")
  <2>1. Turns'
    BY <1>1, <1>12 DEF Revalidate, Current, Turns, TypeOK
  <2>2. outcome'[n'] = "failed" => excused'
    BY <1>1, <1>12 DEF Revalidate, Current, PullInv, Unhindered, Progress, Effects, TypeOK,
       AfterRef, SameSnapshot, Key, Tip
  <2>3. Progress'
    BY <1>1, <1>12 DEF Revalidate, Current, PullInv, Unhindered, Progress, TypeOK, BeforeRef,
       AfterRef, Opening, Attempts, None, SameSnapshot, Key, Tip
  <2>4. Effects'
    BY <1>1, <1>12 DEF Revalidate, Current, PullInv, Progress, Effects, TypeOK, HasPull, Opening,
       SameSnapshot, Key, Tip
  <2>5. Settled'
    BY <1>1, <1>12 DEF Revalidate, Current, PullInv, Progress, Settled, TypeOK, HasPull,
       SameSnapshot, Key, Tip
  <2>6. excused' \/ Unhindered'
    BY <1>1, <1>12 DEF Revalidate, Current, PullInv, Unhindered, Progress, TypeOK, AfterRef,
       SameSnapshot, Key, Tip
  <2> QED
    BY <1>3, <2>1, <2>2, <2>3, <2>4, <2>5, <2>6 DEF OperationInv, PullInv
<1>13. CASE SendRef
  <2>1. Turns'
    BY <1>1, <1>13 DEF SendRef, Turns, TypeOK
  <2>2. outcome'[n'] = "failed" => excused'
    BY <1>1, <1>13 DEF SendRef, PullInv, Unhindered, Progress, Effects, TypeOK, AfterRef,
       SameSnapshot, Key, Tip
  <2>3. Progress'
    BY <1>1, <1>13 DEF SendRef, PullInv, Unhindered, Progress, TypeOK, BeforeRef, AfterRef,
       Opening, Attempts, None, SameSnapshot, Key, Tip
  <2>4. Effects'
    BY <1>1, <1>13 DEF SendRef, PullInv, Progress, Effects, TypeOK, HasPull, Opening,
       SameSnapshot, Key, Tip
  <2>5. Settled'
    BY <1>1, <1>13 DEF SendRef, PullInv, Progress, Settled, TypeOK, HasPull, SameSnapshot, Key, Tip
  <2>6. excused' \/ Unhindered'
    BY <1>1, <1>13 DEF SendRef, PullInv, Unhindered, Progress, TypeOK, AfterRef, SameSnapshot,
       Key, Tip
  <2> QED
    BY <1>3, <2>1, <2>2, <2>3, <2>4, <2>5, <2>6 DEF OperationInv, PullInv
<1>14. CASE RefSettles
  <2>1. Turns'
    BY <1>1, <1>14 DEF RefSettles, Turns, TypeOK
  <2>2. outcome'[n'] = "failed" => excused'
    BY <1>1, <1>14 DEF RefSettles, PullInv, Unhindered, Progress, Effects, TypeOK, AfterRef,
       SameSnapshot, Key, Tip
  <2>3. Progress'
    BY <1>1, <1>14 DEF RefSettles, PullInv, Unhindered, Progress, TypeOK, BeforeRef, AfterRef,
       Opening, Attempts, None, SameSnapshot, Key, Tip
  <2>4. Effects'
    BY <1>1, <1>14 DEF RefSettles, PullInv, Progress, Effects, TypeOK, HasPull, Opening,
       SameSnapshot, Key, Tip
  <2>5. Settled'
    BY <1>1, <1>14 DEF RefSettles, PullInv, Progress, Settled, TypeOK, HasPull, SameSnapshot, Key,
       Tip
  <2>6. excused' \/ Unhindered'
    BY <1>1, <1>14 DEF RefSettles, PullInv, Unhindered, Progress, TypeOK, AfterRef, SameSnapshot,
       Key, Tip
  <2> QED
    BY <1>3, <2>1, <2>2, <2>3, <2>4, <2>5, <2>6 DEF OperationInv, PullInv
<1>15. CASE CheckHead
  <2>1. Turns'
    BY <1>1, <1>15 DEF CheckHead, Turns, TypeOK
  <2>2. outcome'[n'] = "failed" => excused'
    BY <1>1, <1>15 DEF CheckHead, PullInv, Unhindered, Progress, Effects, TypeOK, AfterRef,
       SameSnapshot, Key, Tip
  <2>3. Progress'
    BY <1>1, <1>15 DEF CheckHead, PullInv, Unhindered, Progress, TypeOK, BeforeRef, AfterRef,
       Opening, Attempts, None, SameSnapshot, Key, Tip
  <2>4. Effects'
    BY <1>1, <1>15 DEF CheckHead, PullInv, Progress, Effects, TypeOK, HasPull, Opening,
       SameSnapshot, Key, Tip
  <2>5. Settled'
    BY <1>1, <1>15 DEF CheckHead, PullInv, Progress, Settled, TypeOK, HasPull, SameSnapshot, Key,
       Tip
  <2>6. excused' \/ Unhindered'
    BY <1>1, <1>15 DEF CheckHead, PullInv, Unhindered, Progress, TypeOK, AfterRef, SameSnapshot,
       Key, Tip
  <2> QED
    BY <1>3, <2>1, <2>2, <2>3, <2>4, <2>5, <2>6 DEF OperationInv, PullInv
<1>16. CASE Revalidate("before-pull", "find-pull")
  <2>1. Turns'
    BY <1>1, <1>16 DEF Revalidate, Current, Turns, TypeOK
  <2>2. outcome'[n'] = "failed" => excused'
    BY <1>1, <1>16 DEF Revalidate, Current, PullInv, Unhindered, Progress, Effects, TypeOK,
       AfterRef, SameSnapshot, Key, Tip
  <2>3. Progress'
    BY <1>1, <1>16 DEF Revalidate, Current, PullInv, Unhindered, Progress, TypeOK, BeforeRef,
       AfterRef, Opening, Attempts, None, SameSnapshot, Key, Tip
  <2>4. Effects'
    BY <1>1, <1>16 DEF Revalidate, Current, PullInv, Progress, Effects, TypeOK, HasPull, Opening,
       SameSnapshot, Key, Tip
  <2>5. Settled'
    BY <1>1, <1>16 DEF Revalidate, Current, PullInv, Progress, Settled, TypeOK, HasPull,
       SameSnapshot, Key, Tip
  <2>6. excused' \/ Unhindered'
    BY <1>1, <1>16 DEF Revalidate, Current, PullInv, Unhindered, Progress, TypeOK, AfterRef,
       SameSnapshot, Key, Tip
  <2> QED
    BY <1>3, <2>1, <2>2, <2>3, <2>4, <2>5, <2>6 DEF OperationInv, PullInv
<1>17. CASE FindPull
  <2>1. Turns'
    BY <1>1, <1>17 DEF FindPull, Listed, Of, Turns, TypeOK
  <2>2. outcome'[n'] = "failed" => excused'
    BY <1>1, <1>17 DEF FindPull, Listed, Of, PullInv, Unhindered, Progress, Effects, TypeOK,
       AfterRef, SameSnapshot, Key, Tip
  <2>3. Progress'
    BY <1>1, <1>17 DEF FindPull, Listed, Of, PullInv, Unhindered, Progress, TypeOK, BeforeRef,
       AfterRef, Opening, Attempts, None, SameSnapshot, Key, Tip
  <2>4. Effects'
    BY <1>1, <1>17 DEF FindPull, Listed, Of, PullInv, Progress, Effects, TypeOK, HasPull, Opening,
       SameSnapshot, Key, Tip
  <2>5. Settled'
    <3>1. CASE pc' = "done" /\ outcome' = [outcome EXCEPT ![n] = "success"] /\ UNCHANGED pullReq
               /\ HasPull(n)
      BY <1>1, <1>17, <3>1 DEF FindPull, PullInv, Progress, Settled, TypeOK, Attempts, HasPull, Key
    <3>2. CASE pc' = "pull-sent" /\ UNCHANGED outcome
      BY <1>1, <1>17, <3>2 DEF FindPull, Turns, PullInv, Progress, Settled, TypeOK, Attempts,
         HasPull, Key
    <3> QED
      BY <1>17, <1>2, <3>1, <3>2 DEF FindPull, HasPull
  <2>6. excused' \/ Unhindered'
    BY <1>1, <1>17 DEF FindPull, Listed, Of, PullInv, Unhindered, Progress, TypeOK, AfterRef,
       SameSnapshot, Key, Tip
  <2> QED
    BY <1>3, <2>1, <2>2, <2>3, <2>4, <2>5, <2>6 DEF OperationInv, PullInv
<1>18. CASE PullSettles
  <2>1. Turns'
    BY <1>1, <1>18 DEF PullSettles, Listed, Of, Turns, TypeOK
  <2>2. outcome'[n'] = "failed" => excused'
    <3> SUFFICES ASSUME ~excused PROVE outcome'[n] # "failed"
      BY <1>18 DEF PullSettles
    <3>1. CASE pullReq[n] = "applied"
      BY <1>1, <1>18, <3>1 DEF PullSettles, TypeOK
    <3>2. CASE pullReq[n] = "refused"
      <4>1. PICK p \in pulls : Key(p) = Key(n)
        BY <1>1, <3>2 DEF PullInv, Effects, HasPull, TypeOK
      <4>2. SameSnapshot(p, n)
        BY <1>1, <4>1 DEF PullInv, Effects, Unhindered, TypeOK, SameSnapshot, Tip
      <4> QED
        BY <1>1, <1>18, <1>2, <3>2, <4>1, <4>2 DEF PullSettles, TypeOK
    <3> QED
      BY <1>1, <1>18, <3>1, <3>2 DEF PullSettles, PullInv, Unhindered
  <2>3. Progress'
    BY <1>1, <1>18 DEF PullSettles, Listed, Of, PullInv, Unhindered, Progress, TypeOK, BeforeRef,
       AfterRef, Opening, Attempts, None, SameSnapshot, Key, Tip
  <2>4. Effects'
    BY <1>1, <1>18 DEF PullSettles, Listed, Of, PullInv, Progress, Effects, TypeOK, HasPull,
       Opening, SameSnapshot, Key, Tip
  <2>5. Settled'
    <3>1. pullReq[n] # "sent" /\ pc' = "done" /\ UNCHANGED <<refReq, pullReq, n>>
      BY <1>18 DEF PullSettles
    <3>2. \/ outcome' = [outcome EXCEPT ![n] = "failed"]
          \/ outcome' = [outcome EXCEPT ![n] = "success"] /\ HasPull(n)
      BY <1>1, <1>18, <1>2 DEF PullSettles, PullInv, Effects, HasPull, TypeOK
    <3> QED
      BY <1>1, <1>18, <3>1, <3>2 DEF PullSettles, PullInv, Settled, TypeOK, Attempts, HasPull, Key
  <2>6. excused' \/ Unhindered'
    BY <1>1, <1>18 DEF PullSettles, Listed, Of, PullInv, Unhindered, Progress, TypeOK, AfterRef,
       SameSnapshot, Key, Tip
  <2> QED
    BY <1>3, <2>1, <2>2, <2>3, <2>4, <2>5, <2>6 DEF OperationInv, PullInv
<1> QED
    BY <1>4, <1>5, <1>6, <1>7, <1>8, <1>9, <1>10, <1>11, <1>12, <1>13, <1>14, <1>15, <1>16, <1>17,
       <1>18 DEF Attempt

-----------------------------------------------------------------------------
(* Faults, other people and GitHub, around a pull request *)

LEMMA PullFaults ==
    ASSUME OperationInv, ~Fix, Fails \/ Cancel \/ CancelStops \/ Crash \/ Lose, UNCHANGED fixVars
    PROVE  OperationInv'
<1> USE DEF attemptVars, gitHubVars, requestVars, faultVars, fixVars, End, Fault
<1>1. TypeOK /\ FixTypes /\ Turns /\ (outcome[n] = "failed" => excused) /\ PullInv
    BY DEF OperationInv
<1>2. TypeOK' /\ FixTypes' /\ ~Fix'
    BY <1>1, FaultTypes DEF FixTypes, Fix, Fails, Cancel, CancelStops, Crash, Lose
<1>3. CASE Fails
  <2>1. Turns'
    BY <1>1, <1>3 DEF Fails, Turns, TypeOK
  <2>2. (outcome'[n'] = "failed" => excused') /\ (excused' \/ Unhindered')
    BY <1>1, <1>3 DEF Fails, PullInv, Unhindered, TypeOK
  <2>3. Progress'
    BY <1>1, <1>3 DEF Fails, PullInv, Turns, Progress, TypeOK, BeforeRef, AfterRef, Opening,
       SameSnapshot, Key, Tip
  <2>4. Effects'
    BY <1>1, <1>3 DEF Fails, PullInv, Effects, TypeOK, HasPull, SameSnapshot, Key, Tip
  <2>5. Settled'
    BY <1>1, <1>3 DEF Fails, PullInv, Settled, TypeOK, Attempts, HasPull, SameSnapshot, Key, Tip
  <2> QED
    BY <1>2, <2>1, <2>2, <2>3, <2>4, <2>5 DEF OperationInv, PullInv
<1>4. CASE Cancel
  <2>1. Turns'
    BY <1>1, <1>4 DEF Cancel, Turns, TypeOK
  <2>2. (outcome'[n'] = "failed" => excused') /\ (excused' \/ Unhindered')
    BY <1>1, <1>4 DEF Cancel, PullInv, Unhindered, TypeOK
  <2>3. Progress'
    BY <1>1, <1>4 DEF Cancel, PullInv, Turns, Progress, TypeOK, BeforeRef, AfterRef, Opening,
       SameSnapshot, Key, Tip
  <2>4. Effects'
    BY <1>1, <1>4 DEF Cancel, PullInv, Effects, TypeOK, HasPull, SameSnapshot, Key, Tip
  <2>5. Settled'
    BY <1>1, <1>4 DEF Cancel, PullInv, Settled, TypeOK, Attempts, HasPull, SameSnapshot, Key, Tip
  <2> QED
    BY <1>2, <2>1, <2>2, <2>3, <2>4, <2>5 DEF OperationInv, PullInv
<1>5. CASE CancelStops
  <2>1. Turns'
    BY <1>1, <1>5 DEF CancelStops, Turns, TypeOK
  <2>2. (outcome'[n'] = "failed" => excused') /\ (excused' \/ Unhindered')
    BY <1>1, <1>5 DEF CancelStops, PullInv, Unhindered, TypeOK
  <2>3. Progress'
    BY <1>1, <1>5 DEF CancelStops, PullInv, Turns, Progress, TypeOK, BeforeRef, AfterRef, Opening,
       SameSnapshot, Key, Tip
  <2>4. Effects'
    BY <1>1, <1>5 DEF CancelStops, PullInv, Effects, TypeOK, HasPull, SameSnapshot, Key, Tip
  <2>5. Settled'
    BY <1>1, <1>5 DEF CancelStops, PullInv, Settled, TypeOK, Attempts, HasPull, SameSnapshot, Key,
       Tip
  <2> QED
    BY <1>2, <2>1, <2>2, <2>3, <2>4, <2>5 DEF OperationInv, PullInv
<1>6. CASE Crash
  <2>1. Turns'
    BY <1>1, <1>6 DEF Crash, Turns, TypeOK
  <2>2. (outcome'[n'] = "failed" => excused') /\ (excused' \/ Unhindered')
    BY <1>1, <1>6 DEF Crash, PullInv, Unhindered, TypeOK
  <2>3. Progress'
    BY <1>1, <1>6 DEF Crash, PullInv, Turns, Progress, TypeOK, BeforeRef, AfterRef, Opening,
       SameSnapshot, Key, Tip
  <2>4. Effects'
    BY <1>1, <1>6 DEF Crash, PullInv, Effects, TypeOK, HasPull, SameSnapshot, Key, Tip
  <2>5. Settled'
    BY <1>1, <1>6 DEF Crash, PullInv, Settled, TypeOK, Attempts, HasPull, SameSnapshot, Key, Tip
  <2> QED
    BY <1>2, <2>1, <2>2, <2>3, <2>4, <2>5 DEF OperationInv, PullInv
<1>7. CASE Lose
  <2>1. Turns'
    BY <1>1, <1>7 DEF Lose, Turns, TypeOK
  <2>2. (outcome'[n'] = "failed" => excused') /\ (excused' \/ Unhindered')
    BY <1>1, <1>7 DEF Lose, PullInv, Unhindered, TypeOK
  <2>3. Progress'
    BY <1>1, <1>7 DEF Lose, PullInv, Turns, Progress, TypeOK, BeforeRef, AfterRef, Opening,
       SameSnapshot, Key, Tip
  <2>4. Effects'
    BY <1>1, <1>7 DEF Lose, PullInv, Effects, TypeOK, HasPull, SameSnapshot, Key, Tip
  <2>5. Settled'
    BY <1>1, <1>7 DEF Lose, PullInv, Settled, TypeOK, Attempts, HasPull, SameSnapshot, Key, Tip
  <2> QED
    BY <1>2, <2>1, <2>2, <2>3, <2>4, <2>5 DEF OperationInv, PullInv
<1> QED
    BY <1>3, <1>4, <1>5, <1>6, <1>7

LEMMA PullServe ==
    ASSUME OperationInv, ~Fix, Serve, UNCHANGED fixVars
    PROVE  OperationInv'
<1> USE DEF attemptVars, gitHubVars, requestVars, faultVars, fixVars
<1>1. TypeOK /\ FixTypes /\ Turns /\ (outcome[n] = "failed" => excused) /\ PullInv
    BY DEF OperationInv
<1>2. TypeOK' /\ FixTypes' /\ ~Fix'
    BY <1>1, ServeTypes DEF FixTypes, Fix, Serve
<1>3. PICK a \in Attempts : ServeRef(a) \/ ServePull(a)
    BY DEF Serve
<1>4. /\ UNCHANGED <<kind, n, bound, made, pc, sha, tested, outcome, aborted, world, excused>>
      /\ (outcome'[n'] = "failed" => excused')
    BY <1>1 DEF Serve
<1>5. n \in Attempts /\ \A b \in Attempts : Key(b) \in Keys
    BY <1>1, KeyTypes DEF TypeOK
<1>6. CASE ServeRef(a)
  <2>1. /\ refReq[a] = "sent" /\ UNCHANGED <<pulls, pullReq>>
        /\ \A b \in Attempts : b # a => refReq'[b] = refReq[b]
        /\ refReq'[a] \in {"applied", "refused"}
        /\ refReq'[a] = "applied" => Tip(a) = None /\ branch'[Key(a)] = a
        /\ refReq'[a] = "refused" => Tip(a) # None /\ branch' = branch
        /\ \A k \in Keys : branch'[k] = branch[k] \/ (branch[k] = None /\ branch'[k] = a)
    BY <1>1, <1>5, <1>6 DEF ServeRef, TypeOK, Tip
  <2>2. Turns'
    BY <1>1, <1>4, <2>1 DEF Turns
  <2>3. Progress'
    BY <1>1, <1>4, <1>5, <2>1 DEF PullInv, Progress, BeforeRef, SameSnapshot, Key, Tip
  <2>4. Effects'
    BY <1>1, <1>4, <1>5, <2>1 DEF PullInv, Effects, HasPull, SameSnapshot, Key, Tip
  <2>5. Settled'
    BY <1>1, <1>4, <2>1 DEF PullInv, Settled, HasPull, Key
  <2>6. excused' \/ Unhindered'
    BY <1>1, <1>4, <1>5, <1>6 DEF ServeRef, PullInv, Turns, Progress, Unhindered, TypeOK,
       BeforeRef, AfterRef, SameSnapshot, Key, Tip
  <2> QED
    BY <1>2, <1>4, <2>2, <2>3, <2>4, <2>5, <2>6 DEF OperationInv, PullInv
<1>7. CASE ServePull(a)
  <2>1. /\ pullReq[a] = "sent" /\ UNCHANGED <<branch, refReq>>
        /\ \A b \in Attempts : b # a => pullReq'[b] = pullReq[b]
        /\ \/ pullReq'[a] = "applied" /\ pulls' = pulls \cup {a}
           \/ pullReq'[a] = "refused" /\ pulls' = pulls /\ Of(Key(a), open) # {}
    BY <1>1, <1>7 DEF ServePull, TypeOK
  <2>2. pullReq'[a] = "refused" => HasPull(a)
    BY <1>1, <2>1 DEF Of, HasPull, TypeOK
  <2>3. Turns'
    BY <1>1, <1>4, <2>1 DEF Turns
  <2>4. Progress'
    BY <1>1, <1>4, <1>5, <2>1 DEF PullInv, Progress, SameSnapshot, Key, Tip
  <2>5. Effects'
    <3>1. /\ \A b \in pulls' : pullReq'[b] \in {"applied", "lost"}
          /\ \A b \in Attempts : pullReq'[b] = "applied" => b \in pulls'
      BY <1>1, <2>1 DEF PullInv, Effects, TypeOK
    <3>2. \A b \in Attempts : pullReq'[b] = "refused" => HasPull(b)'
      BY <1>1, <1>4, <2>1, <2>2 DEF PullInv, Effects, HasPull, Key
    <3>3. \A b \in Attempts : pullReq'[b] # "unsent" => pullReq[b] # "unsent"
      BY <2>1
    <3> QED
      BY <1>1, <1>4, <2>1, <3>1, <3>2, <3>3 DEF PullInv, Effects, SameSnapshot, Key, Tip
  <2>6. Settled'
    BY <1>1, <1>4, <2>1 DEF PullInv, Settled, HasPull, Key
  <2>7. excused' \/ Unhindered'
    BY <1>1, <1>4, <2>1 DEF PullInv, Unhindered, AfterRef, SameSnapshot, Key, Tip
  <2> QED
    BY <1>2, <1>4, <2>3, <2>4, <2>5, <2>6, <2>7 DEF OperationInv, PullInv
<1> QED
    BY <1>3, <1>6, <1>7

LEMMA PullDrift ==
    ASSUME OperationInv, ~Fix, Drift, UNCHANGED fixVars
    PROVE  OperationInv'
<1> USE DEF attemptVars, gitHubVars, requestVars, faultVars, fixVars
<1>1. TypeOK /\ FixTypes /\ Turns /\ (outcome[n] = "failed" => excused) /\ PullInv
    BY DEF OperationInv
<1>2. TypeOK' /\ FixTypes' /\ ~Fix'
    BY <1>1, DriftTypes DEF FixTypes, Fix, Drift
<1>3. /\ UNCHANGED <<kind, n, bound, made, pc, sha, tested, outcome, pulls, refReq, pullReq,
                     updateReq>>
      /\ excused'
    BY DEF Drift
<1>4. \A k \in Keys : branch'[k] = branch[k] \/ (branch[k] \in Attempts /\ branch'[k] = Foreign)
    BY <1>1 DEF Drift, TypeOK
<1>5. Foreign \notin Attempts /\ Foreign # None
    BY DEF Foreign, Attempts, None
<1>6. n \in Attempts /\ \A a \in Attempts : Key(a) \in Keys
    BY <1>1, KeyTypes DEF TypeOK
<1>7. Turns'
    BY <1>1, <1>3 DEF Turns
<1>8. Progress'
    BY <1>1, <1>3, <1>4, <1>5, <1>6 DEF PullInv, Progress, SameSnapshot, Key, Tip
<1>9. Effects'
    BY <1>1, <1>3, <1>4, <1>5, <1>6 DEF PullInv, Effects, HasPull, SameSnapshot, Key, Tip
<1>10. Settled'
    BY <1>1, <1>3 DEF PullInv, Settled, HasPull, Key
<1> QED
    BY <1>2, <1>3, <1>7, <1>8, <1>9, <1>10 DEF OperationInv, PullInv

LEMMA PullRerun ==
    ASSUME OperationInv, ~Fix, Rerun, UNCHANGED fixVars
    PROVE  OperationInv'
<1> USE DEF attemptVars, gitHubVars, requestVars, faultVars, fixVars
<1>1. TypeOK /\ FixTypes /\ Turns /\ (outcome[n] = "failed" => excused) /\ PullInv
    BY DEF OperationInv
<1>2. /\ n' = n + 1 /\ n + 1 \in Attempts /\ pc' = "completed" /\ sha' = None /\ aborted' = FALSE
      /\ UNCHANGED <<kind, tested, outcome, world, branch, pulls, open, refReq, pullReq, faults>>
      /\ outcome[n] # "none" /\ n \in Attempts
    BY <1>1 DEF Rerun, NewAttempt, FirstStep, Fix, TypeOK, Attempts, Turns
<1>3. /\ \A a \in Attempts : a # n + 1 => bound'[a] = bound[a] /\ made'[a] = made[a]
      /\ bound'[n + 1] = world /\ bound' \in [Attempts -> Worlds]
      /\ made' \in [Attempts -> Trees \cup {NoTree}]
    BY <1>1, RerunTypes, MadeTypes DEF Rerun, NewAttempt
<1>4. PICK t \in Trees :
          LET found == branch[IF kind = "task" THEN world.issue ELSE 0]
          IN  /\ made'[n + 1] = t
              /\ excused' = (\/ InFlight
                             \/ found = Foreign
                             \/ found \in Attempts /\ (bound[found] # world \/ made[found] # t))
    BY <1>1, MadeTypes DEF Rerun, NewAttempt
<1>5. TypeOK' /\ FixTypes' /\ ~Fix'
  <2>1. excused' \in BOOLEAN
    BY <1>4, Zenon
  <2> QED
    BY <1>1, <1>2, <1>3, <2>1 DEF TypeOK, FixTypes, Fix, PCs
<1>6. Turns'
    BY <1>1, <1>2 DEF Turns, Attempts
<1>7. outcome'[n'] # "failed"
    BY <1>1, <1>2 DEF Turns, Attempts
<1>8. \A a \in Attempts : a # n + 1 => Key(a)' = Key(a) /\ Tip(a)' = Tip(a)
    BY <1>2, <1>3 DEF Key, Tip
<1>9. /\ refReq[n + 1] = "unsent" /\ pullReq[n + 1] = "unsent" /\ outcome[n + 1] = "none"
      /\ n + 1 \notin pulls
    BY <1>1, <1>2 DEF Turns, PullInv, Effects, Attempts
<1>10. Progress'
    BY <1>2, <1>9 DEF Progress, AfterRef, Opening
<1>11. \A a \in Attempts : Key(a) \in Keys
    BY <1>1, KeyTypes
<1>12. \A a \in Attempts : HasPull(a) /\ a # n + 1 => HasPull(a)'
    BY <1>1, <1>2, <1>3, <1>9 DEF HasPull, Key, TypeOK
<1>13. Effects'
  <2>1. \A k \in Keys : branch[k] # n + 1
    BY <1>1, <1>2, <1>9 DEF PullInv, Effects
  <2>2. ASSUME NEW a \in Attempts, pullReq[a] # "unsent"
        PROVE  Tip(a)' # None /\ (Tip(a)' \in Attempts => bound'[Tip(a)'] = bound'[a])
    <3>1. a # n + 1 /\ Tip(a)' = branch[Key(a)] /\ Key(a) \in Keys
      BY <1>2, <1>3, <1>9, <1>11, <2>2 DEF Key, Tip
    <3> QED
      BY <1>1, <1>3, <2>1, <2>2, <3>1 DEF PullInv, Effects, SameSnapshot, Tip
  <2>3. \A a \in Attempts : pullReq[a] = "refused" => HasPull(a)'
    BY <1>1, <1>9, <1>12 DEF PullInv, Effects
  <2> QED
    BY <1>1, <1>2, <2>2, <2>3 DEF PullInv, Effects, SameSnapshot
<1>14. Settled'
  <2>1. ASSUME NEW a \in Attempts, outcome[a] = "success"
        PROVE  pullReq[a] # "sent" /\ HasPull(a)'
    BY <1>1, <1>9, <1>12, <2>1 DEF PullInv, Settled
  <2>2. ASSUME NEW a \in Attempts, NEW b \in Attempts, a < b, b <= n + 1,
               outcome[a] = "success", Key(a)' = Key(b)'
        PROVE  refReq[b] = "unsent" /\ pullReq[b] = "unsent"
    <3>1. CASE b = n + 1
      BY <1>9, <3>1
    <3>2. CASE b # n + 1
      <4>1. b <= n /\ a # n + 1
        BY <1>2, <1>9, <2>2, <3>2 DEF Attempts
      <4>2. Key(a) = Key(b)
        BY <1>2, <1>3, <2>2, <3>2, <4>1 DEF Key
      <4> QED
        BY <1>1, <2>2, <4>1, <4>2 DEF PullInv, Settled
    <3> QED
      BY <3>1, <3>2
  <2> QED
    BY <1>2, <2>1, <2>2 DEF Settled
<1>15. excused' \/ Unhindered'
  <2> SUFFICES ASSUME ~excused' PROVE Unhindered'
    OBVIOUS
  <2> DEFINE found == branch[IF kind = "task" THEN world.issue ELSE 0]
  <2>1. ~InFlight /\ found # Foreign /\ (found \in Attempts => bound[found] = world /\ made[found] = t)
    BY <1>4
  <2>2. Tip(n)' = found
    BY <1>2, <1>3 DEF Tip, Key
  <2>3. Key(n)' \in Keys
    BY <1>1, <1>2, <1>3, WorldTypes DEF Key, Keys, TypeOK
  <2>4. found \in Attempts \cup {None} /\ found # n + 1
    BY <1>1, <1>2, <1>3, <1>9, <2>1, <2>3 DEF Key, PullInv, Effects, TypeOK
  <2>5. \/ Tip(n)' = None
        \/ Tip(n)' \in Attempts /\ SameSnapshot(Tip(n), n)' /\ made'[Tip(n)'] = made'[n + 1]
    BY <1>2, <1>3, <1>4, <2>1, <2>2, <2>4 DEF SameSnapshot
  <2>6. \A a \in Attempts : refReq[a] # "sent" /\ pullReq[a] # "sent"
    BY <2>1 DEF InFlight
  <2> QED
    BY <1>2, <1>3, <1>9, <2>5, <2>6 DEF Unhindered, AfterRef, Tip, SameSnapshot
<1> QED
    BY <1>5, <1>6, <1>7, <1>10, <1>13, <1>14, <1>15 DEF OperationInv, PullInv

-----------------------------------------------------------------------------
(* A fix *)

LEMMA FixSteps ==
    ASSUME OperationInv, Fix, FixAttempt
    PROVE  OperationInv'
<1> USE DEF attemptVars, gitHubVars, requestVars, faultVars, fixVars, FixStep, At, GoTo, End, GoToIf
<1>1. TypeOK /\ FixTypes /\ Turns /\ (outcome[n] = "failed" => excused) /\ FixInv
    BY DEF OperationInv
<1>2. /\ UNCHANGED <<kind, n, bound, made, sha, tested, aborted, world, branch, pulls, open,
                     refReq, pullReq, head, from, landed, pullOpen>>
      /\ \/ UNCHANGED <<faults, excused>>
         \/ faults < MaxFaults /\ faults' = faults + 1 /\ excused'
      /\ \A a \in Attempts : a # n => updateReq'[a] = updateReq[a] /\ outcome'[a] = outcome[a]
      /\ updateReq'[n] # updateReq[n] => updateReq'[n] = "sent" /\ updateReq[n] = "unsent"
      /\ updateReq' \in [Attempts -> Requests]
    BY <1>1 DEF FixTypes, Requests, FixInv, TypeOK, FixAttempt, FixRevalidate, CheckPullHead,
       SendUpdate, UpdateSettles, PublishFix, PublishFixFails, Fault
<1>3. /\ pc' \in PCs /\ outcome[n] = "none" /\ (pc' = "done" <=> outcome'[n] # "none")
      /\ outcome' \in [Attempts -> {"none", "success", "partial", "failed", "crashed"}]
    BY <1>1 DEF Turns, TypeOK, PCs, FixAttempt, FixRevalidate, CheckPullHead,
       SendUpdate, UpdateSettles, PublishFix, PublishFixFails
<1>4. faults' \in 0..MaxFaults /\ excused' \in BOOLEAN
  <2>1. faults' \in 0..MaxFaults
    BY <1>1, <1>2 DEF TypeOK
  <2>2. excused' \in BOOLEAN
    BY <1>1, Zenon DEF TypeOK, FixAttempt, FixRevalidate, CheckPullHead, SendUpdate,
       UpdateSettles, PublishFix, PublishFixFails, Fault
  <2> QED
    BY <2>1, <2>2
<1>5. TypeOK' /\ FixTypes' /\ Fix'
    BY <1>1, <1>2, <1>3, <1>4 DEF TypeOK, FixTypes, Fix
<1>6. Turns'
    BY <1>1, <1>2, <1>3 DEF Turns, TypeOK
<1>7. outcome'[n] = "failed" => excused
  <2> SUFFICES ASSUME ~excused PROVE outcome'[n] # "failed"
    OBVIOUS
  <2>1. /\ pullOpen /\ updateReq[n] \in {"unsent", "sent", "applied"}
        /\ pc \notin {"update-sent", "publish", "done"} => head = from[n]
    BY <1>1 DEF FixInv
  <2> QED
    BY <1>1, <2>1 DEF TypeOK, FixAttempt, FixRevalidate, CheckPullHead, SendUpdate,
       UpdateSettles, PublishFix, PublishFixFails, SamePull
<1>8. pc' = "publish" => Landed(n)
  <2> SUFFICES ASSUME pc' = "publish" PROVE Landed(n)
    OBVIOUS
  <2>1. updateReq[n] = "applied" \/ head = Append(from[n], n)
    BY DEF FixAttempt, FixRevalidate, CheckPullHead, SendUpdate, UpdateSettles, PublishFix,
           PublishFixFails
  <2>2. n \in Attempts /\ from[n] \in Seq(Int) /\ n \in Int
    BY <1>1 DEF TypeOK, FixTypes, Attempts
  <2>3. head = Append(from[n], n) => OnBranch(n)
    BY <2>2 DEF OnBranch
  <2> QED
    BY <1>1, <2>1, <2>2, <2>3 DEF FixInv
<1>9. outcome'[n] \in {"success", "partial"} => n \in tested /\ Landed(n)
    BY <1>1, <1>3 DEF TypeOK, FixInv, FixAttempt, FixRevalidate, CheckPullHead, SendUpdate,
       UpdateSettles, PublishFix, PublishFixFails
<1>10. pc' \notin {"revalidate", "tests", "done"} => n \in tested
    BY <1>1 DEF FixInv, FixAttempt, FixRevalidate, CheckPullHead, SendUpdate,
       UpdateSettles, PublishFix, PublishFixFails
<1>11. pc' \notin {"update-sent", "publish", "done"} => updateReq'[n] = "unsent"
    BY <1>1 DEF FixInv, FixAttempt, FixRevalidate, CheckPullHead, SendUpdate,
       UpdateSettles, PublishFix, PublishFixFails
<1>12. \A a \in Attempts : Landed(a) => Landed(a)'
    BY <1>1, <1>2 DEF Landed, FixTypes
<1>13. \A a \in Attempts : OnBranch(a)' <=> OnBranch(a)
    BY <1>2 DEF OnBranch
<1>14. FixInv'
    BY <1>1, <1>2, <1>3, <1>8, <1>9, <1>10, <1>11, <1>12, <1>13 DEF FixInv, NoPulls, TypeOK
<1> QED
    BY <1>2, <1>5, <1>6, <1>7, <1>14 DEF OperationInv

\* What a fix has in common with the other writes, and the loss of its update.
LEMMA FixFaults ==
    ASSUME OperationInv, Fix, FixShares \/ LoseUpdate
    PROVE  OperationInv'
<1> USE DEF attemptVars, gitHubVars, requestVars, faultVars, fixVars, At, GoTo, End, Fault
<1>1. TypeOK /\ FixTypes /\ Turns /\ (outcome[n] = "failed" => excused) /\ FixInv
    BY DEF OperationInv
<1>2. /\ UNCHANGED <<kind, n, bound, made, sha, world, branch, pulls, open, refReq, pullReq,
                     head, from, landed, pullOpen>>
      /\ tested' \in SUBSET Attempts /\ tested \subseteq tested'
    BY <1>1 DEF TypeOK, FixShares, LoseUpdate, TestsPass, CreateCommit, Cancel, Crash, Fails,
       CancelStops
<1>3. /\ pc' \in PCs /\ (pc' = "done" <=> outcome'[n] # "none")
      /\ outcome' \in [Attempts -> {"none", "success", "partial", "failed", "crashed"}]
      /\ \A a \in Attempts :
            \/ outcome'[a] = outcome[a]
            \/ a = n /\ outcome'[n] \in {"failed", "crashed"}
    BY <1>1 DEF Turns, TypeOK, PCs, FixShares, LoseUpdate, TestsPass, CreateCommit, Cancel, Crash,
       Fails, CancelStops
<1>4. /\ updateReq' \in [Attempts -> Requests]
      /\ \A a \in Attempts :
            \/ updateReq'[a] = updateReq[a]
            \/ updateReq[a] # "unsent" /\ updateReq'[a] = "lost" /\ excused'
    BY <1>1 DEF FixTypes, Requests, FixShares, LoseUpdate
<1>5. faults' \in 0..MaxFaults
    BY <1>1 DEF TypeOK, FixShares, LoseUpdate, TestsPass, CreateCommit, Cancel, Crash, Fails,
       CancelStops
<1>6. excused' \in BOOLEAN /\ aborted' \in BOOLEAN
    BY <1>1, Zenon DEF TypeOK, FixShares, LoseUpdate, TestsPass, CreateCommit, Cancel, Crash,
       Fails, CancelStops
<1>7. TypeOK' /\ FixTypes' /\ Fix'
    BY <1>1, <1>2, <1>3, <1>4, <1>5, <1>6 DEF TypeOK, FixTypes, Fix
<1>8. Turns'
    BY <1>1, <1>2, <1>3, <1>4 DEF Turns, TypeOK, Attempts
<1>9. excused' \/ (~excused /\ ~aborted' /\ (outcome'[n] = "failed" => outcome[n] = "failed"))
    BY <1>1 DEF TypeOK, FixInv, FixShares, LoseUpdate, TestsPass, CreateCommit, Cancel, Crash,
       Fails, CancelStops
<1>10. /\ pc' = "publish" => pc = "publish"
       /\ pc' \notin {"revalidate", "tests", "done"} => n \in tested'
       /\ pc' \notin {"update-sent", "publish", "done"} => pc \notin {"update-sent", "publish", "done"}
    BY <1>1 DEF FixInv, FixShares, LoseUpdate, TestsPass, CreateCommit, Cancel, Crash, Fails,
       CancelStops
<1>11. \A a \in Attempts : (Landed(a) => Landed(a)') /\ (OnBranch(a)' <=> OnBranch(a))
    BY <1>2, <1>4 DEF Landed, OnBranch
<1>12. FixInv'
    BY <1>1, <1>2, <1>3, <1>4, <1>9, <1>10, <1>11 DEF FixInv, NoPulls, TypeOK
<1> QED
    BY <1>1, <1>2, <1>7, <1>8, <1>9, <1>12 DEF OperationInv

LEMMA FixServes ==
    ASSUME OperationInv, Fix, ServeUpdate
    PROVE  OperationInv'
<1> USE DEF vars
<1>1. TypeOK /\ FixTypes /\ Turns /\ (outcome[n] = "failed" => excused) /\ FixInv
    BY DEF OperationInv
<1>2. UNCHANGED <<vars, from, pullOpen>>
    BY DEF ServeUpdate
<1>3. PICK a \in Attempts :
        /\ updateReq[a] = "sent"
        /\ \/ /\ FastForwards(a)
              /\ head' = Append(from[a], a)
              /\ landed' = [landed EXCEPT ![a] = head]
              /\ updateReq' = [updateReq EXCEPT ![a] = "applied"]
           \/ /\ ~FastForwards(a)
              /\ updateReq' = [updateReq EXCEPT ![a] = "refused"]
              /\ UNCHANGED <<head, landed>>
    BY DEF ServeUpdate
<1>4. from[a] \in Seq(Int) /\ a \in Int
    BY <1>1 DEF FixTypes, Attempts
<1>5. FixTypes'
  <2>1. Append(from[a], a) \in Seq(Int)
    BY <1>4
  <2>2. head' \in Seq(Int)
    BY <1>1, <1>3, <2>1 DEF FixTypes
  <2>3. landed' \in [Attempts -> Seq(Int)] /\ updateReq' \in [Attempts -> Requests]
    BY <1>1, <1>3 DEF FixTypes, Requests
  <2> QED
    BY <1>1, <1>2, <2>2, <2>3 DEF FixTypes
<1>6. TypeOK' /\ Fix'
    BY <1>1, <1>2 DEF TypeOK, Fix
<1>7. Turns'
    BY <1>1, <1>2, <1>3 DEF Turns, FixTypes
<1>8. \A b \in Attempts : Landed(b) => Landed(b)'
    BY <1>1, <1>2, <1>3 DEF Landed, FastForwards, FixTypes
<1>9. updateReq'[a] = "applied" => Landed(a)'
    BY <1>1, <1>2, <1>3 DEF Landed, FastForwards, FixTypes
<1>10. ASSUME NEW b \in Attempts, OnBranch(b)' PROVE Landed(b)'
  <2>1. CASE FastForwards(a)
    <3>1. head' = Append(from[a], a)
      BY <1>3, <2>1
    <3>2. OnBranch(b) \/ b = a
      BY <1>2, <1>10, <1>4, <3>1 DEF OnBranch
    <3>3. updateReq'[a] = "applied"
      BY <1>1, <1>3, <2>1 DEF FixTypes
    <3> QED
      BY <1>1, <1>8, <1>9, <3>2, <3>3 DEF FixInv
  <2>2. CASE ~FastForwards(a)
    BY <1>1, <1>2, <1>3, <1>8, <1>10, <2>2 DEF FixInv, OnBranch
  <2> QED
    BY <1>3, <2>1, <2>2
<1>11. ~excused =>
         /\ \A b \in Attempts \ {n} : updateReq'[b] # "sent"
         /\ updateReq'[n] \in {"unsent", "sent", "applied"}
         /\ updateReq'[n] # "applied" => head' = from[n]
  <2> SUFFICES ASSUME ~excused
               PROVE  /\ \A b \in Attempts \ {n} : updateReq'[b] # "sent"
                      /\ updateReq'[n] \in {"unsent", "sent", "applied"}
                      /\ updateReq'[n] # "applied" => head' = from[n]
    OBVIOUS
  <2>1. a = n /\ head = from[n]
    BY <1>1, <1>3 DEF FixInv
  <2>2. FastForwards(n)
    BY <1>4, <2>1 DEF FastForwards, IsPrefix
  <2> QED
    BY <1>1, <1>3, <2>1, <2>2 DEF FixInv, FixTypes
<1>12. FixInv'
  <2>1. NoPulls'
    BY <1>1, <1>2 DEF FixInv, NoPulls
  <2>2. \A b \in Attempts : updateReq'[b] = "applied" => Landed(b)'
    BY <1>1, <1>3, <1>8, <1>9 DEF FixInv, FixTypes
  <2>3. pc \notin {"update-sent", "publish", "done"} => updateReq'[n] = "unsent"
    BY <1>1, <1>3 DEF FixInv, FixTypes, TypeOK
  <2>4. pc = "publish" => Landed(n)'
    BY <1>1, <1>2, <1>8 DEF FixInv, TypeOK
  <2>5. \A b \in Attempts : outcome[b] \in {"success", "partial"} => b \in tested /\ Landed(b)'
    BY <1>1, <1>8 DEF FixInv
  <2>6. \A b \in Attempts : OnBranch(b)' \/ updateReq'[b] = "applied" => Landed(b)'
    BY <1>10, <2>2
  <2> QED
    BY <1>1, <1>2, <1>11, <2>1, <2>3, <2>4, <2>5, <2>6 DEF FixInv
<1> QED
    BY <1>1, <1>2, <1>5, <1>6, <1>7, <1>12 DEF OperationInv

LEMMA FixDrifts ==
    ASSUME OperationInv, Fix, FixDrift
    PROVE  OperationInv'
<1> USE DEF attemptVars, requestVars, faultVars
<1>1. TypeOK /\ FixTypes /\ Turns /\ (outcome[n] = "failed" => excused) /\ FixInv
    BY DEF OperationInv
<1>2. /\ UNCHANGED <<kind, n, bound, made, pc, sha, tested, outcome, aborted, faults, branch,
                     pulls, open, refReq, pullReq, from, landed, updateReq>>
      /\ excused' = TRUE
      /\ world.base < MaxDrift /\ world' = [world EXCEPT !.base = @ + 1]
    BY DEF FixDrift
<1>3. world' \in Worlds /\ world'.issue = 0 /\ world'.base \in Nat \ {0}
    BY <1>1, <1>2 DEF TypeOK, Worlds, FixInv, NoPulls
<1>4. /\ pullOpen' \in BOOLEAN
      /\ \/ head' = head
         \/ head' = Append(head, -world'.base)
         \/ head # <<>> /\ head' = Front(head)
    BY <1>1 DEF FixDrift, FixTypes
<1>5. /\ head' \in Seq(Int)
      /\ \A i \in 1..Len(head') : head'[i] \notin Attempts \/ (i \in 1..Len(head) /\ head'[i] = head[i])
  <2>1. CASE head' = head
    BY <1>1, <2>1 DEF FixTypes
  <2>2. CASE head' = Append(head, -world'.base)
    <3>1. head \in Seq(Int) /\ -world'.base \in Int /\ -world'.base \notin Attempts
      BY <1>1, <1>3 DEF FixTypes, Attempts
    <3> QED
      BY <2>2, <3>1
  <2>3. CASE head # <<>> /\ head' = Front(head)
    <3>1. head \in Seq(Int)
      BY <1>1 DEF FixTypes
    <3> QED
      BY <2>3, <3>1 DEF Front
  <2> QED
    BY <1>4, <2>1, <2>2, <2>3
<1>6. TypeOK' /\ FixTypes' /\ Turns' /\ Fix'
    BY <1>1, <1>2, <1>3, <1>4, <1>5 DEF TypeOK, FixTypes, Turns, Fix
<1>7. \A a \in Attempts : (OnBranch(a)' => OnBranch(a)) /\ (Landed(a)' <=> Landed(a))
    BY <1>2, <1>5 DEF OnBranch, Landed
<1>8. FixInv'
    BY <1>1, <1>2, <1>3, <1>7 DEF FixInv, NoPulls, TypeOK
<1> QED
    BY <1>2, <1>6, <1>8 DEF OperationInv

LEMMA FixReruns ==
    ASSUME OperationInv, Fix, FixRerun
    PROVE  OperationInv'
<1> USE DEF attemptVars, gitHubVars, requestVars
<1>1. TypeOK /\ FixTypes /\ Turns /\ (outcome[n] = "failed" => excused) /\ FixInv
    BY DEF OperationInv
<1>2. /\ n' = n + 1 /\ n + 1 \in Attempts /\ pc' = "revalidate" /\ sha' = None /\ aborted' = FALSE
      /\ UNCHANGED <<kind, tested, outcome, world, branch, pulls, open, refReq, pullReq, faults,
                     head, landed, updateReq, pullOpen>>
      /\ from' = [from EXCEPT ![n + 1] = head]
      /\ excused' = (~pullOpen \/ \E a \in Attempts : updateReq[a] = "sent")
      /\ outcome[n] # "none" /\ n \in Attempts
    BY <1>1 DEF FixRerun, NewAttempt, FirstStep, Fix, TypeOK, Attempts, Turns
<1>3. bound' \in [Attempts -> Worlds] /\ made' \in [Attempts -> Trees \cup {NoTree}]
    BY <1>1, RerunTypes, MadeTypes DEF FixRerun, NewAttempt
<1>4. /\ from' \in [Attempts -> Seq(Int)] /\ from'[n + 1] = head
      /\ \A a \in Attempts : a # n + 1 => from'[a] = from[a]
    BY <1>1, <1>2 DEF FixTypes
<1>5. TypeOK' /\ FixTypes' /\ Fix'
  <2>1. excused' \in BOOLEAN
    BY <1>2, Zenon
  <2> QED
    BY <1>1, <1>2, <1>3, <1>4, <2>1 DEF TypeOK, FixTypes, Fix, PCs
<1>6. updateReq[n + 1] = "unsent" /\ outcome[n + 1] = "none"
    BY <1>1, <1>2 DEF Turns, Attempts
<1>7. Turns'
    BY <1>1, <1>2 DEF Turns, Attempts
<1>8. \A a \in Attempts : (OnBranch(a)' => OnBranch(a)) /\ (Landed(a) => Landed(a)')
    BY <1>2, <1>4, <1>6 DEF OnBranch, Landed
<1>9. FixInv'
    BY <1>1, <1>2, <1>4, <1>6, <1>8 DEF FixInv, NoPulls, TypeOK
<1> QED
    BY <1>2, <1>5, <1>6, <1>7, <1>9 DEF OperationInv

-----------------------------------------------------------------------------
(* The invariant *)

LEMMA InitOperation == InitWrite => OperationInv
<1> SUFFICES ASSUME InitWrite PROVE OperationInv
    OBVIOUS
<1>1. TypeOK /\ FixTypes
    BY InitTypes
<1>2. /\ n = 1 /\ pc = FirstStep /\ sha = None /\ tested = {} /\ aborted = FALSE
      /\ world = Unmoved /\ bound = [a \in Attempts |-> Unmoved]
      /\ branch = [k \in Keys |-> None] /\ pulls = {}
      /\ outcome = [a \in Attempts |-> "none"]
      /\ refReq = [a \in Attempts |-> "unsent"] /\ pullReq = [a \in Attempts |-> "unsent"]
      /\ updateReq = [a \in Attempts |-> "unsent"]
      /\ head = <<>> /\ from = [a \in Attempts |-> <<>>] /\ pullOpen = TRUE
    BY DEF InitWrite, Init
<1>3. n \in Attempts
    BY <1>1 DEF TypeOK
<1>4. Turns /\ outcome[n] # "failed"
    BY <1>2, <1>3 DEF Turns, FirstStep, Attempts
<1>5. CASE Fix
  <2>1. NoPulls
    BY <1>2 DEF NoPulls, Unmoved
  <2>2. \A a \in Attempts : ~OnBranch(a)
    BY <1>2 DEF OnBranch
  <2> QED
    BY <1>1, <1>2, <1>3, <1>4, <1>5, <2>1, <2>2 DEF OperationInv, FixInv, FirstStep, Fix
<1>6. CASE ~Fix
  <2>1. Key(n) \in Keys
    BY <1>1, <1>3, KeyTypes
  <2>2. PullInv
    BY <1>2, <1>3, <1>6, <2>1 DEF PullInv, Progress, Effects, Settled, Unhindered, FirstStep,
       AfterRef, Opening, Fix, None, Attempts, Tip
  <2> QED
    BY <1>1, <1>4, <1>6, <2>2 DEF OperationInv
<1> QED
    BY <1>5, <1>6

LEMMA StepOperation == OperationInv /\ [NextWrite]_writeVars => OperationInv'
<1> SUFFICES ASSUME OperationInv, [NextWrite]_writeVars PROVE OperationInv'
    OBVIOUS
<1>1. CASE NextWrite
    BY <1>1, PullAttempt, PullFaults, PullServe, PullDrift, PullRerun, FixSteps, FixFaults,
       FixServes, FixDrifts, FixReruns, Zenon DEF NextWrite, Next, Fix
<1>2. CASE UNCHANGED writeVars
    BY <1>2 DEF writeVars, vars, fixVars, OperationInv, TypeOK, FixTypes, Turns, Fix, FixInv,
       NoPulls,
       OnBranch, Landed, PullInv, Progress, Effects, Settled, Unhindered, HasPull, SameSnapshot,
       Key, Tip
<1> QED
    BY <1>1, <1>2

\* The invariant holds however often the run is repeated.
THEOREM OperationInvariance == SpecWrite => []OperationInv
    BY InitOperation, StepOperation, PTL DEF SpecWrite

-----------------------------------------------------------------------------
(* What the invariant and its steps give *)

\* Every variable of a write keeps its type.
THEOREM WriteTypeCorrect == SpecWrite => []TypeOK
<1>1. OperationInv => TypeOK
    BY DEF OperationInv
<1> QED
    BY <1>1, OperationInvariance, PTL

\* Two attempts at an operation that both report success, and both made a pull request,
\* are the same one (findPullRequestByOperationKey looks at closed ones too).
THEOREM OperationHasOnePull == SpecWrite => []OnePull
<1>1. OperationInv => OnePull
  <2> SUFFICES ASSUME OperationInv, NEW p \in pulls, NEW q \in pulls, outcome[p] = "success",
                      outcome[q] = "success", Key(p) = Key(q), p < q
               PROVE  FALSE
    BY DEF OnePull, OperationInv, TypeOK, Attempts
  <2>1. TypeOK /\ Turns /\ (Fix \/ PullInv) /\ (Fix => pulls = {})
    BY DEF OperationInv, FixInv, NoPulls
  <2>2. p \in Attempts /\ q \in Attempts /\ PullInv
    BY <2>1 DEF TypeOK
  <2>3. q <= n
    BY <2>1, <2>2 DEF Turns, TypeOK, Attempts
  <2>4. pullReq[q] = "unsent"
    BY <2>2, <2>3 DEF PullInv, Settled
  <2> QED
    BY <2>2, <2>4 DEF PullInv, Effects
<1> QED
    BY <1>1, OperationInvariance, PTL

\* A success has its pull request, on a branch that holds a tested tree unless somebody
\* pushed (createRemoteBranch and assertRemoteBranchHead come before createPullRequest).
THEOREM SuccessPublishes == SpecWrite => []SuccessIsPublished
<1>1. OperationInv => SuccessIsPublished
  <2> SUFFICES ASSUME OperationInv, NEW a \in Attempts, ~Fix, outcome[a] = "success"
               PROVE  Of(Key(a), pulls) # {} /\ Tip(a) # None /\ (Tip(a) \in Attempts => Tip(a) \in tested)
    BY DEF SuccessIsPublished, Fix
  <2>1. TypeOK /\ PullInv
    BY DEF OperationInv
  <2>2. PICK p \in pulls : Key(p) = Key(a)
    BY <2>1 DEF PullInv, Settled, HasPull
  <2>3. Of(Key(a), pulls) # {}
    BY <2>2 DEF Of
  <2>4. p \in Attempts /\ Key(a) \in Keys
    BY <2>1, <2>2, KeyTypes DEF TypeOK
  <2>5. Tip(a) # None
    BY <2>1, <2>2, <2>4 DEF PullInv, Effects, Tip
  <2>6. Tip(a) \in Attempts => Tip(a) \in tested
    BY <2>1, <2>4 DEF PullInv, Effects, Tip
  <2> QED
    BY <2>3, <2>5, <2>6
<1> QED
    BY <1>1, OperationInvariance, PTL

\* An attempt that nothing hindered does not fail, whatever the earlier ones left behind
\* (findReconciledImplementationCommit and its like adopt it).
THEOREM RerunSucceeds == SpecWrite => []RerunRecovers
<1>1. OperationInv => RerunRecovers
    BY DEF OperationInv, RerunRecovers
<1> QED
    BY <1>1, OperationInvariance, PTL

\* A fix that reports its push has put tested files upon commits the Agent had seen
\* (updateRemoteBranch never forces).
THEOREM FixPushesItsOwn == SpecWrite => []FixIsItsOwn
<1>1. OperationInv => FixIsItsOwn
    BY DEF OperationInv, FixIsItsOwn, Fix, FixInv, Landed
<1> QED
    BY <1>1, OperationInvariance, PTL

\* Requests are sent by the current attempt, at their step.
LEMMA OnlySender ==
    ASSUME OperationInv, NextWrite, NEW b \in Attempts
    PROVE  /\ refReq[b] = "unsent" /\ refReq'[b] # "unsent" => b = n /\ pc = "ref" /\ ~Fix
           /\ pullReq[b] = "unsent" /\ pullReq'[b] # "unsent" => b = n /\ pc = "find-pull" /\ ~Fix
<1> USE DEF attemptVars, gitHubVars, requestVars, faultVars, vars
<1>1. TypeOK
    BY DEF OperationInv
<1>2. CASE Attempt /\ ~Fix
    BY <1>1, <1>2 DEF TypeOK, At, Attempt, FindCompleted, FindReconciled, Revalidate, TestsPass,
       CreateCommit, Recheck, Equivalent, SendRef, RefSettles, CheckHead, FindPull, PullSettles
<1>3. CASE Fails \/ Cancel \/ CancelStops \/ Crash \/ Rerun \/ Drift
    BY <1>3 DEF Fails, Cancel, CancelStops, Crash, Rerun, NewAttempt, Drift
<1>4. CASE Serve \/ Lose
    BY <1>1, <1>4 DEF TypeOK, Serve, ServeRef, ServePull, Lose
<1>5. CASE FixAttempt \/ FixShares \/ FixRerun \/ ServeUpdate \/ LoseUpdate \/ FixDrift
    BY <1>5 DEF FixAttempt, FixRevalidate, CheckPullHead, SendUpdate, UpdateSettles, PublishFix,
       PublishFixFails, FixStep, FixShares, TestsPass, CreateCommit, Cancel, Crash, Fails, CancelStops,
       FixRerun, NewAttempt, ServeUpdate, LoseUpdate, FixDrift
<1> QED
    BY <1>2, <1>3, <1>4, <1>5 DEF NextWrite, Next, Fix

\* An operation that has succeeded sends nothing when it is repeated: the pull request is
\* found first.
THEOREM RepeatsAreQuiet == SpecWrite => RepeatIsQuiet
<1>1. ASSUME OperationInv, NextWrite, NEW a \in Attempts, NEW b \in Attempts,
             outcome[a] = "success", Key(a) = Key(b)
      PROVE  /\ refReq[b] = "unsent" => refReq'[b] = "unsent"
             /\ pullReq[b] = "unsent" => pullReq'[b] = "unsent"
  <2> SUFFICES ASSUME b = n, pc \in {"ref", "find-pull"}, ~Fix PROVE FALSE
    BY <1>1, OnlySender
  <2>1. Turns /\ PullInv
    BY <1>1 DEF OperationInv
  <2>2. a < n
    BY <1>1, <2>1 DEF Turns, Attempts
  <2> QED
    BY <1>1, <2>1, <2>2 DEF PullInv, Settled, Attempts
<1>2. OperationInv /\ [NextWrite]_writeVars =>
        [\A a, b \in Attempts : outcome[a] = "success" /\ Key(a) = Key(b) =>
           /\ refReq[b] = "unsent" => refReq'[b] = "unsent"
           /\ pullReq[b] = "unsent" => pullReq'[b] = "unsent"]_vars
    BY <1>1 DEF writeVars
<1> QED
    BY <1>2, OperationInvariance, PTL DEF SpecWrite, RepeatIsQuiet

\* Who reports success without having found a pull request first has its own tree, bound
\* to its own snapshot, on the branch (assertEquivalentImplementationCommit).
THEOREM SuccessOwnsItsTree == SpecWrite => SuccessIsItsOwn
<1>1. ASSUME OperationInv, NextWrite, pc # "completed", outcome'[n] = "success", outcome[n] = "none",
             Tip(n) \in Attempts
      PROVE  made[Tip(n)] = made[n] /\ bound[Tip(n)] = bound[n]
  <2>1. TypeOK /\ (Fix => NoPulls) /\ (~Fix => PullInv)
    BY <1>1 DEF OperationInv, FixInv
  <2>2. ~Fix
    BY <1>1, <2>1, KeyTypes DEF TypeOK, NoPulls, Tip, None, Attempts
  <2>3. pc \in {"find-pull", "pull-sent"}
    BY <1>1, <2>1, <2>2 DEF NextWrite, Fix, Next, TypeOK, At, GoTo, GoToIf, End, Attempt,
       FindCompleted,
       FindReconciled, Revalidate, TestsPass, CreateCommit, Recheck, Equivalent, SendRef, RefSettles,
       CheckHead, FindPull, PullSettles, Fails, Cancel, CancelStops, Crash, Rerun, NewAttempt, Serve,
       Lose, Drift
  <2> QED
    BY <1>1, <2>1, <2>2, <2>3 DEF PullInv, Progress, AfterRef, Opening, SameSnapshot
<1>2. OperationInv /\ [NextWrite]_writeVars =>
        [pc # "completed" /\ outcome'[n] = "success" /\ outcome[n] = "none" /\ Tip(n) \in Attempts
           => made[Tip(n)] = made[n] /\ bound[Tip(n)] = bound[n]]_vars
    BY <1>1 DEF writeVars
<1> QED
    BY <1>2, OperationInvariance, PTL DEF SpecWrite, SuccessIsItsOwn
================================================================================
