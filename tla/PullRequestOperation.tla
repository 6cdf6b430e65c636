------------------------- MODULE PullRequestOperation -------------------------
(***************************************************************************)
(* The Controller's writes that end in a new pull request:                 *)
(* finishImplementation (an Issue), finishAutomationTask (a task, with or  *)
(* without an Issue), with createRemoteBranch and createPullRequest, over  *)
(* the attempts of one workflow run.  Attempts share an operation key, so  *)
(* a re-run must find and finish what an earlier one left behind: a crash, *)
(* a cancellation or a lost answer may come at any step, and a request     *)
(* sent by an attempt that is gone may still reach GitHub.                 *)
(*                                                                         *)
(* A commit is known by the attempt that created it (its SHA is new each   *)
(* time); an attempt's snapshot is the state of issue and base it was      *)
(* bound to, numbered as in `world'.                                       *)
(***************************************************************************)
EXTENDS Integers

CONSTANTS
    Kinds,          \* the writes: "implement", "task" (on an Issue), "automation" (without)
    Trees,          \* what the Agent may leave in the workspace
    MaxAttempts,    \* bound on the attempts of the run
    FaultKinds,     \* which of "crash", "loss", "cancel", "failure" may occur
    MaxFaults,      \* bound on faults
    MaxDrift        \* bound on changes of the issue or the base branch

ASSUME AttemptsAssumption == MaxAttempts \in Nat \ {0}
ASSUME FaultsAssumption == MaxFaults \in Nat /\ FaultKinds \in SUBSET {"crash", "loss", "cancel", "failure"}
ASSUME WorldAssumption == MaxDrift \in Nat

VARIABLES
    kind,       \* the write of this run (executeWrite)
    n,          \* the current attempt
    pc,         \* its next step
    bound,      \* snapshot of each attempt (boundHeadSha, issueIdentity)
    made,       \* tree of each attempt's workspace, or NoTree before it is bound
    sha,        \* commitSha: the attempt whose commit is to be published
    tested,     \* attempts whose tree passed the configured commands
    outcome,    \* what each attempt reported
    aborted,    \* the current attempt was cancelled
    world,      \* issue and base branch as they are now
    branch,     \* head of the branch of each operation key
    pulls,      \* attempts whose create request made a pull request
    open,       \* those pull requests that are open
    refReq,     \* createRef request of each attempt
    pullReq,    \* pulls.create request of each attempt
    faults,     \* faults so far
    excused     \* something beyond the code's control hit this attempt

attemptVars == <<kind, n, bound, made>>
gitHubVars == <<world, branch, pulls, open>>
requestVars == <<refReq, pullReq>>
faultVars == <<aborted, faults>>
vars == <<kind, n, pc, bound, made, sha, tested, outcome, aborted, world, branch, pulls,
          open, refReq, pullReq, faults, excused>>

Attempts == 1..MaxAttempts
Worlds == {w \in [issue : 0..MaxDrift, base : 0..MaxDrift] : w.issue + w.base <= MaxDrift}
Keys == 0..MaxDrift
NoTree == "no tree"
None == 0           \* no branch; no commit yet
Foreign == -1       \* a commit somebody else pushed
Requests == {"unsent", "sent", "applied", "refused", "lost"}
PCs == {"completed", "reconcile", "revalidate", "tests", "boundary", "objects", "recheck",
        "before-ref", "ref", "ref-sent", "equivalent", "head", "before-pull", "find-pull",
        "pull-sent", "update", "update-sent", "publish", "done"}

TypeOK ==
    /\ kind \in Kinds /\ n \in Attempts /\ pc \in PCs
    /\ bound \in [Attempts -> Worlds]
    /\ made \in [Attempts -> Trees \cup {NoTree}]
    /\ sha \in Attempts \cup {None}
    /\ tested \in SUBSET Attempts
    /\ outcome \in [Attempts -> {"none", "success", "partial", "failed", "crashed"}]
    /\ aborted \in BOOLEAN
    /\ world \in Worlds
    /\ branch \in [Keys -> Attempts \cup {None, Foreign}]
    /\ pulls \in SUBSET Attempts /\ open \in SUBSET pulls
    /\ refReq \in [Attempts -> Requests] /\ pullReq \in [Attempts -> Requests]
    /\ faults \in 0..MaxFaults
    /\ excused \in BOOLEAN

Unmoved == [issue |-> 0, base |-> 0]

\* A fix, which EXTENDS this module, has no earlier attempt to look for.
FirstStep == IF kind = "fix" THEN "revalidate" ELSE "completed"

Init ==
    /\ kind \in Kinds
    /\ n = 1
    /\ pc = FirstStep
    /\ bound = [a \in Attempts |-> Unmoved]
    /\ \E t \in Trees : made = [a \in Attempts |-> IF a = 1 THEN t ELSE NoTree]
    /\ sha = None
    /\ tested = {}
    /\ outcome = [a \in Attempts |-> "none"]
    /\ aborted = FALSE
    /\ world = Unmoved
    /\ branch = [k \in Keys |-> None]
    /\ pulls = {}
    /\ open = {}
    /\ refReq = [a \in Attempts |-> "unsent"]
    /\ pullReq = [a \in Attempts |-> "unsent"]
    /\ faults = 0
    /\ excused = FALSE

-----------------------------------------------------------------------------
(* Ways to go on *)

\* The client refuses every request once the run is cancelled.
At(step) == pc = step /\ ~aborted

GoTo(step) == pc' = step /\ UNCHANGED outcome
End(how) == pc' = "done" /\ outcome' = [outcome EXCEPT ![n] = how]
GoToIf(condition, step) == IF condition THEN GoTo(step) ELSE End("failed")

\* Two commits agree on message and parent when their attempts were bound alike.
SameSnapshot(a, b) == bound[a] = bound[b]

\* The operation key, and with it the branch, of an attempt.  A task on an Issue is a
\* new operation once the Issue has been edited (issueTaskIdentity).
Key(a) == IF kind = "task" THEN bound[a].issue ELSE 0

Of(k, ps) == {p \in ps : Key(p) = k}
Tip(a) == branch[Key(a)]

\* A mutant: pulls.list is asked without state "all".
ListedOpen == Of(Key(n), open)

\* What pulls.list with state "all" returns for the operation's branch.
Listed == Of(Key(n), pulls)

\* revalidateForImplementation, revalidateAutomationTask: base branch and issue, if
\* there is one, are still the bound ones.
Current == world = bound[n]

Revalidate(step, next) ==
    /\ At(step)
    /\ GoToIf(Current, next)
    /\ UNCHANGED <<attemptVars, sha, tested, gitHubVars, requestVars, faultVars, excused>>

-----------------------------------------------------------------------------
(* One attempt *)

\* findPullRequestByOperationKey, then assertImplementationCommitOwned: a pull
\* request of an earlier attempt is the result, whatever its snapshot.
FindCompleted ==
    /\ At("completed")
    /\ \/ Listed = {} /\ GoTo("reconcile")
       \/ \E p \in Listed :
             IF Tip(n) \in Attempts /\ SameSnapshot(Tip(n), p)
             THEN End("success") ELSE End("failed")
    /\ UNCHANGED <<attemptVars, sha, tested, gitHubVars, requestVars, faultVars, excused>>

\* A mutant: the orphaned branch of an earlier attempt is not looked for.
FindReconciledSkipped ==
    /\ At("reconcile")
    /\ GoTo("revalidate")
    /\ UNCHANGED <<attemptVars, sha, tested, gitHubVars, requestVars, faultVars, excused>>

\* findReconciledImplementationCommit and its like for tasks: adopt the branch of an earlier attempt when
\* its commit is bound to the same snapshot.
FindReconciled ==
    /\ At("reconcile")
    /\ \/ Tip(n) = None /\ GoTo("revalidate") /\ UNCHANGED sha
       \/ /\ Tip(n) # None
          /\ IF Tip(n) \in Attempts /\ SameSnapshot(Tip(n), n)
             THEN GoTo("revalidate") /\ sha' = Tip(n)
             ELSE End("failed") /\ UNCHANGED sha
    /\ UNCHANGED <<attemptVars, tested, gitHubVars, requestVars, faultVars, excused>>

TestsPass ==
    /\ At("tests")
    /\ tested' = tested \cup {n}
    /\ GoTo("boundary")
    /\ UNCHANGED <<attemptVars, sha, gitHubVars, requestVars, faultVars, excused>>

\* createGitHubCommitFromWorkspace: a new commit object, reachable from no branch.
CreateCommit ==
    /\ At("objects")
    /\ GoTo("recheck")
    /\ UNCHANGED <<attemptVars, sha, tested, gitHubVars, requestVars, faultVars, excused>>

\* After one more revalidation: publish the new commit, behind yet another one for an
\* implementation, or compare it with the one found.
Recheck ==
    /\ At("recheck")
    /\ IF sha = None
       THEN /\ GoToIf(Current, IF kind = "implement" THEN "before-ref" ELSE "ref")
            /\ sha' = n
       ELSE GoToIf(Current, "equivalent") /\ UNCHANGED sha
    /\ UNCHANGED <<attemptVars, tested, gitHubVars, requestVars, faultVars, excused>>

\* A mutant: the branch of an earlier attempt is reused whatever it holds.
EquivalentAnyTree ==
    /\ At("equivalent")
    /\ GoTo("head")
    /\ UNCHANGED <<attemptVars, sha, tested, gitHubVars, requestVars, faultVars, excused>>

\* assertEquivalentImplementationCommit: same snapshot and same tree.
Equivalent ==
    /\ At("equivalent")
    /\ GoToIf(SameSnapshot(sha, n) /\ made[sha] = made[n], "head")
    /\ UNCHANGED <<attemptVars, sha, tested, gitHubVars, requestVars, faultVars, excused>>

SendRef ==
    /\ At("ref")
    /\ refReq' = [refReq EXCEPT ![n] = "sent"]
    /\ GoTo("ref-sent")
    /\ UNCHANGED <<attemptVars, sha, tested, gitHubVars, pullReq, faultVars, excused>>

\* createRemoteBranch: acknowledged; or refused or lost, and then success only if
\* the branch is found at exactly this commit.
RefSettles ==
    /\ At("ref-sent")
    /\ \/ refReq[n] = "applied" /\ GoTo("head")
       \/ refReq[n] \in {"refused", "lost"} /\ GoToIf(Tip(n) = n, "head")
    /\ UNCHANGED <<attemptVars, sha, tested, gitHubVars, requestVars, faultVars, excused>>

\* assertRemoteBranchHead on the operation's branch.
CheckHead ==
    /\ At("head")
    /\ GoToIf(Tip(n) = sha, "before-pull")
    /\ UNCHANGED <<attemptVars, sha, tested, gitHubVars, requestVars, faultVars, excused>>

\* createPullRequest: return the pull request with this operation's marker, or ask
\* for one.
FindPull ==
    /\ At("find-pull")
    /\ IF \E p \in Listed : SameSnapshot(p, n)
       THEN End("success") /\ UNCHANGED pullReq
       ELSE GoTo("pull-sent") /\ pullReq' = [pullReq EXCEPT ![n] = "sent"]
    /\ UNCHANGED <<attemptVars, sha, tested, gitHubVars, refReq, faultVars, excused>>

\* A mutant: a refused create request is taken to mean that a pull request exists.
PullSettlesTrusting ==
    /\ At("pull-sent")
    /\ pullReq[n] # "sent" /\ End("success")
    /\ UNCHANGED <<attemptVars, sha, tested, gitHubVars, requestVars, faultVars, excused>>

\* Acknowledged; or refused or lost, and then looked for once more.
PullSettles ==
    /\ At("pull-sent")
    /\ \/ pullReq[n] = "applied" /\ End("success")
       \/ /\ pullReq[n] \in {"refused", "lost"}
          /\ IF \E p \in Listed : SameSnapshot(p, n) THEN End("success") ELSE End("failed")
    /\ UNCHANGED <<attemptVars, sha, tested, gitHubVars, requestVars, faultVars, excused>>

Attempt ==
    \/ FindCompleted \/ FindReconciled
    \/ Revalidate("revalidate", "tests")
    \/ TestsPass
    \/ Revalidate("boundary", "objects")
    \/ CreateCommit \/ Recheck \/ Equivalent
    \/ Revalidate("before-ref", "ref")
    \/ SendRef \/ RefSettles \/ CheckHead
    \/ Revalidate("before-pull", "find-pull")
    \/ FindPull \/ PullSettles

-----------------------------------------------------------------------------
(* Faults, and re-runs *)

Fault(what) ==
    /\ what \in FaultKinds
    /\ faults < MaxFaults
    /\ faults' = faults + 1
    /\ excused' = TRUE

\* A read fails or a validation command does: the finalizer throws.
Fails ==
    /\ pc # "done"
    /\ Fault("failure")
    /\ End("failed")
    /\ UNCHANGED <<attemptVars, sha, tested, aborted, gitHubVars, requestVars>>

Cancel ==
    /\ pc # "done" /\ ~aborted
    /\ Fault("cancel")
    /\ aborted' = TRUE
    /\ UNCHANGED <<attemptVars, pc, sha, tested, outcome, gitHubVars, requestVars>>

\* The outstanding request or the next one is rejected.
CancelStops ==
    /\ pc # "done" /\ aborted
    /\ End("failed")
    /\ UNCHANGED <<attemptVars, sha, tested, gitHubVars, requestVars, faultVars, excused>>

Crash ==
    /\ pc # "done"
    /\ Fault("crash")
    /\ End("crashed")
    /\ UNCHANGED <<attemptVars, sha, tested, aborted, gitHubVars, requestVars>>

InFlight == \E a \in Attempts : "sent" \in {refReq[a], pullReq[a]}

\* The run is re-run: a new process, bound to the world as it is.
NewAttempt ==
    /\ pc = "done" /\ n < MaxAttempts
    /\ n' = n + 1
    /\ pc' = FirstStep
    /\ bound' = [bound EXCEPT ![n + 1] = world]
    /\ sha' = None
    /\ aborted' = FALSE
    /\ UNCHANGED <<kind, tested, outcome, gitHubVars, requestVars, faults>>

\* The Agent makes something new of it.  The attempt is excused from the start if what
\* is on GitHub is not what it would make.
Rerun ==
    /\ NewAttempt
    /\ \E t \in Trees :
          LET found == branch[IF kind = "task" THEN world.issue ELSE 0]
          IN  /\ made' = [made EXCEPT ![n + 1] = t]
              /\ excused' = (\/ InFlight
                             \/ found = Foreign
                             \/ found \in Attempts /\ (bound[found] # world \/ made[found] # t))

-----------------------------------------------------------------------------
(* GitHub and the people who use it *)

\* A createRef request makes the branch only if there is none.
ServeRef(a) ==
    /\ refReq[a] = "sent"
    /\ \/ /\ Tip(a) = None
          /\ branch' = [branch EXCEPT ![Key(a)] = a]
          /\ refReq' = [refReq EXCEPT ![a] = "applied"]
       \/ /\ Tip(a) # None
          /\ refReq' = [refReq EXCEPT ![a] = "refused"]
          /\ UNCHANGED branch
    /\ UNCHANGED <<pulls, open, pullReq>>

\* GitHub allows one open pull request per pair of branches.
ServePull(a) ==
    /\ pullReq[a] = "sent"
    /\ \/ /\ Of(Key(a), open) = {}
          /\ open' = open \cup {a}
          /\ pulls' = pulls \cup {a}
          /\ pullReq' = [pullReq EXCEPT ![a] = "applied"]
       \/ /\ Of(Key(a), open) # {}
          /\ pullReq' = [pullReq EXCEPT ![a] = "refused"]
          /\ UNCHANGED <<pulls, open>>
    /\ UNCHANGED <<branch, refReq>>

Serve ==
    /\ \E a \in Attempts : ServeRef(a) \/ ServePull(a)
    /\ UNCHANGED <<attemptVars, pc, sha, tested, outcome, aborted, world, faults, excused>>

\* The request or its answer is lost: the client sees an error, and the request
\* took effect or did not.
Lose ==
    /\ Fault("loss")
    /\ \E a \in Attempts :
          \/ /\ refReq[a] \in {"sent", "applied"}
             /\ refReq' = [refReq EXCEPT ![a] = "lost"]
             /\ UNCHANGED pullReq
          \/ /\ pullReq[a] \in {"sent", "applied"}
             /\ pullReq' = [pullReq EXCEPT ![a] = "lost"]
             /\ UNCHANGED refReq
    /\ UNCHANGED <<attemptVars, pc, sha, tested, outcome, aborted, gitHubVars>>

\* Somebody edits the issue or moves the base branch, closes a pull request, or
\* pushes to a branch (not after closing: the closed pull request keeps its head).
Drift ==
    /\ MaxDrift > 0
    /\ \/ /\ \E part \in IF kind = "automation" THEN {"base"} ELSE {"issue", "base"} :
                world' = [world EXCEPT ![part] = @ + 1]
          /\ world' \in Worlds
          /\ UNCHANGED <<branch, open>>
       \/ \E p \in open : open' = open \ {p} /\ UNCHANGED <<world, branch>>
       \/ \E k \in Keys :
             /\ branch[k] \in Attempts /\ Of(k, pulls) = Of(k, open)
             /\ branch' = [branch EXCEPT ![k] = Foreign]
             /\ UNCHANGED <<world, open>>
    /\ excused' = TRUE
    /\ UNCHANGED <<attemptVars, pc, sha, tested, outcome, faultVars, pulls, requestVars>>

Next ==
    \/ Attempt \/ Fails \/ Cancel \/ CancelStops \/ Crash \/ Rerun
    \/ Serve \/ Lose \/ Drift

Spec == Init /\ [][Next]_vars

-----------------------------------------------------------------------------
(* Properties *)

\* An operation has one pull request, however often the run is repeated and even if
\* somebody closes it.  (A request of a dead attempt that lands late, after a later
\* attempt's pull request was closed, makes one that no attempt reports.)
OnePull ==
    \A p, q \in pulls :
        outcome[p] = "success" /\ outcome[q] = "success" /\ Key(p) = Key(q) => p = q

\* An attempt that reports success leaves a pull request, and unless somebody pushed,
\* its branch holds a tree that passed the configured commands.
SuccessIsPublished ==
    \A a \in Attempts : kind # "fix" /\ outcome[a] = "success" =>
        Of(Key(a), pulls) # {} /\ Tip(a) # None /\ (Tip(a) \in Attempts => Tip(a) \in tested)

\* A success speaks of the tree it validated, or of a pull request that was there
\* before the attempt looked.
SuccessIsItsOwn ==
    [][pc # "completed" /\ outcome'[n] = "success" /\ outcome[n] = "none" /\ Tip(n) \in Attempts
       => made[Tip(n)] = made[n] /\ bound[Tip(n)] = bound[n]]_vars

\* Once an attempt has reported success, a repeated run of the operation sends nothing.
RepeatIsQuiet ==
    [][\A a, b \in Attempts : outcome[a] = "success" /\ Key(a) = Key(b) =>
           /\ refReq[b] = "unsent" => refReq'[b] = "unsent"
           /\ pullReq[b] = "unsent" => pullReq'[b] = "unsent"]_vars

\* An attempt only fails for a reason: a fault of its own, drift, a request of a
\* dead attempt still under way, or a branch that is not what it would make. What an
\* earlier attempt left half-done is no such reason.
RerunRecovers == outcome[n] = "failed" => excused

\* What the comment before the Git object boundary says: from there on, cancellation
\* leaves no half-written operation (implement.ts, "preserve the idempotent
\* reconciliation path so cancellation cannot leave an avoidable half-written
\* operation").
CancelLeavesNoHalf ==
    pc = "done" => \A k \in Keys : (branch[k] = None) = (Of(k, pulls) = {})
=============================================================================
