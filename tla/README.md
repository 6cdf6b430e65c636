# A verification of the DeepSeek Harness Action

TLA+ models of the Controller of the DeepSeek Harness GitHub Action, the TLC
runs that check them on small instances, and TLAPS proofs for every instance.
Paths below are relative to the repository's `src/` directory; in
`PROJECT.json` the same files appear as `src/src/...`.

The Action runs an untrusted Agent (a DSH process) over a copy of a repository
and keeps every credential in a *Controller*. The Agent answers in turns; it may
ask for tools, among them GitHub mutations, which the Controller queues and
performs at the end of the run, behind a validation of the workspace. What makes
this code hard is not any one function but the order of things: a write may be
applied though its answer is lost, the run may be cancelled between two
requests, validation may fail and send the run round again with mutations still
queued, a workflow may be re-run over the remains of an earlier attempt.

## The system

| Component | State | Operations | Interacts with | Correct when |
| --- | --- | --- | --- | --- |
| Mutation primitive (`tools/github-gateway-mutation.ts`, `-deadline.ts`, `-revalidation.ts`, `github/client.ts`) | attempts, `possibleExternalEffect`, the call's timer | revalidate, read, write, reconcile, retry once | GitHub; the run's signal | its receipt is true of the outside world; it never writes to an entity that drifted; it reports |
| Authority gateway (`tools/github-authority-gateway.ts`, `orchestration/github-authority.ts`) | pending queue, budgets, active call, receipts, `RunState.partialWrite` | invoke, flush, dispose, record | the loop (invoke), finalizers (flush), validation gate, mutation primitive | mutations run in order, behind a validated tree; every effect is recorded |
| Mutation validation (`orchestration/github-validation.ts`, `write/validate.ts`, `write/validation-deadline.ts`) | accepted fingerprint, budget | validate, accept a revision | gateway, workspace, Docker | what is accepted has passed the configured commands |
| Agent loop (`agent/loop.ts`) | turn, feedback, pending validation failure and its fingerprint | turn, tool request, finalize, retry, cleanup | engine, tools, phase callbacks | it ends; it hides no failure; it repeats no effect |
| Agent phase and finalizers (`orchestration/agent-phase.ts`, `orchestration/write.ts`) | `RunState` | blocked, finalize (answer, write, review, diagnose), outcome | loop, gateway, write operations | success means everything was done, failure tells what was left behind |
| Issue to pull request (`commands/implement.ts`, `write/github.ts`, `write/pr.ts`, `write/implementation.ts`) | operation key, snapshot, commit, branch, pull request | look for a prior attempt, revalidate, validate, commit, branch, pull request | GitHub; earlier attempts | a repeated run finishes what it finds, once |
| Task to pull request (`commands/task.ts`, `write/task.ts`) | as above; its key changes when its Issue is edited | as above | GitHub; earlier attempts | as above |
| Fix of a pull request (`commands/fix.ts`, `orchestration/write.ts`) | bound head, commit | revalidate, validate, commit, fast-forward the head, comment | GitHub | what it reports as pushed is its own tested commit and buries nobody else's |
| Sticky progress comment (`github/progress.ts`, `github/comments.ts`, `orchestration/lifecycle.ts`) | publication queue, terminal state, last body | update, complete, blocked, fail, upsert | GitHub; run signal | the last comment is the run's result |
| Run lifecycle (`orchestrator.ts`, `orchestration/lifecycle.ts`, `lifecycle/*`, `index.ts`) | phase, deadline, cancellation | run, cancel, expire, report | all | one cause, reported once, as what it was |
| Review publication (`review/*`, `diff/*`) | fingerprints of findings, index of earlier threads, position map | filter, map, create, update, fall back to the summary | GitHub | every finding is told, once, on the line it speaks of |
| DSH process and output (`dsh/runner.ts`, `dsh/process.ts`, `dsh/receipts.ts`, ...) | process tree, buffers, counts, receipts | run, stop, repair, audit | Agent | bounded; one failure, the first; every call accounted for |
| DSH runtime, packages, network, proxy (`dsh/runtime.ts`, `dsh/install.ts`, `extensions/runtime-lock.ts`, `dsh/proxy.ts`) | runtime directory, lock, baseline, network, open requests | create, bind, install, audit, open, close, dispose | npm, Docker, the model's API | the worker loads what was audited; nothing outlives its run |
| Policy, permissions, tools (`security/policy.ts`, `permissions/*`, `tools/registry.ts`, `commands/router.ts`, `extensions/plan.ts`) | none | route, decide, resolve, audit | prepare, loop, runner | nothing is granted to those not trusted; audit and worker agree |
| Context of a run (`github/fetch.ts`, `github/context.ts`, `orchestration/prepare.ts`) | bound entity, comments, files | read, filter, read again | GitHub, while it changes | the Agent reads what was there at the trigger |
| Validation integrity (`write/validation-integrity.ts`, `validation/*`) | none | audit a change set | finalize | pure decisions over command strings |
| Inputs, redaction (`inputs.ts`, `security/redaction.ts`, ...) | none | parse, clean | all | bounded input, clean output |

`PROJECT.json` lists each component with its status, and every hazard at the
line where it bites.

## The modules

- **MutationReceipt** is the abstract promise of one mutation: a claim about the
  outside world that is never weaker than the truth. Its states say only whether
  a write is *exposed* (handed to GitHub and not known to be refused) and
  whether one has *landed*.
- **GitHubMutation** is the mutation itself: one action per way an API call can
  settle (`ReadBefore`, `ValidateAndSend`, `WriteAcked`, `WriteRefused`,
  `WriteAmbiguous`, ...), the two bounded attempts, the refusal to start a call
  after cancellation or the deadline, and the HTTP requests as seen by GitHub,
  which may apply, refuse or lose each of them at any later time. `pc` names the
  outstanding API call. The constant `HookReplacesSignal` says whether the
  client was created with a run signal; in production it was, and then its hook
  replaces the signal of each single call.
- **AuthorityGateway** is the queue, the budgets, the validation gate, the flush
  and the session's record of effects. It does not repeat the inside of a
  mutation: a running call exposes a write or not, succeeds, or fails with a
  claim that keeps MutationReceipt's promise, which is what the refinement
  theorem entitles it to assume. Trees of the workspace are numbered in the order
  in which they first appear, so "the fingerprint is unchanged" is equality.
- **ScheduledMutations** is the abstract promise of all the mutations of a run: a queue
  that is worked off from the front, each call leaving it for good when it is applied, and
  four ways to conclude. A success needs an empty queue; a blocked run and a failed one that is
  not marked need that nothing was touched. It knows nothing of turns, trees or gates.
- **ControllerRun** EXTENDS AuthorityGateway with the Agent loop, the two phase
  callbacks, `executeWrite` as one step with three ends, the flush behind it, the
  retry of a failed validation, the cleanup, and the conclusion. The write returns with
  its tree tested and on GitHub (`commits`), returns for a pull request that was completed
  before, with nothing tested or written (`found`; an initial choice, `repeats`, says
  whether that can happen, as it cannot for a fix), or throws with its tree on GitHub
  (`half`). `step` is where the Controller is; `FlushOr`, `Retry`, `NextTurn` and `Conclude` are the ways it
  goes on.
- **PullRequestOperation** is the inside of that write when it ends in a new pull
  request, for an Issue (`kind` "implement") or a task ("task" on an Issue,
  "automation" without one): every revalidation, the commit, the branch, the pull
  request, over several attempts of the same workflow run. A crash, cancellation,
  lost answer or failing read may strike at any step; requests of a dead attempt
  may still be served. A commit is known by the attempt that made it. `world` is the
  issue and the base branch; `Key(a)` the operation key of an attempt, and `branch`
  a function of keys, because a task's key contains the content of its Issue.
- **FixOperation** EXTENDS it with the fourth write, `finishFix`, and is all of
  `executeWrite`. The pull request's branch (`head`) is the sequence of its commits,
  so that a fast-forward is a prefix; others push to it, take commits away, or close
  the pull request at any moment.
- **StickyProgress** is the comment in which a run tells its progress and end,
  and the upsert behind it. A run makes up to four kinds of *publications*, which
  may overlap: "progress", "final", "correction" (of a cancellation published too
  early) and "result". `pc[p]` is the request a publication waits for, `cut` the
  publications whose signal is aborted, `comments` what GitHub has, `adrift` the
  requests that the Controller gave up and that may still land.
- **RunLifecycle** EXTENDS it with the run from preparation to outcome, for
  the operations `task`, `edit` (a task that writes), `review` and `fix`. `at` is
  what the run awaits, `phase` is `state.phase`, `verdict` what it is about to
  return or throw, `attempt` the failure being published. The Agent's turn,
  the flush and the write, which the modules above look into, are single steps
  that return or fail. Cancellation by the user (`cancelled`) and the reason of the
  run's aborted signal (`reason`) are two variables: only the first has a
  listener that publishes, and the first of the two decides the second.
- **ToolAudit** is the account of a worker's tool calls: the guard and the result
  listener of `assets/dsh/action-policy.mjs`, the state file of counts, the
  receipt log, and the Controller's reading of both (`dsh/receipts.ts`). Each
  write is a step, and the worker may die, or the write fail, before the next.
  `memory` is the worker's copy of the counts, `disk` the file; `ran` counts the
  tools really started, in all workers of a run.
- **PackageAudit** is what npm leaves and what the Controller makes of it: the
  modules, the lock, the baseline recorded before the extensions are installed, and
  the two audits (`dsh/install.ts`, `extensions/runtime-lock.ts`). A package is the
  name under which it lies, the name and version it has, whether it stays in its own
  directory, and its entry in the lock.
- **WorkerResources** is what a worker needs around it: the runtime directory, its
  binding, the internal network, the credential proxy and a request through it. Each
  can come into being after the Controller has given it up.
- **DshTurn** EXTENDS these three with the turns of a run (`dsh/runner.ts`): the
  phases of setup (`step`), the supervised process (`dsh/process.ts`), the repair of
  an answer, observation, audit and cleanup, and the disposal of the runtime at the
  end of the loop. `at` is what `runDsh` awaits, `stopped` is `terminalError`,
  `failure` is `executionFailure`; `cause` remembers the first failure that the
  Controller met, which is what a turn must report.
- **DiffMap** has no variables: the parser of a patch, the position map and the
  publisher's anchor as functions of a revision's files.
- **ReviewPublication** EXTENDS it with `publishPullRequestReview` over repeated runs
  on one pull request: `existing` is the index built once for each run, `adrift`
  the requests whose caller has gone, `summary` the findings that the sticky summary carries:
  those it shows, and those its limit of 65 000 characters cuts off.
- **Policy** and **ToolPlan** have no variables either: routing, trust and
  capabilities; and the tools of a run as the Controller resolves them, as the runner
  derives them again, as the worker's profile mounts them, and as the audit tells them.
- **RunAdmission** EXTENDS both with one run from its event to its tools, request by
  request, while texts, comments, heads, states and permissions change on GitHub.
- **GitHubMutationProofs**, **AuthorityGatewayProofs**, **ControllerRunProofs**,
  **FixOperationProofs** (the four writes), **ReviewPublicationProofs**,
  **RunAdmissionProofs**, **RunLifecycleProofs** and **DshTurnProofs** hold the theorems.
  Each extends the module whose specification it is about.

The `MC*` modules give values to constants; `PROJECT.json`'s `map` names the
lines each definition translates. Operators whose comment begins with "A mutant"
are plausible bugs of the same definition. They are not part of any
specification: each shows that some property notices the bug.

## The runs

| Run | Question | Result |
| --- | --- | --- |
| GitHubMutation | Are receipts truthful with the client the Action creates, does a mutation implement MutationReceipt, and does it always report? | holds |
| GitHubMutationLateWrite | Do receipts stay truthful with the request hook as it is? | violated |
| AuthorityGateway | Do mutations run only behind a validated tree, and is every effect recorded, whatever the caller, the workspace and the signal do? | holds |
| ControllerRun | A whole run, whose write may return, find a pull request completed before or throw half-done, with or without a process that outlives its turn and edits the workspace at any moment: order, completeness, single effects, truthful conclusion (it implements ScheduledMutations), termination | holds |
| PullRequestOperation | All four writes, three attempts with two faults of any kind, and a moving repository: one pull request, truthful success, a fix that buries nothing, recovery | holds |
| PullRequestOperationCancelled | Does cancellation after the Git object boundary leave no half? | violated |
| RunLifecycle | Does the comment tell the outcome of the job, is the last word the last comment, is there one comment, are deferred writes silent, does a run end whatever GitHub does? | holds |
| RunLifecycleDeadline | Is a run reported as cancelled only if somebody cancelled it? | violated |
| DshTurn | Do budgets hold over all workers, does a successful turn account for every call, is the first failure the one reported, does a worker load only what was audited, does nothing outlive the run, do turns end? | holds |
| ReviewPublication | Do comments stand on lines their findings speak of, is every finding told (up to the summary's limit, which costs the least grave first), has a place one thread, over repeated reviews, moved heads and failing requests? | holds |
| ReviewPublicationRerun | Does an identical review touch no comment? | violated |
| RunAdmission | Is anything granted that its actors, its origin and its opt-in do not allow, does the Agent read what was there at the trigger, do audit and worker agree? | holds |

The four violated runs check what the repository's own text says, and are the
`findings`:

1. *A denial that does not last.* A call's timer rejects the call, but the HTTP
   request goes on, because `createGitHubClient`'s hook puts the run's signal in
   the place of the call's (`github/client.ts:56`). The abandoned closure may
   then write after the mutation has failed with `externalEffect: "none"`. The
   trace: the revalidation inside the first attempt times out, the mutation
   fails, the revalidation answers, the write is sent. Only the end of the
   process or a cancellation stops it. `DenialPermanent` proves that the hook is
   the sole cause.
2. *Cancellation at the boundary.* `commands/implement.ts:131` (and, for tasks and
   fixes, `commands/task.ts:156`, `commands/fix.ts:102`) says that the path after the
   creation of Git objects is preserved under cancellation. The same hook rejects
   every further request, so the branch is left without a pull request. A re-run
   finishes it (`RerunRecovers`).
3. *A deadline called a cancellation.* `dsh/process.ts:179` turns every abort of
   a turn into the error of a cancellation, and `failureFromSignal` lets it
   pass. When the run's deadline strikes during a turn, job and comment therefore say
   `DSH_ABORTED`, where `docs/troubleshooting.md` has `AGENT_TIMEOUT`.
4. *An identical review rewrites a comment.* Two findings on one line, of different
   categories, both pass the precision filter, whose fingerprint has the category in
   it; the publisher's has the source around the line instead. They share a thread: the
   first run makes two comments, a repeated run finds one of them for both findings
   and edits it, though `test/review-publisher.test.ts:215` has an identical rerun skipped.

Other observations have no run of their own; the models contain the behaviours, and the
properties say what they do not claim of them:

- *A failed validation keeps the queue.* `docs/configuration.md:402` and `SECURITY.md:317`
  say that a failed validation discards the queue of mutations; the loop
  (`agent/loop.ts:496`) keeps it while the Agent may repair the workspace, and a later
  successful finalization performs it. `KeepsSchedule` follows the code.
- *A tree accepted untested.* When a workflow run is repeated, `executeWrite` may find the
  pull request that an earlier attempt has completed (`commands/implement.ts:84`,
  `commands/task.ts:116`). It returns before any validation, and neither compares nor
  publishes what the Agent has made this time. `agent-phase.ts:359` accepts the
  fingerprint all the same and flushes, although `github-validation.ts:112` says that the
  write's validation authorizes this very revision, and `docs/configuration.md:399` that a
  mutation requires a successful validation. `EffectsBehindWrite` and
  `RunBehindValidation` therefore except `found`.
- *A half-done write that is not marked.* `agent-phase.ts:351` sets `partialWrite` when
  `executeWrite` returns. If it throws behind `createRemoteBranch`
  (`commands/implement.ts:147`, `commands/task.ts:171`), or loses both the answer to
  createRef or updateRef and the read behind it (`write/github.ts:228`), the tree is on GitHub and the run presents an ordinary failure.
  `PartialWriteTold` is about writes that have returned; `BlockedLeavesNothing` and
  `WrittenOnce` count the half as well. What a repeated run makes of it is
  `RerunRecovers`.
- *Findings behind the summary's limit.* `review/publisher.ts:192` cuts the summary at
  65 000 characters; the findings it carries stand at its end, so that some of them may
  be told nowhere, though the line above still counts them ("Summary-only").
  `EveryFindingTold` says which: carried ones, the least grave first.
- *The audit of a cancelled turn does not run*, since `runSetup` looks at the aborted
  signal first (`AuditGivenUp`), although `runner.ts:748` says that auditing still runs;
  nothing in the outcome depends on it.

### Bounds

- GitHubMutation: the code's own two attempts; three values of the attribute
  (initial, requested, somebody else's); two outside edits, so that one can come
  between write and read and be taken back.
- AuthorityGateway and ControllerRun: two calls of one tool with a budget of
  two, enough for an order, for a failure between an applied and an untouched
  call, and for a repeated callId to use up the budget; trees 0..2, so that a
  tree may change, change again and change back; three turns, so that a failed
  validation, a repair and a last turn fit; two ways for validation to fail, so
  that progress and no progress differ.
- PullRequestOperation: four kinds of write, three attempts (one that leaves
  something, one that meets it, one that meets what both left), two faults, one change
  made by others, two trees. The violated run needs one attempt and one cancellation.
- RunLifecycle: two turns (one that retries and one that ends, or one too
  many), one request failed by the network, with and without a comment of an
  earlier run, with and without `progress_comment`. Aborts and timers are not
  counted as faults and may strike anywhere. The violated run needs one turn
  and no fault.
- DshTurn: two turns, as runtime, counts and log pass from one worker to the next; two
  tools of one owner, one with a limit of one and both with a common limit of
  two; three lines in the log, enough for a complete call and the beginning of
  another, for a repeated call id, or for a refused call after a completed one; one
  failing write. A runtime of one package, one plugin of a version and one bundle of a
  commit; npm leaves them as asked, or deviates in one of the ways the audits look for.
  The second turn may ask for the runtime of the first, for another, or for a
  contradictory one. Crashes, timers and cancellation may strike anywhere and are
  not counted.
- ReviewPublication: three runs (a thread made, met, and met again), two faults, two
  heads, the second with a hunk moved and another gone; patches that are whole, cut in
  the middle of a hunk, cut behind it, renamed; six results with findings on
  added, deleted and context lines, ranges, on the same line, reworded, vague. No more
  than two findings are published. The violated run has no fault.
- RunAdmission: fifteen events, one of each kind that routing or policy tells apart;
  five sets of inputs; pull requests of the same repository, of a protected branch, of
  a fork; twenty tool configurations; two changes on GitHub (one before and one
  after a reading, or one that is taken back), one failing request, the code's own two
  readings of an issue.

`CHECK_DEADLOCK FALSE` everywhere: all of these systems really stop.

### Fairness

Fairness is assumed only of steps that a timer of the code forces. In
GitHubMutation every outstanding call may be failed by its timer (15 s,
`github-gateway-deadline.ts:24`); no answer and no delivery is assumed. In ControllerRun
the gate's commands are bounded by the validation budget, a
mutation reports, which is GitHubMutation's `Reports`, and a turn and a finalizer end because each is run under
`settleWithin` or a process timeout; *how* they end is left open. Fairness is on
the disjunction, never on a favourable disjunct. In RunLifecycle the deadline
expires, the timer of a terminal publication fires after five seconds, an aborted
request rejects, and once the signal is aborted the Controller goes on (before
that, nothing is assumed: an Agent may sit in its turn until the deadline). In
DshTurn the Controller goes on: each of its phases has a timer, and a client that
has been told to stop is killed after a grace (`dsh/process.ts:55`). The worker
owes nothing, its container may go on after its client, and what was given up need
never arrive. AuthorityGateway, the writes, reviews and admission have no fairness
and claim no liveness.

### Abstractions to know of

- A run has one signal: cancellation and the run deadline abort the same one
  (`createRunDeadline`), so both are `aborted` in the modules that ask only
  whether it is. RunLifecycle tells them apart.
- `Disturb` always makes a new tree: a leftover process is not assumed to put
  back the exact bytes of an earlier tree between the two fingerprints of the
  gate. Agent turns may restore old trees. Without this the two fingerprints
  could not tell anything, in the model or in the code.
- In ControllerRun the initial state chooses `leftover`: whether some process
  outlives its turn and edits the workspace while the Controller holds it. Most
  properties are claimed either way. `WrittenOnce` and `EffectsBehindWrite` are
  claimed only without one: `Accept` takes the fingerprint after `executeWrite`
  has validated, so a surviving process could slip a tree in between
  (`github-validation.ts:112`); this window is listed as a hazard.
- `EffectsRecorded` takes receipts at the word that MutationReceipt gives for them. The late
  write of the first finding comes after its receipt and is left out here.
- Reviews and diagnoses are left out of ControllerRun: their policy has no
  mutation tool and their finalizer never flushes.
- An `Invoke` over budget or during a flush is refused in the code and changes
  nothing; it is a disabled action here.
- In StickyProgress the reporter's queue is left out: every caller awaits its
  update before the next one, so it holds at most the publication in flight. The
  texts of a run all differ, so the comparison with the last body, which skips
  equal texts, never applies. Errors are of three kinds: cancelled, timed out,
  any other.
- `LastWord` and `OneComment` except runs in which a request that the Controller
  had given up lands later (`overtaken`): GitHub has no conditional write that
  could forbid it, and a process that exits leaves its open requests adrift.
- Cleanup in DshTurn is best effort and changes no result: the exit code of `docker
  network rm` is not looked at, and a network whose creating client was killed may
  arrive after it ("late", then "kept"), which `NothingOutlives` allows of a failed run
  only. A request to the model is made between two rounds of tools. Calls that an
  orphaned worker makes when the run is over are not followed further.
  Observation belongs to one composition of the worker and receipts to the other;
  the model has both, so a property that holds of it holds of each. The worker is
  the one in Docker on POSIX; trusted code that tampers with the state file is
  not modelled, as `docs/extension-contracts.md` claims nothing for it.
- A task on an Issue that is edited between two runs is another operation with its own
  branch and pull request (`issueTaskIdentity`): `OnePull` speaks of a key.
- A fix has no operation key and looks for nothing that an earlier attempt left; a
  re-run is bound to the branch as it is, the earlier commit included. `FixIsItsOwn`
  says that no commit is buried which the Agent had not been given; a commit that
  somebody takes away while the Agent works comes back with the fix, as updateRef without
  force allows.
- In ReviewPublication a comment keeps the commit and the line it was created for, as the
  publisher assumes ("GitHub cannot relocate an existing inline thread to another commit",
  `review/publisher.ts`). GitHub itself may move a thread that is not outdated to the new
  commit; that is left out. How long a text is is left open too: the summary's limit may
  cut anywhere behind the findings it shows, and one of which a part is left counts as cut off.
- In ReviewPublication the texts of a comment are the finding's identity, where it
  stands, and a body that is equal to another or not; two findings that share their source
  are left out of `EveryFindingTold` and `OneThread` and have the violated run.
  So are places whose comment is created by a request that lands after its run has given
  it up: a later run may have listed the threads before.
- In RunAdmission the event is at second 1, and what the payload carries is version 0 of
  everything; GitHub's clock may stand still over a change. The two readings cannot tell a
  head that went away and came back between them (`moved`), nor does the model claim it.
- In PullRequestOperation `excused` is a history variable: it records that
  something other than the code hit an attempt, and only `RerunRecovers` reads
  it. Comparison of snapshots stands for the comparison of the commit's message
  and parent, which embed it.

## The proofs

Every safety and action property that a passing run checks is a theorem of the same
specification. Assumptions are those the modules
state, each as the code has it: bounds are naturals (`MaxTurns`, `MaxAttempts` and the
number of revisions positive), every call has a tool and every tool a budget
(`ToolAssumption`, `MaxCallsAssumption`, `AuditAssumption`), a selection is a list of
reported findings (`SelectionsAssumption`), patches are sequences of rows and GitHub lists a file
once (`FilesAssumption`), a finding has a path and a known side (`FindingsAssumption`;
`review/schema.ts`), commands and the tools of extensions have
names of their own (`ConfigAssumption`; `tools/schema.ts`), a package given by commit is one
of the plan's (`PackageAssumption`). The tools of a worker are finitely many, since
its plan is a list. Otherwise sets of values, calls, tools, people, findings, files and
packages are arbitrary, as are the bounds: nothing depends on the instances of the `MC*`
modules.

Every invariant was checked by TLC as an invariant of its run before it was proved. A
proof has a lemma for each action or group of actions, under it a step for each part
of the invariant that they disturb, and the theorems at the end of the module.

**GitHubMutationProofs.** `DenialTrueWhenGiven` is not inductive: that a failure
before the retry's write has no effect depends on the first attempt, which the
state at that moment shows only through `possible`. The invariant adds
`Control` (what `pc` says about attempts and report), `Requests` (requests are
numbered by attempts; the current one is unsent until its write; an abandoned
closure belongs to a mutation that has reported) and `Remembered` (unless
`possible` is set, all earlier writes were harmless). Each action is a step of
the proof, with the conjuncts it can disturb below it. `DenialPermanent` adds
`HookOnly`: without the hook there is no abandoned closure. `ImplementsReceipt` needs
no such assumption, for the abstract receipt promises what is true when it is given.
The refinement maps every step to exposing, landing, refusing,
reporting or stuttering.

**AuthorityGatewayProofs.** That a flush runs behind a vetted tree
(`MutationsBehindValidation`) needs that the tree copied into the container was
the tree that both fingerprints saw. Nothing in a single state says so; the
invariant's `Monotone` does: during the gate trees only grow, so if the tree at
the end equals the tree at the start, the copy between them equals both.
`EveryEffectRecorded` needs `Accounted`: outside the running call, a write that
may have landed shows in a receipt of this flush or the run is already marked.

**ControllerRunProofs.** `RunInv` is about a run with the gateway in it. The gateway's own
invariant does not carry over whole: a write that ends well forgets
`partialWrite`, so `Accounted` is claimed up to there. `AtRest` says that the gateway
works only while the run flushes and that the run goes on only with an empty queue;
`QueueInv` that each call the Agent holds a receipt for is queued or applied, never both,
and that only the first of the queue has been touched; `WriteInv` that a write that has
returned marks the run until it has succeeded, and that one that has thrown has ended it. What rests on
nobody editing behind the Controller is the disjunction `leftover \/ Undisturbed`: without a
process that outlives its turn the flush behind a write finds the tree that was accepted, hence
it cannot send the run round again, hence one commit (`WrittenOnce`). That the accepted tree has
passed (`Vetted`) needs `~found` besides, for a write that finds an earlier pull request tests nothing. The
theorems on `FlushBehindValidation` and `EffectsBehindWrite` carry both exceptions; those about
telling, completeness, order and applying once need neither.
`RunKeepsSchedule` puts these together: a run implements ScheduledMutations, with `pending` as
its queue and `Outcome` reading the conclusion with the mark. `QueueMoves` singles out the steps that
move the queue, a receipt or GitHub; a tool request schedules, a running mutation touches or
applies the first call (that it *is* the first, and not applied yet, is `AtRest` and `QueueInv`), the
cleanup drops. All other steps conclude or stutter (`QuietRefines`), and what they may conclude is
`ConcludesRightly`. The abstract action `Schedule` may conclude too: the last turn can ask for a
tool, which is queued before the loop finds that there is no turn to answer it in.

**FixOperationProofs** is about `SpecWrite`, all four writes over all attempts.
`FixIsItsOwn`, `OnePull`, `SuccessIsPublished` and `RerunRecovers` speak of what
attempts leave to later ones, so the invariant is about all of them: `Turns` (attempts come
one after the other), `Effects` (what the state of any request, however late, says of
GitHub), `Settled` (a success is found by later attempts, which then send nothing),
`Progress` (what the current attempt knows at its step), and
`excused \/ Unhindered`: without a fault, a change by others or a request still on its way,
what is on the branch is what this attempt would make, so no check on the way can
fail. `FixInv` has the same shape for a branch that others push to: a commit on it was
put on a prefix of what the Agent had been given (`Landed`).

**RunAdmissionProofs.** `AdmissionInv` says what was read, found and granted by the time a run is
at a step. `Calm` (a comment with another text was written or edited after the event) and the
two readings of the head (`PullRead`) give `FrozenContext`; `ActorsKnown` (who was found
to be trusted could be at some time of the run) and lemmas about the policy, from
`PolicyTrust` to `PowersNeedWriter`, give `GrantsAreTrusted`. `AuditTellsWorker` is about three
computations of one plan: `SameTools`, `SameWrites` and `SameNames` show that they agree,
`GroundGiven` that what is left out is told with a ground that is true of it.

**ReviewPublicationProofs.** `PublicationInv` is a loop invariant: of the findings that the loop has
come past, `PastTold` says that they are inline, in the fallback or excused; `IndexTrue`
that the index of threads, built once, is still right of every thread this run has not
written; `ThreadsKnown` that a thread was listed, or is the run's own, or landed late;
`SharedExcused` that findings with the same source are excused. At the end `CutOff` says of a finding
that the summary's limit has taken that all the summary shows comes before it. Where a finding stands
may be any function here, hence these theorems do not depend on the parser of patches.
`CommentsStand` does, and begins with it. `Parsed` is a fold over rows, and a fold is a function
on all sets of row numbers that the prover only knows by a `CHOOSE`: `AllLayers` shows that there is
one, from readings of sets of at most n rows to those of n + 1, and `RowByRow` that it reads one row after the
other. `RowInv` is then an invariant over rows: every line read has the number that its row has in the patch
(`Stood`), the counters stand where the hunk begins plus the rows of each side since
(`Opened`), and unless something is cut off each hunk so far had what its header announces
(`Uncut`). From its end follow `WholeUnlessCut` and `RangeShown`, hence `MappedOnItsLine`: what the map
returns is on its line. `Standing` carries that over runs and heads: an update changes what a comment says and
leaves it in its place with the range of the finding that made it, so its place is that of the
finding it is about now, and its range that of some finding in the same place. The two are
in one file since names are unique.
`PatchReadExactly` says the converse as well, so that the parser neither invents nor loses: a second
invariant over rows, `LossInv`, says that no line of a hunk is lost while hunks are closed and
kept (`Goes`) and that a patch is called cut off only where it has a flaw (`Flawed`). `PlacedHaveSource` is
about fingerprints: the file that the publisher finds again is the one the place is in, and a hunk of it
spans the finding, so the source around it is never missing and the fallback to the line is not taken.
`FindingsAssumption` gives a finding the line and start that `review/schema.ts` admits.
`FilesAssumption` is needed there: `findFile` (`diff/map.ts:30`) takes
the first file that has the path or had it, so a listed *copy* of a file that is itself
listed further down would get the finding. Git names as the former path of a file only one that is gone
unless it is asked to look for copies, and GitHub does not ask.

**RunLifecycleProofs.** Four publications of one comment may overlap. The argument is that of those
that overlap only one has a signal that is not aborted, and it is the one begun last
(`Superseded`, `LatestIsAlone`): so what it listed is still true when it writes, as long as no
request lands after its signal (`overtaken`), and the last word stands. `Provisional` and `Told`
tie what was told to the verdict: before the way out a run has told at most a
cancellation that can no longer become a success, and after it what `verdict` says.

**DshTurnProofs.** `TurnInv` joins four accounts of a turn. `Told`: `failure` is the first thing that
went wrong, `cause`. `Gone` and `ProxyKept`: what exists of runtime, network and proxy at each
step, with who is to remove it. `Packages`: which trees npm may have left at each phase of setup; a
tree that deviates in one name and passes an unambiguous inventory has the pinned runtime
at its place, which is why `WorkerOnAuditedTree` survives whatever the installation of extensions does.
`Budgets`: memory is never behind the file, and the file never behind what was started, for each
tool and for the sum over each group. `Account`: each `started` line in the log has a
charge, and the result of a call that was never admitted (`Stray`) has a charge to which no
other line belongs; so when the count of charges equals that of the receipts there is no such result, and the
receipts are the calls (`SuccessIsAudited`). The module begins with the lemmas about sums over
finite sets this needs. What a fold computes is induction over data; the lemmas get it from a
least counterexample, taken with the well-founded order of inclusion on finite sets.
The proof found two definitions of the model, `Compose` and `ProcessFailure`, whose
CASE had guards that overlap: TLA+ leaves the choice open where the code takes
the first, which TLC also does, so no run could show it.

**Only model-checked.** All liveness (`Reports`, `Terminates`, `RunEnds`, `TurnsEnd`): the prover has
no fairness and no `ENABLED`. The properties of the runs that are violated are not theorems.

## Not modelled, and the plan

In this order:

1. *More theorems*: `TruthfulReceipt` for each mutation the gateway runs, within a run;
   of ReviewPublication, how few comments a repeated run adds.
2. *The other writers of the gateway*: comment creation (no retry, marker, window of the
   last 100 comments) and pull request metadata.
3. *A worker that edits the workspace after its client is gone*, as ControllerRun's
   `leftover` (`github-validation.ts:112`), in one model with DshTurn.

Not modelled because it is text or I/O without a protocol; where its result
matters it is an input of a model: validation integrity and shell-command analysis
(`write/validation-integrity.ts`, `validation/*`: a verdict in ControllerRun), rendering of
prompts and comments, redaction, parsing of inputs and schemas, byte limits, branch names,
file copies and Git plumbing (the identity of a tree in AuthorityGateway), results of checks.
