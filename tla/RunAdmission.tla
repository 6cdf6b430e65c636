----------------------------- MODULE RunAdmission -----------------------------
(***************************************************************************)
(* Admission of one run, from its event to the tools its worker gets       *)
(* (prepareAuthorizedRun, prepareWorkspace, prepareExecution), while the   *)
(* repository goes on changing: texts and comments are edited, the head is *)
(* pushed, the issue is touched or closed, permissions come and go.        *)
(*                                                                         *)
(* The event happens at second 1. What it carried then is what the payload *)
(* holds; all else is read from GitHub, one request after another.         *)
(***************************************************************************)
EXTENDS Policy, ToolPlan

CONSTANTS
    People,         \* actors
    AccountType,    \* for each, what GitHub says it is
    Events, Inputs, \* what may start a run, and its routing inputs
    Pulls,          \* facts of the pull request: from a fork, which branch it is on
    Configs,        \* the tool configurations
    MaxChanges,     \* bound on what changes on GitHub during the run
    MaxFailures,    \* bound on failing requests
    MaxAttempts,    \* readings of an issue, MAX_ISSUE_SNAPSHOT_ATTEMPTS
    Unread, NoConfig    \* nothing read yet, no configuration chosen yet

ASSUME AdmissionAssumption ==
    /\ MaxChanges \in Nat /\ MaxFailures \in Nat /\ MaxAttempts \in Nat \ {0}
    /\ AccountType \in [People -> {"User", "Bot"}]
    /\ \A event \in Events : Actors(event) \subseteq People

\* The two modes of inputs.ts; commands and the tools of extensions have names of their own
\* (tools/schema.ts: "command.", "mcp.", "plugin.").
ASSUME ConfigAssumption ==
    \A config \in Configs :
        /\ config.mode \in {"controlled", "native"}
        /\ (CommandIds(config) \cup ToolIds(config.owners)) \cap (Native \cup GitHub) = {}

VARIABLES
    event, inputs, pull,        \* fixed at the start
    now,                        \* the second of the clock on GitHub
    text, open, touched,        \* the entity: its title and body, its state, its updated_at
    comments,                   \* comments on it, by number
    head,                       \* the revision of the pull request
    writers,                    \* who has write permission
    wereWriters, moved,         \* whoever had it, and whether the head moved and came back
    changes, failures,
    at,                         \* what the run does next
    command, access,            \* its command, and which actors are allowed for write
    attempt, frozen,            \* the reading of an issue, and the state the first one saw
    bound,                      \* the entity as first read
    files, shown,               \* the changed files and the comments read
    policy, config, outcome

world == <<now, text, open, touched, comments, head, writers, wereWriters, moved>>
start == <<event, inputs, pull>>
reading == <<attempt, frozen, bound, files, shown>>
vars == <<start, world, changes, failures, at, command, access, reading, policy, config, outcome>>

Trigger == 1
OwnComment == 2     \* the comment of a comment event; 1 is older

-----------------------------------------------------------------------------
(* The world *)

Note(author, time, body) == [author |-> author, created |-> time, updated |-> time, body |-> body]
Edited(note, time) == [author |-> note.author, created |-> note.created, updated |-> time,
                       body |-> note.body + 1]

Init ==
    /\ event \in Events /\ inputs \in Inputs /\ pull \in Pulls
    /\ event.name \in PullEvents => event.fork = pull.fork
    /\ now = Trigger /\ text = 0 /\ open = TRUE /\ touched = Trigger
    /\ comments = IF event.name = "issue_comment"
                  THEN <<Note("other", 0, 0), Note(event.actor, Trigger, 0)>>
                  ELSE <<Note("other", 0, 0)>>
    /\ head = 0 /\ writers \in SUBSET Actors(event) /\ wereWriters = writers /\ moved = FALSE
    /\ changes = 0 /\ failures = 0
    /\ at = "route" /\ command = NoCommand /\ access = <<>>
    /\ attempt = 0 /\ frozen = Unread /\ bound = Unread /\ files = Unread /\ shown = Unread
    /\ policy = Denied /\ config = NoConfig /\ outcome = "none"

Kept == UNCHANGED <<start, failures, at, command, access, reading, policy, config, outcome>>

\* After the last request nothing more of it reaches this run.
Change ==
    /\ at \notin {"authorize", "prepare", "done"} /\ changes < MaxChanges /\ changes' = changes + 1
    /\ now' \in {now, now + 1}
    /\ Kept

EditText == /\ Change
            /\ text' = text + 1 /\ touched' = now'
            /\ UNCHANGED <<open, comments, head, writers, wereWriters, moved>>
EditComment == /\ Change
               /\ \E k \in DOMAIN comments :
                      comments' = [comments EXCEPT ![k] = Edited(@, now')]
               /\ touched' = now'
               /\ UNCHANGED <<text, open, head, writers, wereWriters, moved>>
AddComment == /\ Change
              /\ comments' = Append(comments, Note("other", now', 1)) /\ touched' = now'
              /\ UNCHANGED <<text, open, head, writers, wereWriters, moved>>
Touch == /\ Change
         /\ touched' = now' /\ open' \in BOOLEAN
         /\ UNCHANGED <<text, comments, head, writers, wereWriters, moved>>
Push == /\ Change
        /\ head' \in {head + 1} \cup 0..(head - 1)
        /\ moved' = (moved \/ head' < head)
        /\ UNCHANGED <<text, open, touched, comments, writers, wereWriters>>
Permit == /\ Change
          /\ \E a \in Actors(event) :
                 writers' = IF a \in writers THEN writers \ {a} ELSE writers \cup {a}
          /\ wereWriters' = wereWriters \cup writers'
          /\ UNCHANGED <<text, open, touched, comments, head, moved>>

-----------------------------------------------------------------------------
(* Routing and the permissions of the actors *)

Goes(next) == at' = next /\ outcome' = "none"
Ends(result) == at' = "done" /\ outcome' = result
Unmoved == UNCHANGED <<start, world, changes, failures>>

Route ==
    /\ at = "route"
    /\ command' = RouteCommand(event, inputs)
    /\ IF Neutral(event, command') THEN Ends("neutral") ELSE Goes("actors")
    /\ Unmoved /\ UNCHANGED <<access, reading, policy, config>>

\* Which entity the run reads: resolvePullRequest and fetchEntitySnapshot.
Target == IF IsPull(event) \/ (IsRun(event) /\ event.attached) THEN "pull_request"
          ELSE IF IsEntity(event) THEN "issue" ELSE "none"

\* getActorAccess: a user that cannot be looked up is of unknown type, a permission that
\* cannot is none.
CheckActor ==
    /\ at = "actors"
    /\ \E a \in Actors(event) \ DOMAIN access, typed, answered \in BOOLEAN :
          /\ failures' = failures + (IF typed THEN 0 ELSE 1) + (IF answered THEN 0 ELSE 1)
          /\ failures' <= MaxFailures
          /\ LET allowed == AllowedForWrite(a, IF typed THEN AccountType[a] ELSE "Unknown",
                                            answered /\ a \in writers, inputs.allowedBots)
             IN  access' = [b \in DOMAIN access \cup {a} |-> IF b = a THEN allowed ELSE access[b]]
    /\ Goes(IF DOMAIN access' # Actors(event) THEN "actors"
            ELSE IF Target = "none" THEN "authorize" ELSE "get")
    /\ UNCHANGED <<start, world, changes, command, reading, policy, config>>

ActorsCanWrite == \A a \in Actors(event) : access[a]

-----------------------------------------------------------------------------
(* The snapshot (github/fetch.ts) *)

\* originalEntityText: only the run of a workflow comes without the entity's text.
CarriesText == IsEntity(event)

\* triggerTime.
Cutoff == IF CarriesText THEN Trigger ELSE 0

\* A mutant: what happened in the same second is let in.
SelectedInclusive(list) ==
    LET own == IF event.name = "issue_comment" THEN {OwnComment} ELSE {}
        Before(k) == list[k].created <= Cutoff /\ list[k].updated <= Cutoff
        past == {k \in DOMAIN list \ own : Before(k) /\ list[k].author \notin inputs.excluded}
    IN  [k \in own \cup past |-> IF k \in own THEN 0 ELSE list[k].body]

\* selectBoundedComments: the payload's own comment, and those that are older than the
\* event and not of an excluded author.
Selected(list) ==
    LET own == IF event.name = "issue_comment" THEN {OwnComment} ELSE {}
        Before(k) == list[k].created < Cutoff /\ list[k].updated < Cutoff
        past == {k \in DOMAIN list \ own : Before(k) /\ list[k].author \notin inputs.excluded}
    IN  [k \in own \cup past |-> IF k \in own THEN 0 ELSE list[k].body]

Entity == [text |-> text, open |-> open, head |-> head, touched |-> touched]

\* The first request: pulls.get, or issues.get. The issue of a later reading must be as the
\* first one saw it, and always as in the event.
Get ==
    /\ at = "get"
    /\ bound' = Entity
    /\ IF Target = "pull_request"
       THEN /\ UNCHANGED <<attempt, frozen>>
            /\ IF open /\ (event.name \in PullEvents => head = 0) THEN Goes("list") ELSE Ends("failed")
       ELSE /\ attempt' = attempt + 1
            /\ frozen' = IF frozen = Unread THEN [text |-> text, open |-> open] ELSE frozen
            /\ IF frozen' = [text |-> text, open |-> open] /\ text = 0 THEN Goes("list") ELSE Ends("failed")
    /\ Unmoved /\ UNCHANGED <<command, access, files, shown, policy, config>>

\* The files and the comments of a pull request are asked for at the same time.
AfterList(list, seen) == IF list # Unread /\ seen # Unread THEN "verify" ELSE "list"
ListFiles ==
    /\ at = "list" /\ Target = "pull_request" /\ files = Unread
    /\ files' = head
    /\ Goes(AfterList(files', shown))
    /\ Unmoved /\ UNCHANGED <<command, access, attempt, frozen, bound, shown, policy, config>>
ListComments ==
    /\ at = "list" /\ shown = Unread
    /\ shown' = Selected(comments)
    /\ Goes(IF Target = "issue" THEN "verify" ELSE AfterList(files, shown'))
    /\ Unmoved /\ UNCHANGED <<command, access, attempt, frozen, bound, files, policy, config>>

\* A mutant: the pull request is not read again.
VerifyIssueOnly ==
    /\ at = "verify"
    /\ IF Target = "pull_request"
       THEN Goes("authorize") /\ UNCHANGED <<bound, shown>>
       ELSE IF frozen # [text |-> text, open |-> open] \/ text # 0
       THEN Ends("failed") /\ UNCHANGED <<bound, shown>>
       ELSE IF touched = bound.touched
       THEN Goes("authorize") /\ UNCHANGED <<bound, shown>>
       ELSE /\ bound' = Unread /\ shown' = Unread
            /\ IF attempt = MaxAttempts THEN Ends("failed") ELSE Goes("get")
    /\ Unmoved /\ UNCHANGED <<command, access, attempt, frozen, files, policy, config>>

\* The last request: the pull request must be as it was first read; the issue too, and if
\* only its time changed it is read once more.
Verify ==
    /\ at = "verify"
    /\ IF Target = "pull_request"
       THEN /\ IF head = bound.head /\ open THEN Goes("authorize") ELSE Ends("failed")
            /\ UNCHANGED <<bound, shown>>
       ELSE IF frozen # [text |-> text, open |-> open] \/ text # 0
       THEN Ends("failed") /\ UNCHANGED <<bound, shown>>
       ELSE IF touched = bound.touched
       THEN Goes("authorize") /\ UNCHANGED <<bound, shown>>
       ELSE /\ bound' = Unread /\ shown' = Unread
            /\ IF attempt = MaxAttempts THEN Ends("failed") ELSE Goes("get")
    /\ Unmoved /\ UNCHANGED <<command, access, attempt, frozen, files, policy, config>>

-----------------------------------------------------------------------------
(* The decision *)

Branch == IF ~inputs.baseKnown THEN "unknown" ELSE pull.branch
Resolved == IF Target # "pull_request" THEN "none" ELSE IF pull.fork THEN "fork" ELSE "same"

Authorize ==
    /\ at = "authorize"
    /\ command' = Finalized(event, command, Resolved # "none")
    /\ policy' = EvaluatePolicy(event, command', inputs.allowWrite, ActorsCanWrite, Resolved)
    /\ IF ~OperationFits(event, command', Target, Branch) \/ ~policy'.allowed
       THEN Ends("denied") ELSE Goes("prepare")
    /\ Unmoved /\ UNCHANGED <<access, reading, config>>

\* createGitHubToolBinding; a pull request whose fork is gone has no binding.
Binding == IF IsRun(event) THEN "workflow_run"
           ELSE IF Target = "pull_request" /\ pull.orphan THEN "none" ELSE Target

\* prepareWorkspace and prepareExecution, and then the runner's own admission.
Prepare ==
    /\ at = "prepare"
    /\ config' \in {c \in Configs : ValidConfig(c)}
    /\ IF \/ Materialized(config', policy) /\ Target # "pull_request" /\ ~inputs.baseKnown
          \/ ExecutionRefused(config', policy, command.access, Binding, inputs.allowWrite)
          \/ WorkerRefused(config', policy)
       THEN Ends("denied") ELSE Ends("prepared")
    /\ Unmoved /\ UNCHANGED <<command, access, reading, policy>>

\* A request of the snapshot fails, and with it the run.
RequestFails ==
    /\ at \in {"get", "list", "verify"} /\ failures < MaxFailures
    /\ failures' = failures + 1
    /\ Ends("failed")
    /\ UNCHANGED <<start, world, changes, command, access, reading, policy, config>>

Step == Route \/ CheckActor \/ Get \/ ListFiles \/ ListComments \/ Verify \/ Authorize \/ Prepare
Happens == EditText \/ EditComment \/ AddComment \/ Touch \/ Push \/ Permit
Next == Step \/ Happens \/ RequestFails

Spec == Init /\ [][Next]_vars

-----------------------------------------------------------------------------
(* Properties *)

Prepared == outcome = "prepared"
TrustedActors ==
    \A a \in Actors(event) : a \in wereWriters /\ (AccountType[a] = "User" \/ a \in inputs.allowedBots)

\* The repository's content, a tool, an extension.
Grants == \/ Materialized(config, policy) \/ Plan(config).owners # {}
          \/ Effective(config, policy, Binding, inputs.allowWrite) # {}

\* A place to write, code of the repository to run, a mutation of GitHub.
WritePowers == \/ policy.trust = "trusted-write" \/ WorkerWrites(config, policy)
               \/ Commands(config, policy) # {}
               \/ GitHubTools(config, policy, Binding, inputs.allowWrite) \cap DOMAIN Mutations # {}

\* Through routing, lookups that may fail, a snapshot and three resolutions of the tools
\* (evaluatePolicy, resolveEffectiveTools, runDsh): nothing beyond the packet of text is
\* granted unless every actor, the upstream ones too, had write permission during the run and
\* the content is of this repository, and no power to write unless the workflow opted in and
\* the event, the branch and the pull request allow one.
GrantsAreTrusted ==
    Prepared =>
        /\ Grants \/ command.source = "mention" => TrustedActors
        /\ Grants => ~(Target = "pull_request" /\ pull.fork)
        /\ WritePowers => /\ inputs.allowWrite /\ inputs.baseKnown
                          /\ event.name # "pull_request_target"
                          /\ ~(Target = "pull_request" /\ pull.branch = "protected")
                          /\ IsRun(event) => command.operation = "fix" /\ event.attached

\* filterCommentsToTriggerTime and the two readings around a snapshot: the comments shown are
\* those of the trigger, the issue that the fingerprint binds has the text of the event, and
\* the changed files are those of the bound head, unless the head went away and came back
\* between the two readings, which they cannot tell.
FrozenContext ==
    Prepared =>
        /\ shown # Unread => \A k \in DOMAIN shown : shown[k] = 0
        /\ Target = "issue" => bound.text = 0
        /\ Target = "pull_request" =>
              /\ files = bound.head \/ moved
              /\ event.name \in PullEvents => bound.head = 0

\* The audit of buildPermissionAudit and the worker that the runner derives for itself from the
\* same request agree: what is disallowed is nowhere, every other refusal has its code, and the
\* tools, the write access and the network of the worker are the audited ones; and of what the
\* profile mounts nothing is unknown to the policy plugin, nor allowed without being mounted.
AuditTellsWorker ==
    Prepared =>
        LET audit == Audit(config, policy, Binding, inputs.allowWrite)
            tools == WorkerTools(config, policy)
            mounted == UNION {Registers(row) : row \in MountedRows(tools)}
        IN  /\ audit.effective \cap (config.disallowed \cup DOMAIN audit.denied) = {}
            /\ \A id \in DOMAIN audit.denied : audit.denied[id] # 0
            /\ audit.effective \cap Native = tools
            /\ audit.write <=> WorkerWrites(config, policy)
            /\ Plan(config).network => audit.network = "bridge"
            /\ KnownNames(tools) = mounted /\ AllowedNames(tools) \subseteq mounted
=============================================================================
