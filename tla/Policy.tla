-------------------------------- MODULE Policy --------------------------------
(***************************************************************************)
(* The decisions the Controller makes before it reads a model's answer:    *)
(* which command an event asks for (commands/router.ts), which actors must *)
(* be trusted (github/actors.ts), whether the command fits the entity      *)
(* (orchestration/context.ts) and what it may do (security/policy.ts).     *)
(*                                                                         *)
(* An event is a record: its name and action, the actor, the actors of the *)
(* upstream run, whether it is on a pull request, whether that comes from  *)
(* a fork, the comment body (as ParseCommand sees it), whether its label   *)
(* or assignee is the configured one, whether the pull request is a draft, *)
(* whether the upstream run failed and whether that run has a pull request.*)
(***************************************************************************)
EXTENDS SequencesExt

Operations == {"task", "review", "diagnose", "fix", "implement"}
Accesses == {"read", "write"}
WriteOperations == {"fix", "implement"}

Command(operation, source, access) ==
    [operation |-> operation, source |-> source, access |-> access]
NoCommand == Command("none", "none", "read")

-----------------------------------------------------------------------------
(* The event *)

PullEvents == {"pull_request", "pull_request_target", "pull_request_review",
               "pull_request_review_comment"}
EntityEvents == PullEvents \cup {"issues", "issue_comment"}
CommentEvents == {"issue_comment", "pull_request_review", "pull_request_review_comment"}

IsEntity(event) == event.name \in EntityEvents
IsPull(event) == event.name \in PullEvents \/ (event.name = "issue_comment" /\ event.onPull)
IsRun(event) == event.name = "workflow_run"

\* getActorsToCheck: whoever triggered this run and, for a workflow_run, the other one.
Actors(event) == {event.actor} \cup (IF IsRun(event) THEN event.upstream ELSE {})

-----------------------------------------------------------------------------
(* Routing: the first of these that asks for something *)

Explicit(inputs) ==
    IF inputs.command = "auto" THEN NoCommand
    ELSE Command(inputs.command, "explicit-input",
                 IF inputs.command = "task" THEN inputs.taskAccess
                 ELSE IF inputs.command \in WriteOperations THEN "write" ELSE "read")

\* parseCommand: the word after the phrase on the first line, no phrase on a later one,
\* and for a task an access flag, if any, that is known, and instructions.
ParseCommand(body) ==
    IF \/ body.again
       \/ body.word \notin Operations
       \/ body.word = "task" /\ (body.flag = "other" \/ ~body.text)
    THEN NoCommand
    ELSE Command(body.word, "mention",
                 IF \/ body.word \in WriteOperations
                    \/ body.word = "task" /\ body.flag = "write"
                 THEN "write" ELSE "read")

Mention(event) == IF event.name \in CommentEvents THEN ParseCommand(event.body) ELSE NoCommand

ConfiguredTrigger(event, inputs) ==
    IF ~IsEntity(event) \/ ~event.matches THEN NoCommand
    ELSE IF IsPull(event) THEN Command("review", "automatic-event", "read")
    ELSE Command("task", "automatic-event", inputs.taskAccess)

AutomaticReview(event) ==
    IF /\ event.name \in {"pull_request", "pull_request_target"}
       /\ event.action \in {"opened", "synchronize", "ready_for_review", "reopened"}
    THEN Command("review", "automatic-event", "read")
    ELSE NoCommand

CompletedRun(event, inputs) ==
    IF ~IsRun(event) \/ event.action # "completed" THEN NoCommand
    ELSE IF inputs.allowWrite THEN Command("fix", "automatic-event", "write")
    ELSE Command("diagnose", "automatic-event", "read")

Prompted(event, inputs) ==
    IF ~IsEntity(event) /\ inputs.prompt THEN Command("task", "explicit-prompt", inputs.taskAccess)
    ELSE NoCommand

RouteCommand(event, inputs) ==
    LET ways == <<Explicit(inputs), Mention(event), ConfiguredTrigger(event, inputs),
                  AutomaticReview(event), CompletedRun(event, inputs), Prompted(event, inputs)>>
        first == SelectInSeq(ways, LAMBDA way : way # NoCommand)
    IN  IF Actors(event) \subseteq inputs.allowedActors /\ first # 0 THEN ways[first] ELSE NoCommand

\* Nothing to do, a run that did not fail, a draft.
Neutral(event, command) ==
    \/ command = NoCommand
    \/ command.source = "automatic-event" /\ IsRun(event) /\ ~event.failed
    \/ command.source = "automatic-event" /\ event.name \in PullEvents /\ event.draft

\* finalizeWorkflowRunRoute: without a pull request a failed run is only diagnosed.
Finalized(event, command, hasPull) ==
    IF /\ IsRun(event) /\ command.source = "automatic-event"
       /\ command.operation = "fix" /\ ~hasPull
    THEN Command("diagnose", command.source, "read")
    ELSE command

-----------------------------------------------------------------------------
(* What the command may do. A target is what the snapshot is of: an issue, *)
(* a pull request or "none".                                               *)

\* assertOperationContext; the branch is what a write to the target would move: "unknown"
\* when the base branch is, "protected" for the default or the base branch, or "free".
OperationFits(event, command, target, branch) ==
    /\ command.operation = "implement" => target = "issue"
    /\ command.operation \in {"review", "fix"} => target = "pull_request"
    /\ command.operation = "diagnose" => target = "pull_request" \/ IsRun(event)
    /\ (command.operation \in {"task", "fix", "implement"} /\ command.access = "write")
           => branch # "unknown" /\ ~(target = "pull_request" /\ branch = "protected")

\* getActorAccess and allActorsAllowedForWrite, for one actor: what its lookups said.
AllowedForWrite(actor, type, writer, allowedBots) ==
    IF type = "User" THEN writer ELSE writer /\ actor \in allowedBots

\* A mutant: only the pull request of the event is asked for its origin.
OriginOfEvent(event, resolved) ==
    IF event.name \in PullEvents /\ event.fork THEN "fork" ELSE "same"

\* sameRepositoryState; resolved is "none", "same" or "fork".
Origin(event, resolved) ==
    IF IsRun(event) THEN IF resolved = "none" THEN "unknown" ELSE resolved
    ELSE IF ~IsPull(event) THEN "same"
    ELSE IF event.name \in PullEvents THEN IF event.fork THEN "fork" ELSE "same"
    ELSE IF resolved = "none" THEN "unknown" ELSE resolved

Denied == [trust |-> "untrusted", allowed |-> FALSE, capabilities |-> {}]

ReadCapabilities(command, trusted) ==
    {"readRepository", "publishComments"}
        \cup (IF command.operation \in {"diagnose", "fix"} THEN {"readCi"} ELSE {})
        \cup (IF trusted THEN {"loadExtensions", "accessNetwork"} ELSE {})

WriteCapabilities(event, command) ==
    {"readRepository", "publishComments", "executeRepositoryCode", "loadExtensions",
     "accessNetwork", "modifyWorkspace", "commit", "push", "manageIssueLabels",
     "manageIssueAssignees", "updateIssueState", "updatePullRequestMetadata"}
        \cup (IF command.operation = "fix" THEN {"readCi"} ELSE {})
        \cup (IF \/ command.operation = "implement"
                 \/ command.operation = "task" /\ ~IsPull(event)
              THEN {"createPullRequest"} ELSE {})

\* evaluatePolicy: reading is always allowed, unless a mention by someone untrusted asks
\* for it; writing needs every gate.
EvaluatePolicy(event, command, allowWrite, actorsCanWrite, resolved) ==
    LET origin == Origin(event, resolved)
        trusted == origin = "same" /\ actorsCanWrite
        writes == command.access = "write"
        autoFix == command.operation = "fix" /\ resolved # "none"
    IN  IF \/ command.source = "mention" /\ ~actorsCanWrite
           \/ writes /\ \/ ~allowWrite
                        \/ IsRun(event) /\ ~autoFix
                        \/ event.name = "pull_request_target"
                        \/ ~trusted
        THEN Denied
        ELSE [trust |-> IF ~trusted THEN "untrusted" ELSE IF writes THEN "trusted-write" ELSE "trusted-read",
              allowed |-> TRUE,
              capabilities |-> IF writes THEN WriteCapabilities(event, command)
                               ELSE ReadCapabilities(command, trusted)]
=============================================================================
