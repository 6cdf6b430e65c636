------------------------------- MODULE ToolPlan -------------------------------
(***************************************************************************)
(* The tools a run grants, told three times by three parts of the code:    *)
(* the Controller resolves them against the policy (tools/registry.ts,     *)
(* extensions/plan.ts) and writes the audit (permissions/profile.ts), the  *)
(* runner derives them again for the worker (dsh/runner-policy.ts), and    *)
(* the worker's profile mounts and allows them (extensions/profile.ts).    *)
(*                                                                         *)
(* A configuration is a record: mode, isolation, profile, the allowed and  *)
(* the disallowed tools, the command tools, the owners of extensions (MCP  *)
(* servers, bundles, plugins) and whether packages may be installed.       *)
(***************************************************************************)
EXTENDS SequencesExt

Workspace == {"workspace.read", "workspace.search", "workspace.edit"}
Autonomy == {"native.bash", "native.web-search", "native.subagent"}
Native == Workspace \cup Autonomy

ProfileTools == [strict |-> Workspace, standard |-> Native, custom |-> {}]

\* github-catalog.ts: what the mutation may be on, and the capability it takes.
Mutations == [id \in {"labels.set", "assignees.set", "state.update", "comment.create", "metadata.update"} |->
    CASE id = "labels.set" -> [on |-> {"issue", "pull_request"}, takes |-> "manageIssueLabels"]
      [] id = "assignees.set" -> [on |-> {"issue", "pull_request"}, takes |-> "manageIssueAssignees"]
      [] id = "state.update" -> [on |-> {"issue"}, takes |-> "updateIssueState"]
      [] id = "comment.create" -> [on |-> {"issue", "pull_request"}, takes |-> "publishComments"]
      [] id = "metadata.update" -> [on |-> {"pull_request"}, takes |-> "updatePullRequestMetadata"]]
GitHub == DOMAIN Mutations \cup {"checks.read"}

\* capabilities.ts: who may have a builtin tool, and what the policy must allow.
Writing == {"trusted-write"}
Trusted == {"trusted-read", "trusted-write"}
Contract == [id \in Native |->
    CASE id \in {"workspace.read", "workspace.search"} -> [trust |-> Trusted, takes |-> {"readRepository"}]
      [] id = "workspace.edit" -> [trust |-> Writing, takes |-> {"modifyWorkspace"}]
      [] id = "native.bash" -> [trust |-> Writing, takes |-> {"executeRepositoryCode", "modifyWorkspace"}]
      [] id = "native.web-search" -> [trust |-> Trusted, takes |-> {"accessNetwork"}]
      [] id = "native.subagent" -> [trust |-> Writing, takes |-> {"readRepository", "modifyWorkspace"}]]

-----------------------------------------------------------------------------
(* The configuration *)

CommandIds(config) == {command.id : command \in config.commands}
ToolsOf(owners) == UNION {owner.tools : owner \in owners}
ToolIds(owners) == {tool.id : tool \in ToolsOf(owners)}

\* What extensions/schema.ts asks of the tools that an owner declares: all read, since they
\* share the Agent's process; they agree on writing; and they use the network as it does.
Readable(owner) == \A tool \in owner.tools : "read" \in tool.permissions
WritesAlike(owner) ==
    \A a, b \in owner.tools : "workspace-write" \in a.permissions => "workspace-write" \in b.permissions
NetworkDeclared(owner) == \A tool \in owner.tools : ("network" \in tool.permissions) <=> owner.network

Defined(config) == Native \cup GitHub \cup CommandIds(config)
DefinedByOwners(config) == IF config.mode = "native" THEN {} ELSE ToolIds(config.owners)

\* loadInputs: the combinations it refuses, and the tools nobody defines.
ValidConfig(config) ==
    /\ config.mode = "native" => config.isolation = "docker"
    /\ config.profile = "strict" => config.allowed \cap Autonomy = {}
    /\ config.mode = "controlled" /\ config.profile = "standard" => config.owners = {}
    /\ config.allowed \cup config.disallowed \subseteq Defined(config) \cup DefinedByOwners(config)
    /\ config.mode = "controlled" => \A owner \in config.owners :
           Readable(owner) /\ WritesAlike(owner) /\ NetworkDeclared(owner)

\* resolvePermissionRequest.
Requested(config) == ProfileTools[config.profile] \cup config.allowed
\* A mutant: a tool of the preset cannot be disallowed.
ConsideredOfPreset(config) == ProfileTools[config.profile] \cup (config.allowed \ config.disallowed)

Considered(config) == Requested(config) \ config.disallowed

-----------------------------------------------------------------------------
(* What the policy grants of it *)

Builtin(config, policy) ==
    {id \in Considered(config) \cap Native :
        /\ policy.allowed /\ config.isolation = "docker"
        /\ policy.trust \in Contract[id].trust
        /\ Contract[id].takes \subseteq policy.capabilities}

Commands(config, policy) ==
    {command \in config.commands :
        /\ "executeRepositoryCode" \in policy.capabilities
        /\ command.id \in Considered(config)
        /\ command.write => "modifyWorkspace" \in policy.capabilities
        /\ command.network => "accessNetwork" \in policy.capabilities}

GitHubTools(config, policy, target, allowWrite) ==
    {id \in Considered(config) \cap GitHub :
        IF id = "checks.read"
        THEN /\ policy.allowed /\ policy.trust # "untrusted"
             /\ "readCi" \in policy.capabilities
             /\ target \in {"pull_request", "workflow_run"}
        ELSE /\ policy.allowed /\ policy.trust = "trusted-write" /\ allowWrite
             /\ Mutations[id].takes \in policy.capabilities
             /\ target \in Mutations[id].on}

\* The owners whose code the worker loads, each with the tools that are asked for. Only they
\* say whether it writes; natively, DSH itself finds the tools, and the owner says it.
ControlledPlan(config) ==
    LET Asked(owner) == {tool \in owner.tools : tool.id \in Considered(config)}
        Loaded(owner) == [id |-> owner.id, kind |-> owner.kind, network |-> owner.network,
                          tools |-> Asked(owner),
                          write |-> \E tool \in Asked(owner) : "workspace-write" \in tool.permissions]
        active == {Loaded(owner) : owner \in {o \in config.owners : Asked(o) # {}}}
    IN  [owners |-> active, tools |-> ToolIds(active)]
NativePlan(config) == [owners |-> config.owners, tools |-> {}]

Plan(config) ==
    LET plan == IF config.mode = "native" THEN NativePlan(config) ELSE ControlledPlan(config)
    IN  [owners |-> plan.owners, tools |-> plan.tools,
         network |-> \E owner \in plan.owners : owner.network,
         write |-> \E owner \in plan.owners : owner.write]

\* What any extension takes, and what a writing or a networked one takes besides.
Untrusted(policy) ==
    \/ ~policy.allowed \/ policy.trust = "untrusted"
    \/ ~({"readRepository", "loadExtensions"} \subseteq policy.capabilities)
MayNotWrite(policy) == policy.trust # "trusted-write" \/ "modifyWorkspace" \notin policy.capabilities
MayNotConnect(policy) == "accessNetwork" \notin policy.capabilities

ToolRefused(tool, policy) ==
    \/ Untrusted(policy)
    \/ "workspace-write" \in tool.permissions /\ MayNotWrite(policy)
    \/ "network" \in tool.permissions /\ MayNotConnect(policy)

\* Owners share one worker, with one network and one mount.
OwnersClash(owners) == \E a, b \in owners : a.network # b.network \/ a.write # b.write
Installs(config, owners) == ~config.install /\ \E owner \in owners : owner.kind # "mcp"

ControlledRefused(config, policy) ==
    LET owners == ControlledPlan(config).owners
    IN  \/ \E tool \in ToolsOf(owners) : ToolRefused(tool, policy)
        \/ Installs(config, owners)
        \/ OwnersClash(owners)
        \/ policy.trust = "trusted-write" /\ \E owner \in owners : ~owner.write

NativeRefused(config, policy) ==
    /\ config.owners # {}
    /\ \/ Untrusted(policy)
       \/ Plan(config).network /\ MayNotConnect(policy)
       \/ Plan(config).write /\ MayNotWrite(policy)
       \/ Installs(config, config.owners)

\* An extension that may not be loaded ends the run, it is not left out.
PlanRefused(config, policy) ==
    IF config.mode = "native" THEN NativeRefused(config, policy) ELSE ControlledRefused(config, policy)

\* prepareWorkspace: the repository is there, or nothing is.
Materialized(config, policy) ==
    policy.trust = "trusted-write" \/ (policy.trust = "trusted-read" /\ config.isolation = "docker")

\* prepareExecution.
ExecutionRefused(config, policy, access, target, allowWrite) ==
    \/ PlanRefused(config, policy)
    \/ config.mode = "controlled" /\ Plan(config).network /\ "native.bash" \in Builtin(config, policy)
    \/ access = "write" /\ "workspace.edit" \notin Builtin(config, policy)
    \/ /\ GitHubTools(config, policy, target, allowWrite) \cap DOMAIN Mutations # {}
       /\ ~Materialized(config, policy)

-----------------------------------------------------------------------------
(* The audit *)

Precedence == <<"EXPLICIT_DENY", "TRUST_REQUIRED", "ISOLATION_REQUIRED", "CAPABILITY_NOT_GRANTED",
                "BINDING_UNAVAILABLE", "PROVIDER_UNAVAILABLE">>

\* What each of the boundaries says of a tool it does not grant.
Grounds(id, config, policy, target, allowWrite) ==
    LET If(condition, code) == IF condition THEN {code} ELSE {}
        Lacks(capabilities) == If(~(capabilities \subseteq policy.capabilities), "CAPABILITY_NOT_GRANTED")
        Needs(trust) == If(~policy.allowed \/ policy.trust \notin trust, "TRUST_REQUIRED")
    IN  CASE id \in config.disallowed -> {"EXPLICIT_DENY"}
          [] id \in Native \ config.disallowed ->
                Needs(Contract[id].trust) \cup Lacks(Contract[id].takes)
                    \cup If(config.isolation # "docker", "ISOLATION_REQUIRED")
          [] id = "checks.read" /\ id \notin config.disallowed ->
                Needs(Trusted) \cup Lacks({"readCi"})
                    \cup If(target \notin {"pull_request", "workflow_run"}, "BINDING_UNAVAILABLE")
          [] id \in DOMAIN Mutations \ config.disallowed ->
                Needs(Writing) \cup Lacks({Mutations[id].takes})
                    \cup If(~allowWrite, "CAPABILITY_NOT_GRANTED")
                    \cup If(target \notin Mutations[id].on, "BINDING_UNAVAILABLE")
          [] id \in CommandIds(config) \ config.disallowed ->
                LET command == CHOOSE c \in config.commands : c.id = id
                IN  Needs(Writing) \cup Lacks({"executeRepositoryCode"})
                        \cup (IF command.write THEN Lacks({"modifyWorkspace"}) ELSE {})
                        \cup (IF command.network THEN Lacks({"accessNetwork"}) ELSE {})
          [] OTHER -> {"PROVIDER_UNAVAILABLE"}

Effective(config, policy, target, allowWrite) ==
    Builtin(config, policy) \cup {command.id : command \in Commands(config, policy)}
        \cup GitHubTools(config, policy, target, allowWrite) \cup Plan(config).tools

\* buildPermissionAudit.
Audit(config, policy, target, allowWrite) ==
    LET effective == Effective(config, policy, target, allowWrite)
        Code(id) == SelectInSeq(Precedence,
                        LAMBDA code : code \in Grounds(id, config, policy, target, allowWrite))
        commands == Commands(config, policy)
    IN  [effective |-> effective,
         denied |-> [id \in Requested(config) \ effective |-> Code(id)],
         network |-> IF (\E command \in commands : command.network) \/ Plan(config).network THEN "bridge"
                     ELSE IF config.mode = "native" \/ "native.web-search" \in effective
                     THEN "mediated-web" ELSE "host-gateway",
         write |-> \/ "workspace.edit" \in effective
                   \/ \E command \in commands : command.write
                   \/ config.mode = "controlled" /\ Plan(config).write]

-----------------------------------------------------------------------------
(* The worker *)

\* effectiveNativeTools.
WorkerTools(config, policy) ==
    {id \in Builtin(config, policy) :
        /\ policy.trust # "untrusted" /\ config.isolation = "docker"
        /\ policy.trust = "trusted-write"
             \/ id \notin {"workspace.edit", "native.bash", "native.subagent"}}

\* workerWorkspaceWrite.
WorkerWrites(config, policy) ==
    IF config.mode = "native" THEN policy.trust = "trusted-write"
    ELSE "workspace.edit" \in WorkerTools(config, policy) \/ Plan(config).write

\* runDsh, before anything is created.
WorkerRefused(config, policy) ==
    LET plan == Plan(config)
    IN  \/ config.isolation = "none" /\ (policy.trust # "trusted-read" \/ plan.owners # {})
        \/ plan.owners # {} /\ policy.trust = "untrusted"
        \/ config.mode = "native" /\ plan.write /\ policy.trust # "trusted-write"
        \/ /\ config.mode = "controlled" /\ plan.network
           /\ "native.bash" \in WorkerTools(config, policy)

RuntimeTools == [id \in Native |->
    CASE id = "workspace.read" -> {"read", "read_image"}
      [] id = "workspace.search" -> {"glob", "grep"}
      [] id = "workspace.edit" -> {"write", "edit", "str_replace_editor"}
      [] id = "native.bash" -> {"bash"}
      [] id = "native.web-search" -> {"web_search"}
      [] id = "native.subagent" -> {"subagent"}]

\* nativeRules and knownNativeRuntimeTools: what the worker's policy plugin lets through,
\* and what it expects to find registered.
AllowedNames(tools) == UNION {RuntimeTools[id] : id \in tools}
KnownNames(tools) ==
    (IF tools \cap {"workspace.read", "workspace.edit"} # {} THEN {"read", "read_image", "write", "edit"} ELSE {})
        \cup (IF "workspace.edit" \in tools THEN {"str_replace_editor"} ELSE {})
        \cup UNION {RuntimeTools[id] : id \in tools \cap ({"workspace.search"} \cup Autonomy)}

\* controlledRows: the DSH packages that are left enabled, and the tools they register.
MountedRows(tools) ==
    {"tool-fs", "tool-fs-search", "tool-str-replace-editor", "tool-bash", "tool-subagent", "tool-web"} \ (
        (IF "native.bash" \notin tools THEN {"tool-bash"} ELSE {})
            \cup (IF "native.subagent" \notin tools THEN {"tool-subagent"} ELSE {})
            \cup (IF "native.web-search" \notin tools THEN {"tool-web"} ELSE {})
            \cup (IF tools \cap {"workspace.read", "workspace.edit"} = {} THEN {"tool-fs"} ELSE {})
            \cup (IF "workspace.search" \notin tools THEN {"tool-fs-search"} ELSE {})
            \cup (IF "workspace.edit" \notin tools THEN {"tool-str-replace-editor"} ELSE {}))
Registers(row) ==
    CASE row = "tool-fs" -> {"read", "read_image", "write", "edit"}
      [] row = "tool-fs-search" -> {"glob", "grep"}
      [] row = "tool-str-replace-editor" -> {"str_replace_editor"}
      [] row = "tool-bash" -> {"bash"}
      [] row = "tool-subagent" -> {"subagent"}
      [] row = "tool-web" -> {"web_search"}
=============================================================================
