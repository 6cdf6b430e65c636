--------------------------- MODULE MCRunAdmission ---------------------------
(* One event of each kind that routing or the policy tells apart, by one user, *)
(* with a bot upstream of the workflow_run.                                    *)
EXTENDS RunAdmission

MCPeople == {"user", "bot"}
MCAccountType == [user |-> "User", bot |-> "Bot"]

Said(word, flag) == [word |-> word, again |-> FALSE, flag |-> flag, text |-> TRUE]
Plain == Said("none", "none")

On(name) ==
    [name |-> name, action |-> "created", actor |-> "user", upstream |-> {}, onPull |-> FALSE,
     fork |-> FALSE, body |-> Plain, matches |-> FALSE, draft |-> FALSE, failed |-> FALSE,
     attached |-> FALSE]
Comment(body, onPull) == [On("issue_comment") EXCEPT !.body = body, !.onPull = onPull]
Opened(name, fork) == [On(name) EXCEPT !.action = "opened", !.fork = fork]
Completed(attached) ==
    [On("workflow_run") EXCEPT !.action = "completed", !.failed = TRUE, !.attached = attached,
                               !.upstream = {"bot"}]

MCEvents == {
    Comment(Said("task", "write"), TRUE), Comment(Said("task", "write"), FALSE),
    Comment(Said("implement", "none"), FALSE), Comment(Said("diagnose", "none"), TRUE),
    Comment(Plain, FALSE), [Comment(Said("fix", "none"), TRUE) EXCEPT !.actor = "bot"],
    [On("issues") EXCEPT !.matches = TRUE],
    Opened("pull_request", FALSE), Opened("pull_request", TRUE),
    [Opened("pull_request", FALSE) EXCEPT !.draft = TRUE],
    Opened("pull_request_target", FALSE), Opened("pull_request_target", TRUE),
    Completed(TRUE), Completed(FALSE), On("workflow_dispatch")}

Input(word, mode, writes, bots) ==
    [command |-> word, taskAccess |-> mode, allowWrite |-> writes, allowedBots |-> bots,
     allowedActors |-> MCPeople, excluded |-> {}, prompt |-> TRUE, baseKnown |-> TRUE]

MCInputs == {
    Input("auto", "write", TRUE, {"bot"}), Input("auto", "read", FALSE, {}),
    Input("task", "write", TRUE, {}),
    [Input("auto", "write", TRUE, {}) EXCEPT !.excluded = {"other"}, !.allowedActors = {"user"}],
    [Input("task", "write", TRUE, {"bot"}) EXCEPT !.baseKnown = FALSE]}

MCPulls == {
    [fork |-> FALSE, branch |-> "free", orphan |-> FALSE],
    [fork |-> FALSE, branch |-> "protected", orphan |-> FALSE],
    [fork |-> TRUE, branch |-> "free", orphan |-> FALSE]}

Tool(id, permissions) == [id |-> id, permissions |-> permissions]
Server(network, write) ==
    [id |-> "server", kind |-> "mcp", network |-> network, write |-> write,
     tools |-> {Tool("mcp.server.a", {"read"} \cup (IF network THEN {"network"} ELSE {})
                                              \cup (IF write THEN {"workspace-write"} ELSE {}))}]
Package == [id |-> "package", kind |-> "plugin", network |-> FALSE, write |-> TRUE,
            tools |-> {Tool("plugin.package.b", {"read", "workspace-write"})}]
Lint == [id |-> "command.lint", write |-> FALSE, network |-> FALSE]
Fetch == [id |-> "command.fetch", write |-> TRUE, network |-> TRUE]

Config(mode, profile, allowed, owners) ==
    [mode |-> mode, isolation |-> "docker", profile |-> profile, allowed |-> allowed,
     disallowed |-> {}, commands |-> {Lint, Fetch}, owners |-> owners, install |-> TRUE]

MCConfigs ==
    LET Strict == Config("controlled", "strict", {"command.lint", "comment.create", "checks.read"}, {})
        Ext(owners) == Config("controlled", "custom", Workspace \cup {"native.bash"} \cup ToolIds(owners), owners)
    IN  {Strict, [Strict EXCEPT !.isolation = "none"],
         [Strict EXCEPT !.disallowed = {"comment.create", "workspace.search"}],
         [Strict EXCEPT !.disallowed = {"workspace.edit"}],
         Config("controlled", "standard", GitHub \cup {"command.fetch"}, {}),
         Config("controlled", "custom", {"native.web-search", "workspace.read"}, {}),
         Config("controlled", "custom", {"workspace.edit", "comment.create"}, {}),
         Ext({Server(FALSE, TRUE)}), Ext({Server(TRUE, TRUE)}), Ext({Server(FALSE, FALSE)}),
         [Ext({Server(TRUE, FALSE)}) EXCEPT !.disallowed = {"native.bash"}, !.isolation = "none"],
         [Ext({Server(TRUE, FALSE)}) EXCEPT !.disallowed = {"native.bash"}],
         [Ext({Server(TRUE, TRUE)}) EXCEPT !.disallowed = {"native.bash"}],
         [Ext({Server(TRUE, TRUE), Package}) EXCEPT !.disallowed = {"native.bash"}],
         Ext({Server(FALSE, TRUE), Package}), [Ext({Package}) EXCEPT !.install = FALSE],
         [Ext({Server(FALSE, TRUE)}) EXCEPT !.disallowed = {"mcp.server.a"}],
         Config("native", "strict", {"command.fetch"}, {}),
         Config("native", "standard", {}, {[Server(TRUE, TRUE) EXCEPT !.tools = {}]}),
         Config("native", "strict", {}, {[Server(TRUE, FALSE) EXCEPT !.tools = {}]})}
=============================================================================
