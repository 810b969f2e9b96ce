---------------------------- MODULE MCPolicyCheck ----------------------------
(* Small policies, and for each agent the rules that are near its entries. *)
EXTENDS PolicyCheck

MCParts == STRING
MCUnderscored == "my.server" :> "my_server"

MCConcrete ==
    [commands |-> {<<"git", "push">>, <<"git", "push", "origin">>, <<"git", "push", "origin", "main">>,
                   <<"git", "push", "--force">>, <<"git", "status">>},
     read  |-> {<<".env">>, <<"a", ".env">>, <<"a", "b", ".env">>, <<"~", ".ssh", "id">>, <<"~", ".ssh", "old", "id">>, <<"gen", "x">>, <<"gen", "a", "x">>},
     write |-> {<<"gen", "x">>, <<"gen", "a", "x">>, <<"a", "gen", "x">>, <<"src", "x">>, <<"~", ".ssh", "id">>},
     fetch |-> {<<"ex", "com">>, <<"api", "ex", "com">>, <<"a", "b", "ex", "com">>, <<"org">>},
     (* server, then the parts of the tool's name *)
     mcp   |-> {<<"github", "delete", "repo">>, <<"github", "delete", "file">>, <<"github", "get", "repo">>,
                <<"my.server", "delete", "repo">>}]
MCRequests == [c \in Categories |-> MCConcrete[IF c = "mcp-tools" THEN "mcp" ELSE c]]
-----------------------------------------------------------------------------
E(category, v) == [category |-> category, v |-> v]
Push == <<"git", "push">>
Env  == <<"**", ".env">>
Ssh  == <<"~", ".ssh", "**">>
Gen  == <<"gen", "**">>
Ex   == <<"*", "ex", "com">>
Delete == <<"github", "delete", "*">>
DeleteRepo == <<"github", "delete", "repo">>

NoSource == [shared |-> {}, own |-> {}]
S(key, value, action) == [key |-> key, value |-> value, action |-> action]
Policy(deny, forbid, source) == [deny |-> deny, forbid |-> forbid, shared |-> source.shared, own |-> source.own]
Try(a, p, rules) == [agent |-> a, policy |-> p, pool |-> rules]

Commands == Policy({E("commands", Push)}, {E("commands", Push)}, NoSource)
Tools    == Policy({E("mcp-tools", Delete)}, {E("mcp-tools", Delete)}, NoSource)
Repo     == Policy({E("mcp-tools", DeleteRepo)}, {E("mcp-tools", Delete)}, NoSource)
Paths    == Policy({E("read", Env), E("read", Ssh)}, {}, NoSource)
Same     == Policy({E("write", Gen), E("read", Gen)}, {}, NoSource)
Fetch    == Policy({E("fetch", Ex)}, {}, NoSource)

D(tool, arg) == Rule(tool, arg, "deny", "")
A(tool, arg) == Rule(tool, arg, "allow", "")
-----------------------------------------------------------------------------
Mismatch == Rule("type mismatch", <<>>, "", "")
Claude == LET a == "claude-code" IN
    {Try(a, Commands, {D("Bash", <<"git", ":*">>), D("Bash", Push), D("Bash", <<"git", "push", "origin", "*">>),
                       A("Bash", <<"git", "push", "origin">>), A("Bash", <<"git", "*">>)}),
     Try(a, Tools,    {D("mcp", <<"github">>), D("mcp", <<"github", "get", "*">>), A("mcp", <<"github", "*">>), A("mcp", DeleteRepo),
                       Mismatch}),
     Try(a, Paths,    {D("Read", <<".env">>), D("Read", <<"**">>), D("Read", <<"~", "**">>), D("Edit", Env)}),
     Try(a, Same,     {D("Read", Gen), D("Edit", <<"**">>), D("Edit", <<"gen", "a", "**">>)}),
     Try(a, Fetch,    {D("WebFetch", <<"*", "com">>), D("WebFetch", <<"ex", "com">>), D("WebFetch", <<>>), Mismatch})}
Devin == LET a == "devin" IN
    {Try(a, Commands, {D("Exec", <<"git">>), D("Exec", <<"git", "push", "origin">>), D("exec", <<>>), A("Exec", <<"git", "push", "origin">>)}),
     Try(a, Tools,    {D("mcp", <<"github">>), D("mcp", <<"github", "*">>), A("mcp", DeleteRepo), A("mcp", <<"*">>)}),
     Try(a, Paths,    {D("Read", Env), D("read", <<>>), D("Read", <<"**">>), D("Read", <<"~", ".ssh", "old", "**">>)}),
     Try(a, Same,     {D("Write", <<"**">>), D("Read", <<"gen", "a", "**">>), D("edit", <<>>)}),
     Try(a, Fetch,    {D("Fetch domain", <<"ex", "com">>), D("Fetch url", <<"*", "com">>), D("Fetch url", <<"*">>)})}
Cursor == LET a == "cursor-cli" IN
    {Try(a, Commands, {D("Shell", <<"git", "push", "*">>), D("Shell", <<"git", "push", ":*">>), D("Bash", <<"git", ":*">>), A("Shell", <<"git">>)}),
     Try(a, Tools,    {D("Mcp", <<"*", "*">>), D("Mcp", <<"github", "get", "*">>), A("Mcp", <<"github", "*">>), A("Mcp", DeleteRepo)}),
     Try(a, Paths,    {D("Read", <<"**">>), D("Read", <<".env">>), D("Read", <<"**", ".ssh", "**">>), D("Read", <<"gen", "**">>)}),
     Try(a, Same,     {D("Write", <<"**", "gen", "**">>), D("Read", <<"gen", "**">>), D("Write", <<"**">>)}),
     Try(a, Fetch,    {D("WebFetch", <<>>)})}
Qwen == LET a == "qwen-code" IN
    {Try(a, Commands, {D("Bash", <<"git", "*">>), D("Shell", Push), D("ShellTool", <<"git", "push", "origin">>), D("Bash", <<"*", "push", "*">>),
                       A("Bash", <<"git", "push", "--force">>)}),
     Try(a, Tools,    {D("mcp", <<"github">>), A("mcp", <<"*">>), A("mcp", DeleteRepo)}),
     Try(a, Paths,    {D("Read", <<".", "gen", "**">>), D("Read", Env), D("read_file", <<>>), D("Read", <<"**">>)}),
     Try(a, Same,     {D("Edit", <<>>), D("Read", <<"/", "gen", "**">>), D("edit", <<"gen", "a", "**">>)}),
     Try(a, Fetch,    {D("WebFetch", <<"ex", "com">>), D("WebFetch", <<"*", "ex", "com">>), D("WebFetch", <<"com">>)})}
Grok == LET a == "grok"
            G(tool, arg, effect, where) == Rule(tool, arg, effect, where) IN
    {Try(a, Commands, {G("Bash", <<"git", "push", "*">>, "deny", "rules"), G("Bash", <<"git", ":*">>, "deny", "rules"),
                       G("Bash", <<"git", "*">>, "deny", "compact"), G("Bash", <<"git", "push", "origin">>, "allow", "compact")}),
     Try(a, Tools,    {G("mcp", <<"github">>, "deny", "claude"), G("MCPTool", <<"github", "get", "repo">>, "deny", "compact"),
                       G("MCPTool", DeleteRepo, "allow", "rules"), G("mcp", <<"github", "*">>, "allow", "claude")}),
     Try(a, Paths,    {G("Read", <<"**", ".ssh", "**">>, "deny", "rules"), G("Read", Env, "deny", "rules"), G("Read", Ssh, "deny", "compact")}),
     Try(a, Same,     {G("Edit", Gen, "deny", "claude"), G("Write", <<"*">>, "deny", "rules"), G("Read", <<"gen", "a", "**">>, "deny", "compact"),
                       G("Read", <<".", "gen", "**">>, "deny", "rules")}),
     Try(a, Fetch,    {G("WebFetch", <<>>, "deny", "rules"), G("WebFetch", Ex, "deny", "compact"), G("WebFetch", <<"com">>, "deny", "compact"),
                       G("WebFetch", <<"www", "ex", "com">>, "deny", "claude")})}
-----------------------------------------------------------------------------
LastMatch == {"", "agent.build"}
OpenCode == UNION {
    {Try(a, Commands, {Rule(<<"bash">>, <<"git", "push", "...">>, x, w) : x \in {"allow", "deny"}, w \in LastMatch}
                      \cup {Rule(<<"bash">>, <<"git", "push", "--force">>, "allow", ""), Rule(<<"*">>, <<"*">>, "deny", "")}),
     Try(a, Tools,    {Rule(<<"github", "*">>, <<"*">>, x, "") : x \in {"allow", "deny"}} \cup
                      {Rule(<<"*">>, <<"*">>, "deny", "agent.build")}),
     Try(a, Repo,     {Rule(<<"github", "*">>, <<"*">>, "deny", ""), Rule(DeleteRepo, <<"*">>, "allow", ""), Rule(<<"*">>, <<"*">>, "ask", "")}),
     Try(a, Paths,    {Rule(<<"read">>, Env, "deny", ""), Rule(<<"*">>, <<"*">>, "allow", "agent.build"),
                       Rule(<<"external_directory">>, <<"*">>, "deny", "")}),
     Try(a, Same,     {Rule(<<"edit">>, <<"gen", "*">>, "deny", ""), Rule(<<"*">>, <<"*">>, "allow", "")}),
     Try(a, Fetch,    {Rule(<<"webfetch">>, <<"*">>, x, w) : x \in {"allow", "deny"}, w \in LastMatch})} : a \in Ordered}
Codex == LET a == "codex"  profile == Rule("default_permissions", <<>>, "on", "")  server == Rule("server", <<"github">>, "on", "") IN
    {Try(a, Commands, {Rule("prefix_rule", <<"git">>, "forbidden", ""), A("prefix_rule", <<"git">>), A("prefix_rule", <<"git", "push", "--force">>),
                       Rule("prefix_rule", <<"git", "push", "origin">>, "forbidden", "")}),
     Try(a, Repo,     {server, A("approve", <<"github">>), A("approve", DeleteRepo), Rule("enabled_tools", <<"github", "get", "repo">>, "on", "")}),
     Try(a, Paths,    {profile, D("filesystem", <<"~", ".ssh">>), D("filesystem", <<":workspace_roots">>), Rule("workspace", Env, "none", "")}),
     Try(a, Same,     {profile, Rule("workspace", Gen, "read", ""), D("workspace", <<"**">>)}),
     Try(a, Fetch,    {profile, Rule("network", <<>>, "off", ""), D("domains", <<"*", "com">>), D("domains", <<"ex", "com">>)})}
Roo == LET a == "roo-code"  server == Rule("server", <<"github">>, "on", "") IN
    {Try(a, Commands, {D("deniedCommands", <<"git">>), A("allowedCommands", <<"*">>), A("allowedCommands", <<"git">>),
                       A("allowedCommands", <<"git", "push", "--force">>)}),
     Try(a, Repo,     {server, A("alwaysAllow", <<"github", "*">>), D("disabledTools", <<"github", "get", "repo">>)}),
     Try(a, Paths,    {D(".rooignore", <<".env">>), Rule(".rooignore", Env, "allow", ""), D(".rooignore", <<"**", ".ssh", "**">>)}),
     Try(a, Same,     {D(".rooignore", <<"gen">>), Rule(".rooignore", Gen, "allow", ""), D(".rooignore", <<"gen", "a">>),
                       D(".rooignore", <<"/", "gen">>)}),
     Try(a, Fetch,    {D(".rooignore", <<"gen">>)})}
Antigravity == LET a == "antigravity"  server == Rule("server", <<"github">>, "on", "") IN
    {Try(a, Repo, {server, D("disabledTools", <<"github", "get", "repo">>), D("disabledTools", DeleteRepo)}), Try(a, Commands, {server})}
Switches ==
    {Try("gemini-cli", Commands, {D("tools.exclude", <<"run_shell_command">>), Rule("tools.core", <<"read_file">>, "on", ""),
                                  A("tools.allowed", <<"git">>), A("tools.allowed", <<"git", "push", "origin">>)}),
     Try("gemini-cli", Paths, {D("tools.exclude", <<"read_file">>), D("tools.exclude", <<"read_many_files">>), Rule("tools.core", <<"read_file">>, "on", "")}),
     Try("gemini-cli", Tools, {D("mcp.excluded", <<"github">>), D("mcp.excluded", <<"other">>), D("mcp.excluded", <<"*">>)}),
     Try("pi", Commands, {Rule("defaultTools", <<"bash">>, x, "") : x \in {"+", "-", "plain"}} \cup {Rule("defaultTools", <<"read">>, "plain", "")}),
     Try("pi", Same, {Rule("defaultTools", <<"grep">>, "plain", ""), Rule("defaultTools", <<"edit">>, "-", ""), Rule("defaultTools", <<"write">>, "-", "")})}
Allowlists ==
    {Try("cursor", Commands, {A("Shell", <<"git">>), A("Shell", <<"git", "push", "origin">>), A("Shell", <<"ls">>)}),
     Try("cursor", Tools, {A("Mcp", <<"*", "*">>), A("Mcp", DeleteRepo), A("Mcp", <<"other", "*">>)}),
     Try("vscode", Commands, {A("autoApprove", <<"git">>), A("autoApprove", <<"git", "push", "origin">>), D("autoApprove", Push),
                              D("autoApprove", <<"git", "push", "--force">>)}),
     Try("zed", Commands, {D("rules", Push)})}

\* A tool's block that replaces a shared category, one that adds a category, and
\* rules without a neutral form; .cfgaudit.yml denies something as well.
Sources == {[shared |-> {S(<<"bash">>, <<"git", "push", "*">>, "deny"), S(<<"mcp", "github">>, <<"*">>, "ask")}, own |-> own] :
              own \in {{S(<<"bash">>, <<"git", "push", "--force">>, "ask")}, {S(<<"mcp", "my.server", "delete", "repo">>, <<"*">>, "deny")}}}
Unclear == [shared |-> {S(<<"bash">>, <<"*">>, "deny"), S(<<"webfetch">>, <<"*">>, "deny"), S(<<"edit">>, Gen, "deny")}, own |-> {}]
Rulesync == {Try(p[1], Policy({E("read", Env)}, {}, source), p[2]) :
               source \in Sources \cup {Unclear},
               p \in {<<"claude-code", {A("Bash", <<"git", "push", "--force">>), D("Bash", Push), A("mcp", <<"github", "*">>)}>>,
                      <<"cursor-cli", {A("Shell", <<"git">>), D("Mcp", <<"*", "*">>)}>>}}
            \cup {Try("zed", Policy({}, {}, Unclear), {D("rules", Push)})}

MCScenarios == Claude \cup Devin \cup Cursor \cup Qwen \cup Grok \cup OpenCode \cup Codex \cup Roo \cup Antigravity
               \cup Switches \cup Allowlists \cup Rulesync
=============================================================================
