--------------------------- MODULE MCCommandSites ---------------------------
(* For each agent, every project with the given contents of its files.       *)
EXTENDS CommandSites

File(path, contents) == [path |-> path, contents |-> <<{}>> \o contents]   \* {} also if it is not there
Projects(agent) ==
    FoldLeft(LAMBDA projects, file : {p @@ (file.path :> blocks) : p \in projects, blocks \in Range(file.contents)}, {<<>>}, agent)
Bad == Malformed
Either(blocks) == <<blocks, Bad>>
-----------------------------------------------------------------------------
Settings == <<{"hook", "http", "helper", "server"}, {"http", "hooksOff"}, {"hook", "hooksOn"}, {"shellOff"}, {"shellOn"},
             {"discarded", "hook", "shellOff"}, Bad>>
Claude == <<File(".claude/settings.json", Settings), File(".claude/settings.local.json", Settings),
            File(".mcp.json", <<{"server", "wrapped"}, {"bare"}, {"wrapped", "bare"}, {"blank"}, Bad>>),
            File(".claude/skills/s/SKILL.md", <<{"text", "hook", "http", "shell"}>>), File(ClaudeAgent, <<{"text", "hook", "http", "server"}>>)>>
Copilot == <<File(CopilotFiles[1], <<{"hook", "plugins"}, {"http", "off"}, {"off"}, {"plugins"}, Bad>>),
             File(CopilotFiles[2], <<{"hook", "plugins"}, {"hook", "off"}, {"http"}, Bad>>),
             File(".github/hooks/a.json", <<{"hook"}, {"hook", "off"}, Bad>>), File(".github/hooks/b.json", Either({"http"}))>>
CopilotRest == <<File(".github/lsp.json", Either({"lsp"})), File(".github/mcp.json", Either({"server"})),
                 File(".github/agents/a.agent.md", <<{"text", "hook", "http", "server"}>>)>>
Continue == <<File(ContinueFiles[1], <<{"hook", "http"}, {"hook", "off"}, {"off"}, Bad>>),
              File(ContinueFiles[2], <<{"hook"}, {"hook", "off"}, Bad>>),
              File(".continue/config.yaml", Either({"server"})), File(".continue/mcpServers/s.yaml", Either({"server"})),
              File(".continue/mcpServers/s.json", Either({"server"}))>>
Devin == <<File(DevinFiles[1], <<{"hook", "server"}, {"permissions"}, Bad>>), File(DevinFiles[2], <<{"hook"}, {"server", "permissions"}, Bad>>),
           File(".devin/hooks.v1.json", Either({"hook"})), File(".devin/skills/s/SKILL.md", <<{"permissions"}>>),
           File(DevinMCPFiles[1], <<{"server"}, {"server", "hook"}, Bad>>), File(DevinMCPFiles[2], Either({"server"}))>>
DevinDesktop == <<File(DevinHooks, <<{"hook"}, Bad>>), File(WindsurfHooks, <<{"hook"}, Bad>>), File(".cursor/hooks.json", Either({"hook", "http"}))>>
Cursor == <<File(".cursor/mcp.json", Either({"server"})), File(".cursor/permissions.json", Either({"permissions"})),
            File(".cursor/cli.json", Either({"permissions"})), File(".cursor/sandbox.json", Either({"permissions"}))>>
Zed == <<File(".zed/settings.json", <<{"server"}, {"shell"}, {"server", "shell"}, Bad>>),
         File(ZedTasks, <<{"hookTask"}, {"plainTask"}, {"hookTask", "plainTask"}, Bad>>),
         File(".zed/debug.json", <<{"build"}, {"ref"}, {"build", "ref"}, Bad>>)>>
Grok == <<File(".grok/config.toml", <<{"server"}, {"plugins"}, {"server", "permissions"}, Bad>>), File(".grok/lsp.json", Either({"lsp"})),
          File(".grok/hooks/a.json", Either({"hook"}))>>
OpenCode == [i \in DOMAIN OpenCodeFiles |->
                File(OpenCodeFiles[i], <<{"server"}, {"serverOff"}, {"server", "serverOff", "shell"}, {"server", "shell", "lsp"},
                                        {"v2permissions", "shell", "serverOff"}, Bad>>)]
VSCode == <<File(".vscode/tasks.json", Either({"tasks"})), File(".vscode/settings.json", Either({"settings"})), File(".vscode/extensions.json", Either({"extensions"})),
            File(".vscode/mcp.json", Either({"server"})), File("w.code-workspace", <<{"tasks", "settings", "server", "extensions"}, {"server"}, Bad>>)>>
Gemini == <<File(".gemini/settings.json", <<{"hook", "named", "listed"}, {"hook", "named", "off"}, {"named", "server"}, Bad>>),
            File(".gemini/.env", Either({"env"})), File(".gemini/agents/a.md", <<{"server"}>>)>>
Codex == <<File(".codex/config.toml", <<{"approval", "hook", "server"}, {"notify", "hook"}, Bad>>), File(".codex/hooks.json", Either({"hook"}))>>
Qwen == <<File(".qwen/settings.json", <<{"hook", "server"}, {"off", "hook"}, Bad>>)>>
QwenAgent == <<File(".qwen/agents/a.md", <<{"text", "hook", "http", "server", "executor"}>>)>>
Others == <<File("cline_mcp_settings.json", Either({"server"})), File(".roo/mcp.json", Either({"server"})),
            File(".kimi-code/mcp.json", Either({"server"})), File(".mcp.json", <<{"server", "wrapped"}, {"bare"}>>)>>
(* A file that is there, whatever the others hold.                           *)
Fixed(path, blocks) == [path |-> path, contents |-> <<blocks>>]
PluginRest(p) ==
    <<Fixed(p.servers, {"server"}), Fixed(p.command, {"text"}), Fixed(p.other, {"text"}), Fixed(p.agent, {"text"}),
      Fixed(p.skill, {"text", "hook", "shell"})>>
PluginSettings == <<{"pluginOff"}, {"pluginOn"}, {"discarded", "pluginOff"}, {"hooksOff", "shellOff"}, Bad>>
Manifests == <<{"name"}, {"server", "defaultOff"}, {"serverPath", "commandsPath"}, Bad>>
SkillsDir ==
    LET p == SkillsPlugin
    IN  <<File(ClaudeFiles[1], PluginSettings), File(ClaudeFiles[2], <<{"pluginOff"}, {"pluginOn"}, Bad>>),
          File(p.manifest, Manifests \o <<{"server", "hooksPath"}>>), File(p.mcp, <<{"server", "wrapped"}, {"bare"}, {"wrapped", "bare"}, Bad>>),
          File(p.hooks, Either({"hook", "http"})), File(p.named, Either({"hook"})), Fixed(".claude/skills/s/SKILL.md", {"text", "hook", "shell"})>>
        \o PluginRest(p)
Packages ==
    LET p == RepositoryPlugin
    IN  <<File(ClaudeFiles[1], <<{"shellOff", "hooksOff"}, {"pluginOff"}>>), File(p.manifest, Manifests),
          File(p.mcp, <<{"server", "wrapped"}, {"bare"}, Bad>>), File(p.hooks, Either({"hook"})),
          File(Marketplace, Either({"plugins"})), File(KimiPlugin, <<{"server", "text"}, {"textPath"}, Bad>>), Fixed(KimiPrompt, {"text"}),
          Fixed(SkillsPlugin.manifest, {"server"}), Fixed(SkillsPlugin.hooks, {"hook"}),
          Fixed(".claude/skills/s/SKILL.md", {"text", "hook", "shell"})>>
        \o PluginRest(SkillsPlugin) \o PluginRest(p)
-----------------------------------------------------------------------------
(* Where instruction files lie: in each directory of an agent, at three      *)
(* levels, one file of each kind that some agent asks for.                   *)
Path(p) ==
    (IF p.dir = "" THEN "" ELSE p.dir \o "/") \o FoldLeft(LAMBDA s, d : s \o d \o "/", "", p.sub)
    \o p.name \o (IF p.ext = "" THEN "" ELSE "." \o p.ext)
Place(dir, sub, name, ext) == [dir |-> dir, sub |-> sub, name |-> name, ext |-> ext]

Dirs == {".cursor/rules", ".cursor/commands", ".cursor/agents", ".codex/agents", ".cline/workflows", ".cline/agents", ".cline/skills",
         ".opencode/mode", ".opencode/modes", ".devin/workflows", ".windsurf/workflows", ".devin/skills", ".windsurf/skills",
         ".github/prompts", ".claude/agents", ".claude/skills", ".grok/rules", ".grok/agents", ".qwen/agents", ".qwen/commands",
         ".qwen/skills", ".gemini/skills", ".qwen/output-styles", ".claude/commands", ".claude/output-styles", ".claude/rules",
         ".qwen/rules", ".github/instructions", ".github/agents", ".devin/rules", ".windsurf/rules", ".opencode/agent",
         ".opencode/agents", ".opencode/command", ".opencode/commands", ".codex/skills", ".continue/rules", ".continue/prompts",
         ".continue/skills", ".opencode/skill", ".opencode/skills", ".kimi-code/skills", ".agents/skills", ".github/skills",
         ".cursor/skills", ".kimi-code/agents", ".agents/agents", ".gemini/agents", ".roo/rules", ".roo/rules-code",
         ".clinerules", ".cline/rules"}
Kinds == {<<"a", "md">>, <<"_a", "md">>, <<"SKILL", "md">>, <<"a", "mdc">>, <<"a", "txt">>, <<"a", "markdown">>, <<"a", "yml">>,
          <<"a", "instructions.md">>, <<"a", "prompt.md">>, <<"a", "bak">>}
PlacesIn(dir) == {Place(dir, sub, k[1], k[2]) : sub \in {<<>>, <<"s">>, <<"s", "hooks">>, <<"node_modules">>}, k \in Kinds}
RootNames == {".cursorrules", ".windsurfrules", ".rules", ".continuerules", ".clinerules", ".claude/CLAUDE.md", "CLAUDE.local.md", ".claude/AGENTS.md",
              ".kimi-code/AGENTS.md", "AGENTS.local.md", "AGENT.md", "GEMINI.md", "QWEN.md", ".github/copilot-instructions.md",
              ".windsurf/global_rules.md", ".roorules", ".roorules-code", ".roomodes"}
AgentsNames == {Place("", <<>>, n, "md") : n \in {"AGENTS", "agents", "Agents"}}
DevinPlaces == {Place(".devin/agents", <<"r">>, n, "md") : n \in Range(DevinNames)} \cup {Place(".devin/agents", sub, "a", "md") : sub \in {<<>>, <<"r">>}}
KimiPlaces(dir) ==
    {Place(dir, <<>>, "a", "md"), Place(dir, <<>>, "SKILL", "md"), Place(dir, <<"a">>, "SKILL", "md"), Place(dir, <<"a">>, "skill", "md"),
     Place(dir, <<"a">>, "b", "md"), Place(dir, <<"s", "a">>, "SKILL", "md")}
ClinePlaces ==
    {Place(".clinerules", <<>>, "a", "md"), Place(".clinerules", <<"hooks">>, "a", "md"), Place(".clinerules", <<"s", "hooks">>, "a", "md"),
     Place(".cline/rules", <<"hooks">>, "a", "md"), Place(".cline/workflows", <<>>, "a", "txt"), Place(".cline/skills", <<>>, "SKILL", "md")}
ExtensionPlaces == {Place(".github/extensions", <<"x">>, n, e) : n \in {"extension", "other"}, e \in {"mjs", "cjs", "js"}}
CodePlaces == {Place(d, sub, "a", e) : d \in {".opencode/plugin", ".opencode/tools"}, sub \in {<<>>, <<"s">>}, e \in {"ts", "js"}}
PermissionPlaces == {Place(d, sub, "a", "md") : d \in {".opencode/agent", ".opencode/agents", ".opencode/mode", ".opencode/modes"}, sub \in {<<>>, <<"s">>}}
Text == {{"text"}}
Disabled == {{"text"}, {"text", "disabled"}, {"text", "enabledFalse"}, {"text", "disabledFalse", "enabledFalse"}}
(* Any of the files given with any of the contents, or all of them.          *)
Project(ps, blocks) == [files |-> [f \in {Path(p) : p \in ps} |-> blocks], places |-> [f \in {Path(p) : p \in ps} |-> CHOOSE p \in ps : Path(p) = f]]
AnyOf(ps, contents) == {Project(there, blocks) : there \in SUBSET ps, blocks \in contents}
Texts ==
    {Project(PlacesIn(d), {"text"}) : d \in Dirs} \cup {Project({Place("", <<>>, n, "") : n \in RootNames}, {"text"})}
    \cup AnyOf({Place("", <<>>, n, "") : n \in {".claude/CLAUDE.md", "CLAUDE.local.md", ".claude/AGENTS.md"}} \cup AgentsNames, Text)
    \cup AnyOf(DevinPlaces, Text) \cup UNION {AnyOf(KimiPlaces(d), Text) : d \in KimiSkillDirs} \cup AnyOf(ClinePlaces, Disabled)
    \cup AnyOf(ExtensionPlaces, {{"code"}}) \cup {Project(CodePlaces, {"code"})} \cup {Project(PermissionPlaces, {"text", "permissions"})}
    \cup AnyOf({Place("", <<>>, ".roorules", ""), Place(".roo/rules", <<"s">>, "a", "txt"), Place(".roo/rules", <<>>, "a", "bak")}, Text)

(* Where the code is known to differ from the agents (README.md): the local  *)
(* settings switch `!` commands on again, and a file of OpenCode defines the *)
(* server that an earlier one has switched off.                              *)
Of(p, f) == IF f \in DOMAIN p THEN p[f] ELSE {}
SwitchedOnAgain(p) == "shellOff" \in Of(p, ClaudeFiles[1]) /\ "discarded" \notin Of(p, ClaudeFiles[1]) /\ "shellOn" \in Of(p, ClaudeFiles[2])
DefinedWhenOff(p) ==
    \E i, j \in DOMAIN OpenCodeFiles : i < j /\ {"serverOff", "v2permissions"} \cap Of(p, OpenCodeFiles[i]) = {"serverOff"}
                                       /\ {"server", "serverOff"} \cap Of(p, OpenCodeFiles[j]) = {"server"}

(* A lookup under another spelling decides between two files (README.md).    *)
OtherSpellingDecides(p) ==
    LET have(path) == Of(p, path) # {}
    IN  \/ have(".devin/agents/r/agent.md") /\ have(".devin/agents/r/AGENTS.md") /\ ~have(".devin/agents/r/AGENT.md")
        \/ \E d \in KimiSkillDirs : have(d \o "/a.md") /\ have(d \o "/a/skill.md") /\ ~have(d \o "/a/SKILL.md")

Agents == {Claude, Copilot, CopilotRest, Continue, Devin, DevinDesktop, Cursor, Zed, Grok, OpenCode, VSCode, Gemini, Codex, Qwen, QwenAgent, Others, SkillsDir, Packages}
(* The instruction files that the projects of the agents have.               *)
Shared == {Place(".claude/skills", <<"s">>, "SKILL", "md"), Place(".claude/agents", <<>>, "a", "md"),
           Place(".qwen/agents", <<>>, "a", "md"), Place(".github/agents", <<>>, "a.agent", "md")}
Placed(projects) ==
    LET all == Project(Shared, {}).places
    IN  {[files |-> p, places |-> [f \in DOMAIN p \cap DOMAIN all |-> all[f]]] : p \in projects}
MCRepositories ==
    {r \in Placed(UNION {Projects(a) : a \in Agents}) \cup Texts :
        ~SwitchedOnAgain(r.files) /\ ~DefinedWhenOff(r.files) /\ ~OtherSpellingDecides(r.files)}

(* A package that holds a plugin in .claude/skills whose manifest names a    *)
(* hook file of its own.                                                     *)
NamedHooks ==
    <<File(RepositoryPlugin.manifest, <<{"name"}>>), File(Marketplace, <<{"plugins"}>>),
      File(SkillsPlugin.manifest, <<{"name"}, {"hooksPath"}>>), File(SkillsPlugin.hooks, <<{"hook"}>>), File(SkillsPlugin.named, <<{"hook"}>>)>>
MCNamedHooks == Placed(Projects(NamedHooks))
=============================================================================
