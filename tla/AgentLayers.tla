----------------------------- MODULE AgentLayers -----------------------------
(* The blocks of its project files that each agent uses, from what the       *)
(* comments of main.go and of the parsers record of the agents themselves:   *)
(* which file wins, which switch turns off what, and which files an agent    *)
(* leaves alone.  The agents are not part of the repository.                 *)
EXTENDS SequencesExt

VARIABLE files   \* path -> the blocks of the file, for the files that exist

Malformed == {"malformed"}
Blocks(f) == IF f \in DOMAIN files /\ files[f] # Malformed THEN files[f] ELSE {}
Has(f, b) == b \in Blocks(f)
Uses(f, blocks) == {f} \X (Blocks(f) \cap blocks)
UsesOf(fs, blocks) == UNION {Uses(f, blocks) : f \in fs}

(* A setting of several layers, the lowest first: the last one that has it.  *)
Setting(layers, on, off) ==
    LET set == SelectSeq(layers, LAMBDA f : Has(f, on) \/ Has(f, off))
    IN  set # <<>> /\ Has(Last(set), on)
-----------------------------------------------------------------------------
ClaudeFiles == <<".claude/settings.json", ".claude/settings.local.json">>
ClaudeAgent == ".claude/agents/a.md"
ClaudeSkills == {".claude/skills/s/SKILL.md", ".claude/commands/c.md"}
ClaudeLayers == SelectSeq(ClaudeFiles, LAMBDA f : ~Has(f, "discarded"))
ClaudeHooksOff == Setting(ClaudeLayers, "hooksOff", "hooksOn")
SkillShellOff == Setting(ClaudeLayers, "shellOff", "shellOn")

UsedByClaude ==
    LET settings == Range(ClaudeLayers)
        hooks == UsesOf(settings \cup ClaudeSkills \cup {ClaudeAgent}, {"hook", "http"})
        shell == UsesOf(ClaudeSkills, {"shell"})
    IN  UsesOf(settings, {"helper", "server"}) \cup UsesOf({".mcp.json", ClaudeAgent}, {"server"})
        \cup (IF ClaudeHooksOff THEN {} ELSE hooks) \cup (IF SkillShellOff THEN {} ELSE shell)

(* VS Code takes the root .mcp.json without its mcpServers key.              *)
UsedByVSCode ==
    UsesOf({".vscode/tasks.json", ".vscode/settings.json", ".vscode/extensions.json", ".vscode/mcp.json", "w.code-workspace"},
           {"tasks", "settings", "extensions", "server"})
    \cup (IF Has(".mcp.json", "wrapped") THEN {} ELSE Uses(".mcp.json", {"bare"}))

CopilotFiles == <<".github/copilot/settings.json", ".github/copilot/settings.local.json">>
CopilotHookFiles == {".github/hooks/a.json", ".github/hooks/b.json"}
CopilotHooksOff == \E f \in Range(CopilotFiles) : Has(f, "off")
UsedByCopilot ==
    LET on == {f \in Range(CopilotFiles) \cup CopilotHookFiles : ~Has(f, "off")}
    IN  (IF CopilotHooksOff THEN {} ELSE UsesOf(on, {"hook", "http"}))
        \cup UsesOf(Range(CopilotFiles), {"plugins"})
        \cup UsesOf({".github/lsp.json", ".github/mcp.json", ".github/agents/a.agent.md"}, {"lsp", "server", "hook", "http"})

(* Continue reads the settings of Claude Code as well, and one flag in any   *)
(* of the files it reads turns every hook off.                               *)
ContinueFiles == <<".continue/settings.json", ".continue/settings.local.json">>
UsedByContinue ==
    LET off == (\E f \in Range(ContinueFiles) : Has(f, "off")) \/ (\E f \in Range(ClaudeFiles) : Has(f, "hooksOff"))
    IN  (IF off THEN {} ELSE UsesOf(Range(ContinueFiles), {"hook", "http"}))
        \cup UsesOf({".continue/config.yaml", ".continue/mcpServers/s.yaml", ".continue/mcpServers/s.json"}, {"server"})
-----------------------------------------------------------------------------
DevinFiles == <<".devin/config.json", ".devin/config.local.json">>
DevinMCPFiles == <<".devin/mcp_config.json", ".devin/mcp_config.local.json">>
DevinHooks == ".devin/hooks.json"
WindsurfHooks == ".windsurf/hooks.json"
UsedByDevin ==
    UsesOf(Range(DevinFiles), {"hook", "server", "permissions"}) \cup UsesOf(Range(DevinMCPFiles), {"server"})
    \cup Uses(".devin/hooks.v1.json", {"hook"}) \cup Uses(".devin/skills/s/SKILL.md", {"permissions"})
    \cup Uses(IF Has(DevinHooks, "hook") THEN DevinHooks ELSE WindsurfHooks, {"hook"})

UsedByCursor ==
    Uses(".cursor/hooks.json", {"hook", "http"}) \cup Uses(".cursor/mcp.json", {"server"})
    \cup UsesOf({".cursor/permissions.json", ".cursor/cli.json", ".cursor/sandbox.json"}, {"permissions"})

(* A debug scenario runs the task it names, which Zed would not start.       *)
ZedTasks == ".zed/tasks.json"
UsedByZed ==
    Uses(".zed/settings.json", {"shell", "server"}) \cup Uses(ZedTasks, {"hookTask"}) \cup Uses(".zed/debug.json", {"build"})
    \cup (IF Has(".zed/debug.json", "ref") THEN Uses(ZedTasks, {"plainTask"}) ELSE {})

UsedByGrok == Uses(".grok/config.toml", {"server", "plugins", "permissions"})
              \cup Uses(".grok/lsp.json", {"lsp"}) \cup Uses(".grok/hooks/a.json", {"hook"})

(* OpenCode merges its files, the lowest first, and refuses one with a       *)
(* permissions block of its second version.                                  *)
OpenCodeFiles == <<"opencode.json", "opencode.jsonc", ".opencode/opencode.json", ".opencode/opencode.jsonc">>
OpenCodeLayers == SelectSeq(OpenCodeFiles, LAMBDA f : f \in DOMAIN files /\ files[f] # Malformed /\ ~Has(f, "v2permissions"))
LastWith(layers, b) == LET set == SelectSeq(layers, LAMBDA f : Has(f, b)) IN IF set = <<>> THEN {} ELSE {Last(set)}
OpenCodeServerOff == Setting(OpenCodeLayers, "serverOff", "serverOn")
UsedByOpenCode ==
    (IF OpenCodeServerOff THEN {} ELSE LastWith(OpenCodeLayers, "server") \X {"server"})
    \cup (LastWith(OpenCodeLayers, "shell") \X {"shell"}) \cup UsesOf(Range(OpenCodeLayers), {"lsp", "formatter"})

UsedByCodex == UsesOf({".codex/config.toml", ".codex/hooks.json"}, {"hook", "server", "approval"})

UsedByGemini ==
    LET s == ".gemini/settings.json"
        hooks == Uses(s, {"hook"} \cup (IF Has(s, "listed") THEN {} ELSE {"named"}))
    IN  (IF Has(s, "off") THEN {} ELSE hooks) \cup UsesOf({s, ".gemini/agents/a.md"}, {"server"}) \cup Uses(".gemini/.env", {"env"})

UsedByQwen ==
    LET s == ".qwen/settings.json"
    IN  (IF Has(s, "off") THEN {} ELSE Uses(s, {"hook"})) \cup Uses(s, {"server"})
        \cup Uses(".qwen/agents/a.md", {"hook", "http", "server", "executor"})
-----------------------------------------------------------------------------
(* Plugins of Claude Code: a folder of .claude/skills with a manifest loads  *)
(* without an install step, and the repository itself may be a plugin that   *)
(* others install.  The files that count are the same for both.              *)
SkillsPlugin ==
    [manifest |-> ".claude/skills/s/.claude-plugin/plugin.json", mcp |-> ".claude/skills/s/.mcp.json",
     servers |-> ".claude/skills/s/servers.json", hooks |-> ".claude/skills/s/hooks/hooks.json",
     named |-> ".claude/skills/s/config/h.json", command |-> ".claude/skills/s/commands/d.md",
     other |-> ".claude/skills/s/extra/e.md", agent |-> ".claude/skills/s/agents/b.md",
     skill |-> ".claude/skills/s/skills/t/SKILL.md"]
RepositoryPlugin ==
    [manifest |-> ".claude-plugin/plugin.json", mcp |-> ".mcp.json", servers |-> "servers.json",
     hooks |-> "hooks/hooks.json", named |-> "config/h.json", command |-> "commands/d.md",
     other |-> "extra/e.md", agent |-> "agents/b.md", skill |-> "skills/t/SKILL.md"]
Marketplace == ".claude-plugin/marketplace.json"
KimiPlugin == "kimi.plugin.json"
KimiPrompt == "prompt.md"

(* A .mcp.json with servers takes the place of what the manifest declares.   *)
PluginServers(p) ==
    IF Has(p.mcp, "server") THEN Uses(p.mcp, {"server"})
    ELSE IF Has(p.mcp, "bare") /\ ~Has(p.mcp, "wrapped") THEN Uses(p.mcp, {"bare"})
    ELSE Uses(p.manifest, {"server"}) \cup (IF Has(p.manifest, "serverPath") THEN Uses(p.servers, {"server"}) ELSE {})

(* The hook files a manifest names come on top, the commands in their place. *)
PluginHooks(p) == {p.hooks} \cup (IF Has(p.manifest, "hooksPath") THEN {p.named} ELSE {})
PluginTexts(p) == {IF Has(p.manifest, "commandsPath") THEN p.other ELSE p.command, p.agent, p.skill}
PluginUses(p) ==
    PluginServers(p) \cup UsesOf(PluginTexts(p), {"text"})
    \cup (IF ClaudeHooksOff THEN {} ELSE UsesOf(PluginHooks(p) \cup {p.skill}, {"hook", "http"}))
    \cup (IF SkillShellOff THEN {} ELSE Uses(p.skill, {"shell"}))

(* The settings decide over the default of the manifest; a manifest that does *)
(* not parse keeps the plugin from loading.                                  *)
SkillsPluginLoads ==
    /\ Blocks(SkillsPlugin.manifest) # {}
    /\ IF \E f \in Range(ClaudeLayers) : {"pluginOn", "pluginOff"} \cap Blocks(f) # {}
       THEN Setting(ClaudeLayers, "pluginOn", "pluginOff")
       ELSE ~Has(SkillsPlugin.manifest, "defaultOff")

(* Installers copy the skills of a repository with or without a manifest.    *)
UsedOfPackages ==
    (IF SkillsPluginLoads THEN PluginUses(SkillsPlugin) ELSE {})
    \cup (IF Blocks(RepositoryPlugin.manifest) # {} THEN PluginUses(RepositoryPlugin) ELSE {})
    \cup Uses(RepositoryPlugin.skill, {"text"} \cup (IF ClaudeHooksOff THEN {} ELSE {"hook", "http"})
                                     \cup (IF SkillShellOff THEN {} ELSE {"shell"}))
    \cup Uses(Marketplace, {"plugins"}) \cup Uses(KimiPlugin, {"server", "text"})
    \cup (IF Has(KimiPlugin, "textPath") THEN Uses(KimiPrompt, {"text"}) ELSE {})
-----------------------------------------------------------------------------
(* Further files of servers: Cline's, Roo Code's and Kimi Code's.             *)
UsedByOthers == UsesOf({"cline_mcp_settings.json", ".roo/mcp.json", ".kimi-code/mcp.json"}, {"server"})

InUse == UNION {UsedByClaude, UsedByVSCode, UsedByCopilot, UsedByContinue, UsedByDevin, UsedByCursor, UsedByZed, UsedByGrok,
                UsedByOpenCode, UsedByCodex, UsedByGemini, UsedByQwen, UsedByOthers, UsedOfPackages}

Present(f) == f \in DOMAIN files /\ files[f] # {}
RepositoryIsPackage == \E f \in {RepositoryPlugin.manifest, Marketplace, KimiPlugin} : Present(f)

(* Of a plugin, a .mcp.json that does not parse only leaves the manifest in  *)
(* force.  A repository that marks itself as a package is read by those who  *)
(* install it, whatever its own settings switch off.                         *)
UnusedOfPackages ==
    LET off == Setting(ClaudeLayers, "pluginOff", "pluginOn")
        p == SkillsPlugin
    IN  {p.mcp, RepositoryPlugin.named}
        \cup (IF SkillsPluginLoads /\ Has(p.manifest, "hooksPath") THEN {} ELSE {p.named})
        \cup (IF RepositoryIsPackage THEN {}
              ELSE {RepositoryPlugin.hooks} \cup (IF SkillsPluginLoads THEN {} ELSE {p.hooks}) \cup (IF off THEN {p.manifest} ELSE {}))

(* The files whose content changes nothing for anybody.                      *)
Unused ==
    UnusedOfPackages
    \cup (IF CopilotHooksOff THEN CopilotHookFiles ELSE {}) \cup (IF Has(DevinHooks, "hook") THEN {WindsurfHooks} ELSE {})
=============================================================================
