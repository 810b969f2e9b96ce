---------------------------- MODULE CommandSites ----------------------------
(* buildTargets over the project files of the agents, and what the rules     *)
(* judge of the targets.  One action per builder, in the order of the code:  *)
(* it reads its files, records the ones that do not parse and appends one    *)
(* entry per part of a target.  A file is a set of blocks.                   *)
EXTENDS Naturals, PluginPackages, InstructionFiles

CONSTANT Repositories   \* the projects scanned: the blocks of the files, and where the instruction files lie

VARIABLES stage,        \* the builders that have run
          unreadable,   \* the files recorded by skipUnreadable, in order
          targets,      \* the parts of the targets, in order
          hooksOff,     \* ClaudeHooksDisabled
          judged        \* the blocks the rules see, one set per part
vars == <<files, places, stage, unreadable, targets, hooksOff, judged>>
-----------------------------------------------------------------------------
Init ==
    /\ \E r \in Repositories : files = r.files /\ places = r.places
    /\ stage = 0
    /\ unreadable = <<>>
    /\ targets = <<>>
    /\ hooksOff = FALSE
    /\ judged = <<>>

(* One builder: the files its loaders record, and what it appends.           *)
Build(n, reads, parts) ==
    /\ stage = n
    /\ stage' = n + 1
    /\ unreadable' = unreadable \o SelectSeq(reads, Broken)
    /\ targets' = targets \o parts
    /\ UNCHANGED <<files, places, hooksOff, judged>>
-----------------------------------------------------------------------------
(* Mutant: the second target does not ask for the wrapper.                   *)
UnwrappedAnyway == Simple(".mcp.json", "ProjectMCP", {"bare", "server"})

(* The root .mcp.json without its wrapper is read a second time, for its own *)
(* target.  An empty one declares no servers and is no error.                *)
UnwrappedMCPServers ==
    IF Has(".mcp.json", "server") \/ Has(".mcp.json", "wrapped") THEN <<>> ELSE Simple(".mcp.json", "ProjectMCP", {"bare"})

ClaudePart(f) == Simple(f, "Settings", {"hook", "http", "helper", "server"})

ClaudeTargets ==
    Build(0, <<".mcp.json">> \o ClaudeFiles,
          ClaudePart(ClaudeFiles[1]) \o Simple(".mcp.json", "ProjectMCP", {"server"})
          \o ClaudePart(ClaudeFiles[2]) \o UnwrappedMCPServers)

(* Markdown files: no error is possible, a block that does not decode is not *)
(* there.                                                                    *)
AgentFiles == <<ClaudeAgent, ".qwen/agents/a.md", ".github/agents/a.agent.md", ".gemini/agents/a.md">>
InstructionTargets ==
    Build(1, <<>>,
          InstructionParts \o Parts(<<ClaudeAgent, ".qwen/agents/a.md">>, "Subagent", {"hook", "http"})
          \o Simple(".qwen/agents/a.md", "QwenExecutor", {"executor"})
          \o Simple(".github/agents/a.agent.md", "CopilotAgent", {"hook", "http"})
          \o Parts(AgentFiles, "ProjectMCP", {"server"})
          \o Parts(SetToSeq(ClaudeSkills), "Subagent", {"hook", "http"})
          \o (IF skillShellDisabled THEN <<>> ELSE Parts(SetToSeq(ClaudeSkills), "SkillShell", {"shell"})))

agentMCPFiles ==
    <<".cursor/mcp.json", ".vscode/mcp.json", ".github/mcp.json", "cline_mcp_settings.json", ".roo/mcp.json", ".kimi-code/mcp.json">>
AgentMCPTargets == Build(2, agentMCPFiles, Parts(agentMCPFiles, "ProjectMCP", {"server"}))
-----------------------------------------------------------------------------
HookBlocks == {"hook", "http"}
HookParts(fs) == FlattenSeq([i \in DOMAIN fs |-> PartIf(fs[i], "AgentHooks", HookBlocks, HookBlocks \cup {"off"})])

(* Mutant: a broken file keeps its place.                                    *)
DevinDesktopHooksIfAbsent == IF Has(DevinHooks, "hook") \/ Broken(DevinHooks) THEN DevinHooks ELSE WindsurfHooks

(* The older file is read when the newer one has no hooks, for whichever     *)
(* reason.                                                                   *)
DevinDesktopHooks == IF Has(DevinHooks, "hook") THEN DevinHooks ELSE WindsurfHooks

(* Mutant: every file of Copilot is read.                                    *)
CopilotReadsAll == CopilotFiles \o SetToSeq(CopilotHookFiles)

(* The settings are read in order until one switches the hooks off; then     *)
(* nothing more of Copilot is read.                                          *)
CopilotReads ==
    IF Has(CopilotFiles[1], "off") THEN <<CopilotFiles[1]>>
    ELSE IF Has(CopilotFiles[2], "off") THEN CopilotFiles
    ELSE CopilotFiles \o SetToSeq(CopilotHookFiles)

(* Mutant: the switch of a settings file turns off its own table only.       *)
CopilotHookPartsPerFile == HookParts(SelectSeq(CopilotFiles \o SetToSeq(CopilotHookFiles), LAMBDA f : ~Has(f, "off")))

CopilotHookParts == IF CopilotHooksOff THEN <<>> ELSE HookParts(CopilotFiles \o SetToSeq(CopilotHookFiles))

AgentHookTargets ==
    Build(3, <<".cursor/hooks.json", DevinHooks, DevinDesktopHooks>> \o CopilotReads,
          HookParts(<<".cursor/hooks.json", DevinDesktopHooks>>) \o CopilotHookParts)

(* One flag of either file drops both.                                       *)
ContinueHookTargets ==
    Build(4, ContinueFiles,
          IF \E f \in Range(ContinueFiles) : Has(f, "off") THEN <<>> ELSE Parts(ContinueFiles, "ContinueHooks", HookBlocks))

CursorFiles == <<".cursor/permissions.json", ".cursor/cli.json", ".cursor/sandbox.json">>
CursorTargets == Build(5, CursorFiles, Parts(CursorFiles, "Cursor", {"permissions"}))

(* The same two files again, for another target.                             *)
CopilotPluginTargets == Build(6, CopilotFiles, Parts(CopilotFiles, "CopilotSettings", {"plugins"}))
-----------------------------------------------------------------------------
DevinPart(f) == PartIf(f, "Devin", {"hook", "server", "permissions"}, {"hook", "permissions"})

DevinTargets ==
    Build(7, DevinFiles \o <<".devin/hooks.v1.json">> \o DevinMCPFiles,
          DevinPart(DevinFiles[1]) \o DevinPart(DevinFiles[2]) \o Parts(DevinFiles, "ProjectMCP", {"server"})
          \o Simple(".devin/hooks.v1.json", "Devin", {"hook"}) \o Simple(".devin/skills/s/SKILL.md", "Devin", {"permissions"})
          \o Parts(DevinMCPFiles, "ProjectMCP", {"server"}))

ZedTargets ==
    Build(8, <<".zed/settings.json", ZedTasks, ".zed/debug.json">>,
          Simple(".zed/settings.json", "ProjectMCP", {"server"}) \o Simple(".zed/settings.json", "ZedSettings", {"shell"})
          \o Simple(ZedTasks, "ZedTasks", {"hookTask", "plainTask"}) \o Simple(".zed/debug.json", "ZedDebug", {"build", "ref"}))

GrokTargets ==
    Build(9, <<".grok/config.toml">>,
          Simple(".grok/config.toml", "ProjectMCP", {"server"}) \o Simple(".grok/config.toml", "Grok", {"plugins", "permissions"}))

(* A later file that switches the server off takes it from the earlier ones, *)
(* and the shell is left to the last file that sets it.                      *)
Later(i) == {OpenCodeFiles[j] : j \in (i + 1)..Len(OpenCodeFiles)} \cap Range(OpenCodeLayers)
Keeps(i, b) ==
    /\ Has(OpenCodeFiles[i], b)
    /\ b = "server" => ~Has(OpenCodeFiles[i], "serverOff") /\ \A f \in Later(i) : ~Has(f, "serverOff")
    /\ b = "shell" => \A f \in Later(i) : ~Has(f, "shell")
OpenCodePart(i) ==
    LET f == OpenCodeFiles[i]
        kept == {b \in {"server", "shell", "lsp", "formatter"} : Keeps(i, b)}
    IN  IF f \in Range(OpenCodeLayers) THEN <<Part(f, "OpenCode", kept)>> ELSE <<>>
OpenCodeTargets ==
    Build(10, OpenCodeFiles,
          FlattenSeq([i \in DOMAIN OpenCodeFiles |-> OpenCodePart(i)])
          \o openCodeAgentPermissionTargets \o openCodeCodeTargets \o copilotExtensionTargets)

LSPAndHookTargets ==
    Build(11, <<".grok/lsp.json", ".github/lsp.json", ".grok/hooks/a.json">>,
          Parts(<<".grok/lsp.json", ".github/lsp.json">>, "LSP", {"lsp"}) \o Simple(".grok/hooks/a.json", "GrokHooks", {"hook"}))
-----------------------------------------------------------------------------
VSCodeFiles == <<".vscode/tasks.json", ".vscode/settings.json", ".vscode/extensions.json", "w.code-workspace">>
VSCodeTargets ==
    Build(12, VSCodeFiles,
          Parts(VSCodeFiles, "VSCode", {"tasks", "settings", "extensions"}) \o Simple("w.code-workspace", "ProjectMCP", {"server"}))

GeminiTargets ==
    Build(13, <<".gemini/settings.json", ".gemini/.env">>,
          Simple(".gemini/settings.json", "Gemini", {"hook", "named", "listed", "off"})
          \o Simple(".gemini/settings.json", "ProjectMCP", {"server"}) \o Simple(".gemini/.env", "GeminiDotEnv", {"env"}))

(* The project layer has no notify.                                          *)
CodexTargets ==
    Build(14, <<".codex/config.toml", ".codex/hooks.json">>,
          Simple(".codex/config.toml", "Codex", {"approval", "hook"}) \o Simple(".codex/config.toml", "ProjectMCP", {"server"})
          \o Simple(".codex/hooks.json", "CodexHooks", {"hook"}))

QwenTargets ==
    Build(15, <<".qwen/settings.json">>,
          Simple(".qwen/settings.json", "Qwen", {"hook", "off"}) \o Simple(".qwen/settings.json", "ProjectMCP", {"server"}))

ContinueConfigs == <<".continue/config.yaml", ".continue/mcpServers/s.yaml", ".continue/mcpServers/s.json">>
ContinueTargets == Build(16, ContinueConfigs, Parts(ContinueConfigs, "ProjectMCP", {"server"}))

Builders == 17
(* One target per recorded file, as the last step of buildTargets.           *)
UnreadableTargets ==
    /\ stage = Builders
    /\ stage' = Builders + 1
    /\ targets' = targets \o [i \in DOMAIN unreadable |-> Part(unreadable[i], "Unreadable", {})]
    /\ UNCHANGED <<files, places, unreadable, hooksOff, judged>>

(* The packages come after buildTargets, with records of their own.          *)
PackageTargets ==
    /\ stage = Builders + 1
    /\ stage' = Builders + 2
    /\ targets' = targets \o withPackageTargets
    /\ UNCHANGED <<files, places, unreadable, hooksOff, judged>>

(* The local file over the project file, of the targets there are.           *)
ClaudeHooksDisabled == Setting(ClaudeFiles, "hooksOff", "hooksOn")

ApplyClaudeHooksDisabled ==
    /\ stage = Builders + 2
    /\ stage' = Builders + 3
    /\ hooksOff' = ClaudeHooksDisabled
    /\ UNCHANGED <<files, places, unreadable, targets, judged>>
-----------------------------------------------------------------------------
(* commandSites, mcpServerRefs and the rules with a field of their own: what *)
(* they take from a part.                                                    *)
Taken(t, blocks) == {t.file} \X (t.blocks \cap blocks)
Off(t) == "off" \in t.blocks

(* The commands stay when the hooks are off, the addresses do not.           *)
ClaudeSites(t) == Taken(t, {"hook", "helper", "server"} \cup (IF hooksOff THEN {} ELSE {"http"}))
HookSites(t) == IF Off(t) THEN {} ELSE Taken(t, HookBlocks)
GeminiSites(t) ==
    LET named == IF "listed" \in t.blocks THEN {} ELSE {"named"}
    IN  IF Off(t) THEN {} ELSE Taken(t, {"hook"} \cup named)

(* A scenario that names a task takes the command from the tasks file.       *)
ZedSites(t) == Taken(t, {"build"}) \cup (IF "ref" \in t.blocks THEN Uses(ZedTasks, {"plainTask"}) ELSE {})

Sites(t) ==
    CASE t.part \in {"Settings", "Subagent"} -> ClaudeSites(t)
      [] t.part \in {"AgentHooks", "Qwen"} -> HookSites(t)
      [] t.part = "Gemini" -> GeminiSites(t)
      [] t.part = "ZedTasks" -> Taken(t, {"hookTask"})
      [] t.part = "ZedDebug" -> ZedSites(t)
      [] OTHER -> Taken(t, t.blocks)

Judge ==
    /\ stage = Builders + 3
    /\ stage' = Builders + 4
    /\ judged' = [i \in DOMAIN targets |-> Sites(targets[i])]
    /\ UNCHANGED <<files, places, unreadable, targets, hooksOff>>

Next ==
    \/ ClaudeTargets \/ InstructionTargets \/ AgentMCPTargets \/ AgentHookTargets \/ ContinueHookTargets \/ CursorTargets
    \/ CopilotPluginTargets \/ DevinTargets \/ ZedTargets \/ GrokTargets \/ OpenCodeTargets \/ LSPAndHookTargets
    \/ VSCodeTargets \/ GeminiTargets \/ CodexTargets \/ QwenTargets \/ ContinueTargets
    \/ UnreadableTargets \/ PackageTargets \/ ApplyClaudeHooksDisabled \/ Judge

Spec == Init /\ [][Next]_vars
-----------------------------------------------------------------------------
Done == stage = Builders + 4
JudgedBlocks == UNION Range(judged)

(* Whatever an agent uses of the repository after merging its layers,       *)
(* following its switches and choosing among its files, reaches the rules.   *)
WhatIsUsedIsJudged == Done => InUse \cup Loaded \subseteq JudgedBlocks

(* The walk of a package reads the hooks and skills below it, and the        *)
(* plugins of .claude/skills, whatever the settings say of them.             *)
Plugins == {SkillsPlugin, RepositoryPlugin}
PluginHookFiles == UNION {PluginHooks(p) \cup {p.skill} : p \in Plugins}
WalkedAnyway ==
    UNION {PluginServers(p) \cup UsesOf(PluginTexts(p), {"text"}) \cup UsesOf({p.hooks, p.skill}, {"text", "hook", "shell"})
           : p \in Plugins}

(* Instructions that are read although the agent takes others: plain files   *)
(* among Cursor's rules (main.go:1859), the fallbacks of Claude Code         *)
(* (main.go:1812) and Roo Code (roo.go:24), and other spellings, which other *)
(* file systems open (main.go:1853).                                         *)
KeptTexts ==
    Markdown(Level(0, {".cursor/rules"})) \cup (There \cap {"AGENTS.md", ".claude/AGENTS.md", ".roorules", ".roorules-code", "Agents.md"})
    \cup Named("skill", There)

(* What the code keeps on purpose: a Claude Code hook that is switched off   *)
(* (rule.go:337), a settings file that is discarded (discarded.go:132) and   *)
(* the command of a server that a later file of OpenCode overrides.          *)
KeptOnPurpose ==
    (Range(ClaudeFiles) \X {"hook", "helper", "server"}) \cup ((ClaudeSkills \cup {ClaudeAgent} \cup PluginHookFiles) \X {"hook"})
    \cup (IF RepositoryIsPackage THEN WalkedAnyway ELSE {}) \cup (KeptTexts \X {"text"})
    \cup (IF OpenCodeServerOff THEN {} ELSE Range(OpenCodeFiles) \X {"server"})

(* The other direction: nothing is judged that no agent would use, because a *)
(* switch, a later layer or another file has taken its place.                *)
NothingUnusedIsJudged == Done => JudgedBlocks \subseteq InUse \cup Loaded \cup KeptOnPurpose

(* A file that does not parse is reported if an agent would read it, and     *)
(* only then.                                                                *)
MalformedIsReported ==
    Done => {t.file : t \in {t \in Range(targets) : t.part = "Unreadable"}} = {f \in DOMAIN files : Broken(f)} \ Unused

(* No block reaches the rules through two targets, although several builders *)
(* read the same file: a finding would be printed twice.                     *)
JudgedOnce == Done => \A i, j \in DOMAIN judged : i # j => judged[i] \cap judged[j] = {}
=============================================================================
