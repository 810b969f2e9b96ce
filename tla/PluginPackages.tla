--------------------------- MODULE PluginPackages ---------------------------
(* withPackageTargets (plugins.go): the plugin packages of a scan without    *)
(* --plugins and --user, and what is read of each.  A plugin in .claude/     *)
(* skills is read for what Claude Code loads of it; a repository that is a   *)
(* package itself is walked whole, the plugins below it included.            *)
EXTENDS TargetParts

UnreadablePlugin(f) == Part(f, "Unreadable", {})

(* Mutant: a discarded file disables plugins.                                *)
EnabledByAnyFile(p) ==
    LET set == SelectSeq(ClaudeFiles, LAMBDA f : {"pluginOn", "pluginOff"} \cap Blocks(f) # {})
    IN  IF set = <<>> THEN ~Has(p.manifest, "defaultOff") ELSE Has(Last(set), "pluginOn")

(* The default of the manifest, overridden by each settings file in turn.    *)
skillsDirPluginEnabled(p) ==
    LET set == SelectSeq(ClaudeFiles, LAMBDA f : ~Has(f, "discarded") /\ {"pluginOn", "pluginOff"} \cap Blocks(f) # {})
    IN  IF set = <<>> THEN ~Has(p.manifest, "defaultOff") ELSE Has(Last(set), "pluginOn")

(* A root inside one that is listed already is left out.                     *)
pluginRoots ==
    IF RepositoryIsPackage THEN <<RepositoryPlugin>>
    ELSE SelectSeq(<<SkillsPlugin>>, LAMBDA p : Present(p.manifest) /\ skillsDirPluginEnabled(p))
-----------------------------------------------------------------------------
pluginHooksTarget(f) == IF Broken(f) THEN <<UnreadablePlugin(f)>> ELSE Simple(f, "Settings", {"hook", "http"})

(* Mutant: the manifest counts beside a usable .mcp.json.                    *)
BothMCPTargets(p) == Simple(p.mcp, "ProjectMCP", {"server", "bare"}) \o Simple(p.manifest, "ProjectMCP", {"server"})

(* The .mcp.json of the plugin, with or without its wrapper, before the      *)
(* manifest, and an error of the file it names as one of the manifest.       *)
pluginMCPTarget(p) ==
    IF Has(p.mcp, "server") THEN Simple(p.mcp, "ProjectMCP", {"server"})
    ELSE IF Has(p.mcp, "bare") /\ ~Has(p.mcp, "wrapped") THEN Simple(p.mcp, "ProjectMCP", {"bare"})
    ELSE IF ~Has(p.manifest, "serverPath") THEN Simple(p.manifest, "ProjectMCP", {"server"})
    ELSE IF Broken(p.servers) THEN <<UnreadablePlugin(p.manifest)>>
    ELSE Simple(p.servers, "ProjectMCP", {"server"})

pluginInstructionFiles(p) == <<IF Has(p.manifest, "commandsPath") THEN p.other ELSE p.command, p.agent>>

(* A SKILL.md with the frontmatter hooks and `!` commands hung on it.        *)
SkillParts(f) ==
    Simple(f, "Instructions", {"text"}) \o Simple(f, "Subagent", {"hook", "http"})
    \o (IF skillShellDisabled THEN <<>> ELSE Simple(f, "SkillShell", {"shell"}))

skillsDirPluginTargets(p) ==
    IF Broken(p.manifest) THEN <<UnreadablePlugin(p.manifest)>>
    ELSE pluginHooksTarget(p.hooks) \o (IF Has(p.manifest, "hooksPath") THEN pluginHooksTarget(p.named) ELSE <<>>)
         \o pluginMCPTarget(p) \o Parts(pluginInstructionFiles(p), "Instructions", {"text"}) \o SkillParts(p.skill)
-----------------------------------------------------------------------------
(* What the walk makes of a plugin.json: after an error it reads no more.    *)
ManifestTargets(p) ==
    LET servers == pluginMCPTarget(p)
    IN  IF ~Present(p.manifest) THEN <<>>
        ELSE IF Broken(p.manifest) THEN <<UnreadablePlugin(p.manifest)>>
        ELSE IF UnreadablePlugin(p.manifest) \in Range(servers) THEN servers
        ELSE servers \o Parts(pluginInstructionFiles(p), "Instructions", {"text"})

marketplaceTarget == IF Broken(Marketplace) THEN <<UnreadablePlugin(Marketplace)>> ELSE Simple(Marketplace, "Marketplace", {"plugins"})

kimiPluginTargets ==
    IF Broken(KimiPlugin) THEN <<UnreadablePlugin(KimiPlugin)>>
    ELSE Simple(KimiPlugin, "ProjectMCP", {"server"}) \o Simple(KimiPlugin, "Instructions", {"text"})
         \o (IF Has(KimiPlugin, "textPath") THEN Simple(KimiPrompt, "Instructions", {"text"}) ELSE <<>>)

(* The tree of the repository, hidden directories included.                  *)
scanPluginRoot ==
    LET walked == <<SkillsPlugin, RepositoryPlugin>>
        skills == SetToSeq(ClaudeSkills) \o <<SkillsPlugin.skill, RepositoryPlugin.skill>>
    IN  FlattenSeq([i \in DOMAIN walked |-> pluginHooksTarget(walked[i].hooks) \o ManifestTargets(walked[i])])
        \o FlattenSeq([i \in DOMAIN skills |-> SkillParts(skills[i])]) \o marketplaceTarget \o kimiPluginTargets
-----------------------------------------------------------------------------
(* The .mcp.json of the project has a target by then.                        *)
withoutProjectMCP(ts) == SelectSeq(ts, LAMBDA t : ~(t.part = "ProjectMCP" /\ t.file = ".mcp.json"))

buildPluginTargets ==
    withoutProjectMCP(FlattenSeq([i \in DOMAIN pluginRoots |->
        IF pluginRoots[i] = RepositoryPlugin THEN scanPluginRoot ELSE skillsDirPluginTargets(pluginRoots[i])]))

(* Mutant: skills/ is read beside the plugins.                               *)
AllRootSkills(have) == SkillParts(RepositoryPlugin.skill)

rootSkillTargets(have) == IF RepositoryPlugin.skill \in {t.file : t \in Range(have)} THEN <<>> ELSE SkillParts(RepositoryPlugin.skill)

(* The skills that the instruction stage has read.                           *)
dropDuplicateInstructions(ts) ==
    SelectSeq(ts, LAMBDA t : ~(t.part \in {"Instructions", "Subagent", "SkillShell"} /\ t.file \in ClaudeSkills))

withPackageTargets == dropDuplicateInstructions(buildPluginTargets \o rootSkillTargets(buildPluginTargets))
=============================================================================
