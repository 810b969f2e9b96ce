--------------------------- MODULE InstructionFiles ---------------------------
(* The files that instructionTargets reads, one operator per list of the     *)
(* code.  A file that two lists name gets two targets.                       *)
EXTENDS AgentTexts, TargetParts

(* scanroot's lookup of a name: a file of that spelling, or the one file     *)
(* there with another one.                                                   *)
Spellings == {{"AGENT", "agent"}, {"AGENTS", "agents", "Agents"}, {"SKILL", "skill"}}
SameName(a, b) == a = b \/ \E s \in Spellings : {a, b} \subseteq s
Opened(dir, sub, name) ==
    LET at == Ending({"md"}, {f \in Below({dir}) : places[f].sub = sub})
        other == {f \in at : SameName(places[f].name, name)}
    IN  IF Named(name, at) # {} THEN Named(name, at) ELSE IF Cardinality(other) = 1 THEN other ELSE {}
-----------------------------------------------------------------------------
Listed(fs) == FoldSet(LAMBDA f, list : Append(list, f), <<>>, fs)

(* Mutant: both names are read.                                              *)
BothAgentsNames == Listed(Opened("", <<>>, "AGENTS")) \o Listed(Opened("", <<>>, "agents"))

(* One file under both names is read once.                                   *)
AgentsPair ==
    LET upper == Opened("", <<>>, "AGENTS")
        lower == Opened("", <<>>, "agents")
    IN  IF upper = lower THEN Listed(upper) ELSE Listed(upper) \o Listed(lower)

agentInstructionFiles ==
    There \cap {".cursorrules", ".windsurfrules", ".rules", ".continuerules", ".claude/CLAUDE.md", "CLAUDE.local.md", ".claude/AGENTS.md",
                ".kimi-code/AGENTS.md", "AGENTS.local.md", "AGENT.md", "GEMINI.md", "QWEN.md", ".github/copilot-instructions.md",
                ".windsurf/global_rules.md"}

agentInstructionGlobs ==
    Markdown(Level(0, {".cursor/rules", ".cursor/commands", ".cursor/agents", ".codex/agents", ".cline/workflows", ".devin/agents",
                       ".opencode/mode", ".opencode/modes", ".devin/workflows", ".windsurf/workflows", ".claude/agents",
                       ".grok/rules", ".grok/agents", ".qwen/agents", ".qwen/commands", ".qwen/output-styles"}))
    \cup Ending({"markdown", "txt"}, Level(0, {".cline/workflows"})) \cup Ending({"yml"}, Level(0, {".cline/agents"}))
    \cup Ending({"prompt.md"}, Level(0, {".github/prompts"}))
    \cup Skills(Level(0, {".cline/skills", ".gemini/skills"})
                \cup Level(1, {".cline/skills", ".gemini/skills", ".devin/skills", ".windsurf/skills", ".claude/skills", ".qwen/skills"}))

agentRulesFiles == Markdown(Below({".claude/commands", ".claude/output-styles", ".claude/rules", ".qwen/rules"}))

filteredInstructionFiles ==
    Ending({"instructions.md"}, Below({".github/instructions"})) \cup Ending({"mdc"}, Below({".cursor/rules"}))
    \cup Markdown(Below({".github/agents", ".devin/rules", ".windsurf/rules", ".continue/rules", ".continue/prompts",
                         ".opencode/agent", ".opencode/agents", ".opencode/command", ".opencode/commands"}))
    \cup Skills(Below({".codex/skills", ".continue/skills", ".opencode/skill", ".opencode/skills"}))
-----------------------------------------------------------------------------
(* Mutant: a plain file is a skill even beside the directory of its name.    *)
PlainSkillsToo == Skills(Below({".kimi-code/skills"})) \cup (Markdown(Level(0, KimiSkillDirs)) \ Named("SKILL", There))

kimiSkillFiles ==
    LET plain == Markdown(Level(0, KimiSkillDirs)) \ Named("SKILL", There)
        brand == Below({".kimi-code/skills"})
    IN  Skills(brand \ Installed(brand)) \cup {f \in plain : Opened(places[f].dir, <<places[f].name>>, "SKILL") = {}}

rooInstructionFiles ==
    (Below({".roo/rules", ".roo/rules-code"}) \ Ending(Junk, There)) \cup (There \cap {".roorules", ".roorules-code", ".roomodes"})

(* The first name that a directory opens.                                    *)
devinAgentDirFiles ==
    LET first(sub) ==
            LET there == SelectSeq(DevinNames, LAMBDA name : Opened(".devin/agents", sub, name) # {})
            IN  IF there = <<>> THEN {} ELSE Opened(".devin/agents", sub, there[1])
    IN  UNION {first(places[f].sub) : f \in Level(1, {".devin/agents"})}

agentSkillsFiles(dirs) == Ending({"md"}, {f \in Below(dirs) : SameName(places[f].name, "SKILL")})

(* Mutant: hooks at any depth are left out.                                  *)
NoHooksAnywhere ==
    Rules({f \in Below({".clinerules", ".cline/rules"}) : "hooks" \notin Range(places[f].sub)}) \cup (There \cap {".clinerules"})

clineRulesFiles ==
    LET hook(f) == places[f].dir = ".clinerules" /\ places[f].sub # <<>> /\ places[f].sub[1] = "hooks"
    IN  Rules({f \in Below({".clinerules", ".cline/rules"}) : ~hook(f)})
        \cup (There \cap {".clinerules"})

kimiAgentFiles == Markdown(Below({".kimi-code/agents", ".agents/agents"}))
geminiAgentFiles == Markdown(Level(0, {".gemini/agents"})) \ Named("_a", There)

(* The newer spelling of the switch decides when it is there.                *)
clineDisabledFile(f) ==
    /\ places[f].dir \in {".clinerules", ".cline/rules", ".cline/workflows", ".cline/skills"}
    /\ IF Has(f, "disabled") \/ Has(f, "disabledFalse") THEN Has(f, "disabled") ELSE Has(f, "enabledFalse")

InstructionPaths ==
    LET lists == <<agentInstructionGlobs, agentRulesFiles, filteredInstructionFiles, kimiSkillFiles, rooInstructionFiles, devinAgentDirFiles,
                   agentSkillsFiles({".agents/skills", ".github/skills"}), agentSkillsFiles({".cursor/skills"}), clineRulesFiles,
                   kimiAgentFiles, geminiAgentFiles>>
    IN  Listed(agentInstructionFiles) \o AgentsPair \o FlattenSeq([i \in DOMAIN lists |-> Listed(lists[i])])

openCodeAgentPermissionTargets == Parts(Listed(OpenCodeAgents), "OpenCode", {"permissions"})

openCodeCodeTargets == Parts(Listed(Code(0, OpenCodeCodeDirs, {"ts", "js"})), "AgentCode", {"code"})

(* The first entry file of each extension.                                   *)
copilotExtensionTargets ==
    LET entry(sub) ==
            LET of(ext) == {f \in Entries(ext) : places[f].sub = sub}
                there == SelectSeq(<<"mjs", "cjs", "js">>, LAMBDA ext : of(ext) # {})
            IN  IF there = <<>> THEN {} ELSE of(there[1])
    IN  Parts(Listed(UNION {entry(places[f].sub) : f \in UNION {Entries(ext) : ext \in {"mjs", "cjs", "js"}}}), "AgentCode", {"code"})

InstructionParts == Parts(SelectSeq(InstructionPaths, LAMBDA f : ~clineDisabledFile(f)), "Instructions", {"text"})
=============================================================================
