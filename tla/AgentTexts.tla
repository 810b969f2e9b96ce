----------------------------- MODULE AgentTexts -----------------------------
(* The instruction files each agent loads from a project, from what the      *)
(* comments of main.go and roo.go record of the agents: where it looks, how  *)
(* deep, which of several files it takes and what it leaves out.  The agents *)
(* are not part of the repository; they run on a file system that tells      *)
(* spellings apart.                                                          *)
EXTENDS AgentLayers

VARIABLE places   \* where an instruction file lies: path -> the agent's directory, those below it, name and extension

There == {f \in DOMAIN places : "text" \in Blocks(f)}
Below(dirs) == {f \in There : places[f].dir \in dirs}
Level(n, dirs) == {f \in Below(dirs) : Len(places[f].sub) = n}
Named(name, fs) == {f \in fs : places[f].name = name}
Ending(exts, fs) == {f \in fs : places[f].ext \in exts}
Markdown(fs) == Ending({"md", "instructions.md", "prompt.md"}, fs)
Rules(fs) == Markdown(fs) \cup Ending({"markdown", "txt"}, fs)
Skills(fs) == Named("SKILL", Ending({"md"}, fs))
-----------------------------------------------------------------------------
ClaudeTexts ==
    LET own == There \cap {".claude/CLAUDE.md", "CLAUDE.local.md"}
        fallback == There \cap {"AGENTS.md", ".claude/AGENTS.md"}
    IN  (IF own = {} THEN fallback ELSE own)
        \cup Markdown(Level(0, {".claude/agents"})) \cup Skills(Level(1, {".claude/skills"}))
        \cup Markdown(Below({".claude/commands", ".claude/rules", ".claude/output-styles"}))

CursorTexts ==
    (There \cap {".cursorrules"}) \cup Ending({"mdc"}, Below({".cursor/rules"}))
    \cup Markdown(Level(0, {".cursor/commands", ".cursor/agents", ".codex/agents"}))
    \cup Skills(Below({".cursor/skills", ".codex/skills"}))

CopilotTexts ==
    (There \cap {".github/copilot-instructions.md"}) \cup Ending({"instructions.md"}, Below({".github/instructions"}))
    \cup Ending({"prompt.md"}, Level(0, {".github/prompts"})) \cup Markdown(Below({".github/agents"}))
    \cup Skills(Below({".github/skills", ".agents/skills"}))

(* A disabled file of Cline is not loaded; hooks are not instructions.       *)
ClineDisabled(f) == Has(f, "disabled") \/ (Has(f, "enabledFalse") /\ ~Has(f, "disabledFalse"))
ClineTexts ==
    LET hooks == {f \in Below({".clinerules"}) : places[f].sub # <<>> /\ places[f].sub[1] = "hooks"}
        read == Rules((Below({".clinerules", ".cline/rules"}) \ hooks) \cup Level(0, {".cline/workflows"}))
                \cup Skills(Level(0, {".cline/skills"}) \cup Level(1, {".cline/skills"}))
    IN  {f \in read : ~ClineDisabled(f)} \cup Ending({"yml"}, Level(0, {".cline/agents"}))

(* Of the names of a subagent's definition, the first that is there.         *)
DevinNames == <<"AGENT", "AGENTS", "agent", "agents">>
DevinDefinition(sub) ==
    LET of(name) == Named(name, {f \in Below({".devin/agents"}) : places[f].sub = sub})
        there == SelectSeq(DevinNames, LAMBDA name : of(name) # {})
    IN  IF there = <<>> THEN {} ELSE of(there[1])
DevinTexts ==
    (There \cap {"AGENTS.local.md", ".windsurfrules", ".windsurf/global_rules.md"})
    \cup Markdown(Below({".devin/rules", ".windsurf/rules"}) \cup Level(0, {".devin/workflows", ".windsurf/workflows", ".devin/agents"}))
    \cup Skills(Level(1, {".devin/skills", ".windsurf/skills"}))
    \cup UNION {DevinDefinition(places[f].sub) : f \in Level(1, {".devin/agents"})}

(* A plain file at the top is a skill unless a directory of its name is one. *)
Installed(fs) == {f \in fs : "node_modules" \in Range(places[f].sub)}
KimiSkillDirs == {".kimi-code/skills", ".agents/skills"}
KimiShadowed(f) == \E s \in Skills(Level(1, {places[f].dir})) : places[s].sub = <<places[f].name>>
KimiTexts ==
    (There \cap {"AGENTS.md", "agents.md", ".kimi-code/AGENTS.md"}) \cup Markdown(Below({".kimi-code/agents", ".agents/agents"}))
    \cup Skills(Below(KimiSkillDirs) \ Installed(Below({".kimi-code/skills"}))) \cup {f \in Markdown(Level(0, KimiSkillDirs)) : ~KimiShadowed(f)}

(* Roo Code falls back to the file at the root.                              *)
Junk == {"bak", "cache", "log", "tmp"}
RooTexts ==
    LET of(dir, fallback) ==
            LET rules == Below({dir}) \ Ending(Junk, There) IN IF rules = {} THEN There \cap {fallback} ELSE rules
    IN  of(".roo/rules", ".roorules") \cup of(".roo/rules-code", ".roorules-code") \cup (There \cap {".roomodes"})

OtherTexts ==
    (There \cap {".rules", ".clinerules", ".continuerules", "AGENT.md", "GEMINI.md", "QWEN.md"})
    \cup Markdown(Level(0, {".grok/rules", ".grok/agents", ".qwen/agents", ".qwen/commands", ".qwen/output-styles",
                            ".opencode/mode", ".opencode/modes"}))
    \cup (Markdown(Level(0, {".gemini/agents"})) \ Named("_a", There))
    \cup Skills(Level(1, {".qwen/skills", ".gemini/skills"}) \cup Level(0, {".gemini/skills"}))
    \cup Markdown(Below({".qwen/rules", ".continue/rules", ".continue/prompts",
                         ".opencode/agent", ".opencode/agents", ".opencode/command", ".opencode/commands"}))
    \cup Skills(Below({".continue/skills", ".opencode/skill", ".opencode/skills"}))

(* OpenCode merges the permissions of an agent's file, and runs what lies     *)
(* directly in its directories; Copilot starts one file of an extension.     *)
OpenCodeAgents == Markdown(Below({".opencode/agent", ".opencode/agents"}) \cup Level(0, {".opencode/mode", ".opencode/modes"}))
Code(n, dirs, exts) == {f \in DOMAIN places : Has(f, "code") /\ places[f].dir \in dirs /\ Len(places[f].sub) = n /\ places[f].ext \in exts}
OpenCodeCodeDirs == {".opencode/plugin", ".opencode/plugins", ".opencode/tool", ".opencode/tools"}
Entries(ext) == Named("extension", Code(1, {".github/extensions"}, {ext}))
Started ==
    LET before(e) == CASE e = "mjs" -> {} [] e = "cjs" -> {"mjs"} [] OTHER -> {"mjs", "cjs"}
        first(f) == \A e \in before(places[f].ext) : \A g \in Entries(e) : places[g].sub # places[f].sub
    IN  {f \in UNION {Entries(e) : e \in {"mjs", "cjs", "js"}} : first(f)}
Run == Code(0, OpenCodeCodeDirs, {"ts", "js"}) \cup Started

LoadedTexts ==
    UNION {ClaudeTexts, CursorTexts, CopilotTexts, ClineTexts, DevinTexts, KimiTexts, RooTexts, OtherTexts}
Loaded == (LoadedTexts \X {"text"}) \cup UsesOf(OpenCodeAgents, {"permissions"}) \cup (Run \X {"code"})
=============================================================================
