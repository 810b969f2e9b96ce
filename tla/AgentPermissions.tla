-------------------------- MODULE AgentPermissions --------------------------
(***************************************************************************)
(* What an agent does with one concrete request: a command line, a path, a *)
(* host or an MCP tool, without wildcards.  This is the agents' behaviour, *)
(* as the comments of rules/policy*.go and docs/rules/CFG025.md describe   *)
(* it, and the measure of what CFG025 concludes from comparing patterns.   *)
(***************************************************************************)
EXTENDS PolicyFileChecks

pathGlob(p, r) == starGlob(IF Head(p) = "**" THEN <<"...">> \o Tail(p) ELSE p, r)

\* What a neutral entry stands for.
Means(category, v, r) ==
    CASE category = "commands"          -> IsPrefix(v, r)
      [] category \in {"read", "write"} -> Home(v) = Home(r) /\ pathGlob(v, r)
      [] category = "fetch"             -> r = v \/ (Head(v) = "*" /\ IsStrictSuffix(Tail(v), r))
      [] OTHER                          -> v = r \/ (Last(v) = "*" /\ IsStrictPrefix(Front(v), r))
-----------------------------------------------------------------------------
(* Claude Code, Devin CLI, Cursor CLI, Qwen Code and Grok.                 *)

ToolsOf(agent, category) ==
    CASE category = "commands" ->
           (CASE agent = "devin" -> {"Exec", "exec"} [] agent = "cursor-cli" -> {"Shell", "Bash"}
              [] agent = "qwen-code" -> qwenShellTools [] OTHER -> {"Bash"})
      [] category = "read"  ->
           (CASE agent = "devin" -> {"Read", "read"}
              [] agent = "qwen-code" -> {"Read", "read_file", "ReadFile", "ReadFileTool"} [] OTHER -> {"Read"})
      [] category = "write" ->
           (CASE agent = "claude-code" -> {"Read", "Edit"} [] agent = "devin" -> {"Write", "edit"}
              [] agent = "cursor-cli" -> {"Write"} [] agent = "qwen-code" -> {"Edit", "edit", "EditTool"}
              [] OTHER -> {"Edit", "Write"})
      [] category = "fetch" ->
           (CASE agent = "devin" -> {"Fetch domain", "Fetch url"}
              [] agent = "qwen-code" -> {"WebFetch", "web_fetch", "WebFetchTool"} [] OTHER -> {"WebFetch"})
      [] OTHER ->
           (CASE agent = "cursor-cli" -> {"Mcp"} [] agent = "grok" -> {"mcp", "MCPTool"} [] OTHER -> {"mcp"})

\* Cursor compares with the absolute path, Grok takes ~ for text.
absolute(r) == IF Home(r) THEN r ELSE <<"work">> \o r

CommandMatches(agent, p, r) ==
    CASE agent = "claude-code" -> IF p = <<>> \/ Starred(p) THEN IsPrefix(Literal(p), r) ELSE p = r
      [] agent = "cursor-cli"  -> p # <<>> /\ cursorShellMatches(p, r)
      [] agent = "grok"        -> grokCommandMatches(p, r)
      [] agent = "devin"       -> hasCmdPrefix(r, p)
      [] OTHER                 -> qwenCommandMatches(p, r)

PathMatches(agent, p, r) ==
    CASE agent = "cursor-cli"  -> p # <<>> /\ starGlob(p, absolute(r))
      [] agent = "grok"        -> LET q == relativePath(p)
                                  IN  p \in {<<>>, <<"*">>} \/ (Head(q) # "~" /\ pathGlob(q, r))
      [] OTHER                 -> LET q == IF agent = "claude-code" THEN claudeGlob(p) ELSE qwenPath(p)
                                  IN  p = <<>> \/ (Home(q) = Home(r) /\ pathGlob(q, r))

HostMatches(agent, e, r) ==
    \/ e.arg \in {<<>>, <<"*">>, r}
    \/ agent \in {"claude-code", "devin"} /\ Head(e.arg) = "*" /\ IsStrictSuffix(Tail(e.arg), r)
    \/ agent = "qwen-code" /\ "*" \notin ToSet(e.arg) /\ IsSuffix(e.arg, r)
    \/ agent = "grok" /\ "*" \notin ToSet(e.arg) /\ IsSuffix(withoutWWW(e.arg), withoutWWW(r))

McpMatches(agent, e, r) ==
    \/ e.arg \in {<<"*">>, <<>>} /\ agent # "cursor-cli"
    \/ e.arg # <<>> /\ agent = "cursor-cli" /\ Head(e.arg) \in {Head(r), "*"} /\ starGlob(Tail(e.arg), Tail(r))
    \/ /\ e.arg # <<>> /\ agent # "cursor-cli" /\ Head(e.arg) = mcpServerName(Head(r))
       /\ \/ Tail(e.arg) = <<>> /\ e.tool = "mcp" /\ agent # "devin"
          \/ Tail(e.arg) = Tail(r)
          \/ Last(e.arg) = "*" /\ IsStrictPrefix(Front(Tail(e.arg)), Tail(r))

Matches(agent, category, e, r) ==
    /\ e.tool \in ToolsOf(agent, category)
    /\ CASE category = "commands"          -> CommandMatches(agent, e.arg, r)
         [] category \in {"read", "write"} -> PathMatches(agent, e.arg, r)
         [] category = "fetch"             -> HostMatches(agent, e, r)
         [] OTHER                          -> McpMatches(agent, e, r)

\* Claude Code skips an allow glob that is not anchored at a server.
ListEffect(agent, file, category, r) ==
    IF \E e \in ListEntries(agent, file, "deny") : Matches(agent, category, e, r) THEN "deny"
    ELSE IF \E e \in ListEntries(agent, file, "allow") :
               /\ Matches(agent, category, e, r)
               /\ agent = "claude-code" => ~(e.tool = "mcp" /\ e.arg = <<"*">>) THEN "allow"
    ELSE "ask"
-----------------------------------------------------------------------------
(* OpenCode and Kilo Code ask with the request itself; a path outside the  *)
(* project is asked for by its directory.                                  *)

OrderedRequest(agent, category, r) ==
    CASE category = "commands"  -> [action |-> <<"bash">>, resource |-> r]
      [] category = "fetch"     -> [action |-> <<"webfetch">>,
                                    resource |-> IF agent = "opencode" THEN <<"*">> ELSE <<"https">> \o r \o <<"index">>]
      [] category = "mcp-tools" -> [action |-> <<mcpServerName(Head(r))>> \o Tail(r), resource |-> <<"*">>]
      [] OTHER -> IF Home(r) THEN [action |-> <<"external_directory">>, resource |-> Front(r) \o <<"*">>]
                  ELSE [action |-> IF category = "read" THEN <<"read">> ELSE <<"edit">>, resource |-> r]

OrderedEffects(agent, file, category, r) ==
    {orderedEffect(file, where, OrderedRequest(agent, category, r)) : where \in Blocks(file)}
-----------------------------------------------------------------------------
(* Codex and Roo Code.                                                     *)

Under(key, r) == LET dir == IF Last(key) = "**" THEN Front(key) ELSE key IN IsPrefix(dir, r)

CodexRefuses(file, category, r) ==
    CASE category = "commands" -> \E p \in Args(file, "prefix_rule", "forbidden") : IsPrefix(p, r)
      [] category = "mcp-tools" ->
           LET enabled == {n \in Args(file, "enabled_tools", "on") : Head(n) = Head(r)} IN
           ~Configured(file, r) \/ (enabled # {} /\ r \notin enabled) \/ Has(file, "disabled_tools", r, {"deny"})
      [] category = "fetch" ->
           ProfileSelected(file) /\ \E x \in ToSet(file) :
             \/ x.tool = "network" /\ x.effect = "off"
             \/ x.tool = "domains" /\ x.effect = "deny"
                /\ (x.arg \in {r, <<"*">>} \/ (Head(x.arg) = "*" /\ IsStrictSuffix(Tail(x.arg), r)))
      [] OTHER ->
           ProfileSelected(file) /\ \E x \in ToSet(file) :
             /\ x.effect \in codexBlocks(category)
             /\ \/ x.tool = "filesystem" /\ (x.arg = <<":root">> \/ (Home(r) /\ Under(x.arg, r)))
                \/ x.tool = "filesystem" /\ ~Home(r) /\ x.arg = <<":workspace_roots">>
                \/ x.tool = "workspace" /\ ~Home(r) /\ pathGlob(x.arg, r)

CodexRuns(file, category, r) ==
    /\ ~CodexRefuses(file, category, r)
    /\ \/ category = "commands" /\ \E p \in Args(file, "prefix_rule", "allow") : IsPrefix(p, r)
       \/ category = "mcp-tools" /\ \E n \in Args(file, "approve", "allow") : n \in {<<Head(r)>>, r}

\* A line without a slash is for any depth, one that starts with it is not.
rooIgnores(line, r) ==
    LET p == unrooted(line) IN pathGlob(IF p = line THEN claudeGlob(p) ELSE p, r) \/ Under(p, r)

\* The lines of .rooignore a path comes under.
rooLines(file, r) == {i \in DOMAIN file : file[i].tool = ".rooignore" /\ rooIgnores(file[i].arg, r)}

RooRefuses(file, category, r) ==
    CASE category = "commands"  -> rooDenied(file, r)
      [] category = "mcp-tools" -> rooMCPDenied(file, r)
      [] category = "fetch"     -> FALSE
      [] OTHER                  ->
           ~Home(r) /\ LastEffect(file, rooLines(file, r), "allow") = "deny"

RooRuns(file, category, r) ==
    \/ /\ category = "commands" /\ ~rooDenied(file, r)
       /\ rooLongestPrefix(Args(file, "allowedCommands", "allow"), r) > 0
    \/ category = "mcp-tools" /\ ~rooMCPDenied(file, r) /\ Configured(file, r)
       /\ \E n \in Args(file, "alwaysAllow", "allow") : Head(n) = Head(r) /\ Tail(n) \in {<<"*">>, Tail(r)}
-----------------------------------------------------------------------------
(* Every agent.                                                            *)

GeminiRefuses(file, category, r) ==
    IF category = "mcp-tools" THEN \E s \in {<<Head(r)>>, <<"*">>} : Has(file, "mcp.excluded", s, {"deny"})
    ELSE \A tool \in geminiTools[category] : geminiOff(file, tool)

PiRefuses(file, category) == category \in DOMAIN piTools /\ piTools[category] \cap piEnabled(file) = {}

Refuses(agent, file, category, r) ==
    CASE agent \in ListAgents   -> ListEffect(agent, file, category, r) = "deny"
      [] agent \in Ordered      -> OrderedEffects(agent, file, category, r) = {"deny"}
      [] agent = "codex"        -> CodexRefuses(file, category, r)
      [] agent = "roo-code"     -> RooRefuses(file, category, r)
      [] agent = "antigravity"  -> category = "mcp-tools" /\ rooMCPDenied(file, r)
      [] agent = "gemini-cli"   -> GeminiRefuses(file, category, r)
      [] agent = "pi"           -> PiRefuses(file, category)
      [] OTHER                  -> FALSE

Runs(agent, file, category, r) ==
    CASE agent \in ListAgents   -> ListEffect(agent, file, category, r) = "allow"
      [] agent \in Ordered      -> "allow" \in OrderedEffects(agent, file, category, r)
      [] agent = "codex"        -> CodexRuns(file, category, r)
      [] agent = "roo-code"     -> RooRuns(file, category, r)
      [] agent = "cursor"       -> ListEffect("cursor-cli", file, category, r) = "allow"
      [] agent = "gemini-cli"   -> category = "commands" /\ \E a \in Args(file, "tools.allowed", "allow") : IsPrefix(a, r)
      [] agent = "vscode"       -> /\ category = "commands"
                                   /\ \E k \in Args(file, "autoApprove", "allow") : IsPrefix(k, r)
                                   /\ \A k \in Args(file, "autoApprove", "deny") : ~IsPrefix(k, r)
      [] OTHER                  -> FALSE
=============================================================================
