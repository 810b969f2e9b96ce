--------------------------- MODULE PolicyEntries ---------------------------
(***************************************************************************)
(* One entry of the agent-neutral policy against one entry of an agent's   *)
(* permission file (rules/policy.go, rules/policyqwengrok.go, parsePerm in *)
(* rules/cfg025.go): which entries block everything the neutral one names, *)
(* and which entry a finding tells the team to add.                        *)
(*                                                                         *)
(* Texts are sequences of parts: a command is its words, a path its        *)
(* segments, a domain its labels, an MCP entry the server and the parts of *)
(* the tool name.  A part is compared as a whole, except for the wildcards.*)
(* The parts of a tool name are joined by _, which a wildcard after them    *)
(* keeps: delete_* names the tools that go on after "delete", so prefixes  *)
(* of tool names are strict.                                               *)
(* A permission entry is a record with a tool and an argument, and a bare  *)
(* tool name has the empty argument.                                       *)
(***************************************************************************)
EXTENDS Naturals, Sequences, SequencesExt

CONSTANTS Parts,       \* what texts are made of
          Underscored  \* Underscored[s]: the server name s, with _ for each dot and space

\* What CFG025 puts into the requests it asks ordered and prefix lists about.
ProbeParts == {"bash", "read", "edit", "webfetch", "external_directory", "probe", "a", "b", "api", "https", "http", "x",
               "origin", "main", "--force"}

ASSUME PartsAssumption ==
    /\ {"*", "**", ":*", "...", "~", "/", "work"} \subseteq Parts
    /\ ProbeParts \subseteq Parts
    /\ \A s \in DOMAIN Underscored : Underscored[s] \in Parts

Categories == {"commands", "read", "write", "fetch", "mcp-tools"}

Text == Seq(Parts)
Stars == {"*", "**"}
Wildcards == Stars \cup {":*", "..."}
Plain(p) == \A i \in 1..Len(p) : p[i] \notin Wildcards
Dotless(p) == \A i \in 1..Len(p) : p[i] # "..."
Starred(p) == p # <<>> /\ Last(p) \in {"*", ":*"}
Literal(p) == IF Starred(p) THEN Front(p) ELSE p

\* What part x of a pattern may end at, when the parts before it end at one of
\* the places before: a wildcard stands for one part or more, "..." for any
\* number of them.
EndsAfter(x, s, before) ==
    CASE x \in Stars -> {j \in 1..Len(s) : \E k \in before : k < j}
      [] x = "..."   -> {j \in 0..Len(s) : \E k \in before : k <= j}
      [] OTHER       -> {j \in 1..Len(s) : s[j] = x /\ j - 1 \in before}

starGlob(p, s) ==
    LET ends[i \in 0..Len(p)] == IF i = 0 THEN {0} ELSE EndsAfter(p[i], s, ends[i - 1])
    IN  Len(s) \in ends[Len(p)]

Entry(tool, arg) == [tool |-> tool, arg |-> arg]
-----------------------------------------------------------------------------
(* What the agents' syntaxes have in common.                               *)

hasCmdPrefix(cmd, prefix) == IsPrefix(prefix, cmd)

\* "./src" is "src".
relativePath(p) == IF Len(p) > 1 /\ Head(p) = "." THEN Tail(p) ELSE p

\* Every path v matches is one e matches, as far as the two texts tell.
globCovers(e, v) ==
    \/ e = v
    \/ e \in {<<"**">>, <<"**", "*">>} /\ Head(v) # "~"
    \/ Len(e) > 1 /\ Last(e) = "**" /\ IsStrictPrefix(Front(e), v)

Domain(v) == IF Head(v) = "*" THEN Tail(v) ELSE v

\* "*.d" names the subdomains of d at any depth, and not d.
domainCovers(e, v) ==
    \/ e \in {v, <<"*">>}
    \/ Len(e) > 1 /\ Head(e) = "*" /\ IsStrictSuffix(Tail(e), Domain(v))

\* A host and its subdomains, for Qwen Code and Grok.
hostCovers(e, v) == e # <<>> /\ "*" \notin ToSet(e) /\ IsSuffix(e, Domain(v))

mcpServerName(s) == IF s \in DOMAIN Underscored THEN Underscored[s] ELSE s

mcpSpell(v) == Entry("mcp", <<mcpServerName(Head(v))>> \o Tail(v))

mcpCovers(arg, v, bareServer) ==
    \/ arg = <<"*">>
    \/ /\ Head(arg) = mcpServerName(Head(v))
       /\ \/ Tail(arg) = <<>> /\ bareServer
          \/ Tail(arg) = Tail(v)
          \/ Tail(arg) # <<>> /\ Last(arg) = "*" /\ IsStrictPrefix(Front(Tail(arg)), Tail(v))

mcpOverlaps(arg, v, bareServer) ==
    \/ arg = <<"*">>
    \/ /\ Head(arg) = mcpServerName(Head(v))
       /\ LET ep == Literal(Tail(arg))
              vp == Literal(Tail(v)) IN
          \/ Tail(arg) = <<>> /\ bareServer
          \/ /\ Tail(arg) # <<>>
             /\ \/ Tail(arg) = Tail(v)
                \/ Last(arg) = "*" /\ IsStrictPrefix(ep, Tail(v))
                \/ Last(v) = "*" /\ IsStrictPrefix(vp, Tail(arg))
                \/ Last(arg) = "*" /\ Last(v) = "*" /\ (IsPrefix(ep, vp) \/ IsPrefix(vp, ep))
-----------------------------------------------------------------------------
(* Claude Code.                                                            *)

\* A pattern without a slash matches at any depth.
claudeGlob(p) ==
    LET rest == relativePath(p)
    IN  IF Len(rest) = 1 THEN <<"**">> \o rest ELSE rest

claudeCovers(category, e, v) ==
    \/ /\ category = "commands" /\ e.tool = "Bash"
       /\ e.arg = <<>> \/ (Starred(e.arg) /\ hasCmdPrefix(v, Literal(e.arg)))
    \/ /\ category \in {"read", "write"}
       /\ e.tool \in (IF category = "write" THEN {"Read", "Edit"} ELSE {"Read"})
       /\ e.arg = <<>> \/ globCovers(claudeGlob(e.arg), claudeGlob(v))
    \/ /\ category = "fetch" /\ e.tool = "WebFetch"
       /\ e.arg = <<>> \/ domainCovers(e.arg, v)
    \/ category = "mcp-tools" /\ e.tool = "mcp" /\ mcpCovers(e.arg, v, TRUE)

\* overlap: a command both entries match.
claudeOverlaps(category, e, v) ==
    \/ /\ category = "commands" /\ e.tool = "Bash"
       /\ \/ hasCmdPrefix(Literal(e.arg), v)
          \/ (e.arg = <<>> \/ Starred(e.arg)) /\ hasCmdPrefix(v, Literal(e.arg))
    \/ category = "mcp-tools" /\ e.tool = "mcp" /\ e.arg # <<"*">> /\ mcpOverlaps(e.arg, v, TRUE)

claudeSpell(category, v) ==
    CASE category = "commands" -> Entry("Bash", v \o <<"*">>)
      [] category = "read"     -> Entry("Read", v)
      [] category = "write"    -> Entry("Edit", v)
      [] category = "fetch"    -> Entry("WebFetch", v)
      [] OTHER                 -> mcpSpell(v)
-----------------------------------------------------------------------------
(* Devin CLI.  A fetch entry is a domain or a URL pattern.                 *)

devinCovers(category, e, v) ==
    \/ category = "commands" /\ (e.tool = "exec" \/ (e.tool = "Exec" /\ hasCmdPrefix(v, e.arg)))
    \/ category = "read" /\ (e.tool = "read" \/ (e.tool = "Read" /\ globCovers(e.arg, v)))
    \/ category = "write" /\ (e.tool = "edit" \/ (e.tool = "Write" /\ globCovers(e.arg, v)))
    \/ category = "fetch" /\ e.tool = "Fetch domain" /\ e.arg = v /\ "*" \notin ToSet(v)
    \/ category = "fetch" /\ e.tool = "Fetch url" /\ domainCovers(e.arg, v)
    \/ category = "mcp-tools" /\ e.tool = "mcp" /\ mcpCovers(e.arg, v, FALSE)

devinOverlaps(category, e, v) ==
    \/ /\ category = "commands"
       /\ \/ e.tool = "exec"
          \/ e.tool = "Exec" /\ (hasCmdPrefix(v, e.arg) \/ hasCmdPrefix(e.arg, v))
    \/ category = "mcp-tools" /\ e.tool = "mcp" /\ mcpOverlaps(e.arg, v, FALSE)

devinSpell(category, v) ==
    CASE category = "commands" -> Entry("Exec", v)
      [] category = "read"     -> Entry("Read", v)
      [] category = "write"    -> Entry("Write", v)
      [] category = "fetch"    -> Entry(IF Head(v) = "*" THEN "Fetch url" ELSE "Fetch domain", v)
      [] OTHER                 -> mcpSpell(v)
-----------------------------------------------------------------------------
(* Cursor CLI.                                                             *)

\* matchesShell: the whole command, the base, a word prefix, or, with a colon,
\* command and arguments apart.
cursorShellMatches(p, command) ==
    LET base == <<Head(command)>> IN
    \/ p # <<>> /\ Last(p) = ":*" /\ (starGlob(Front(p), base) \/ starGlob(Front(p), command))
    \/ starGlob(p, command) \/ IsStrictPrefix(p, command) \/ starGlob(p, base)

\* Patterns are compared with the absolute path.
cursorPathTarget(v) == IF Head(v) \in {"~", "**"} /\ Len(v) > 1 THEN v ELSE <<"**">> \o v

\* Mutant: only the command without arguments is asked for.
cursorCoversBare(category, e, v) ==
    \/ category = "commands" /\ e.tool \in {"Shell", "Bash"} /\ cursorShellMatches(e.arg, v)
    \/ category = "read" /\ e.tool = "Read" /\ starGlob(e.arg, cursorPathTarget(v))
    \/ category = "write" /\ e.tool = "Write" /\ starGlob(e.arg, cursorPathTarget(v))

\* The command with and without arguments, since one alone leaves the other.
cursorCovers(category, e, v) ==
    \/ /\ category = "commands" /\ e.tool \in {"Shell", "Bash"} /\ e.arg # <<>>
       /\ cursorShellMatches(e.arg, v) /\ cursorShellMatches(e.arg, v \o <<"*">>)
    \/ /\ \/ category = "read" /\ e.tool = "Read"
          \/ category = "write" /\ e.tool = "Write"
       /\ e.arg # <<>> /\ starGlob(e.arg, cursorPathTarget(v))
    \/ /\ category = "mcp-tools" /\ e.tool = "Mcp" /\ e.arg # <<>>
       /\ Head(e.arg) \in {Head(v), "*"} /\ starGlob(Tail(e.arg), Tail(v))

cursorOverlaps(category, e, v) ==
    \/ /\ category = "commands" /\ e.tool \in {"Shell", "Bash"} /\ e.arg # <<>>
       /\ \/ cursorShellMatches(e.arg, v) \/ cursorShellMatches(e.arg, v \o <<"*">>)
          \/ hasCmdPrefix(Literal(e.arg), v)
    \/ /\ category = "mcp-tools" /\ e.tool = "Mcp" /\ e.arg # <<>>
       /\ Head(e.arg) \in {Head(v), "*"}
       /\ starGlob(Tail(e.arg), Tail(v)) \/ starGlob(Tail(v), Tail(e.arg))

cursorSpell(category, v) ==
    CASE category = "commands" -> Entry("Shell", v)
      [] category = "read"     -> Entry("Read", cursorPathTarget(v))
      [] category = "write"    -> Entry("Write", cursorPathTarget(v))
      [] OTHER                 -> Entry("Mcp", v)
-----------------------------------------------------------------------------
(* Qwen Code and Grok.                                                     *)

\* A * after a space also matches nothing, one in front does not, and a pattern
\* without one is a word prefix.
qwenCommandArg(arg) == [i \in DOMAIN arg |-> IF i > 1 /\ arg[i] \in Wildcards THEN "..." ELSE arg[i]]

qwenCommandMatches(p, command) ==
    IF Plain(p) THEN hasCmdPrefix(command, p) ELSE starGlob(qwenCommandArg(p), command)

qwenShellTools == {"Bash", "Shell", "ShellTool", "run_shell_command"}

\* The project root, written as a first part "/", or the working directory.
qwenPath(p) == IF Head(p) \in {".", "/"} THEN Tail(p) ELSE p

qwenCovers(category, e, v) ==
    \/ /\ category = "commands" /\ e.tool \in qwenShellTools
       /\ qwenCommandMatches(e.arg, v) /\ qwenCommandMatches(e.arg, v \o <<"*">>)
    \/ /\ \/ category = "read" /\ e.tool \in {"Read", "read_file", "ReadFile", "ReadFileTool"}
          \/ category = "write" /\ e.tool \in {"Edit", "edit", "EditTool"}
       /\ e.arg = <<>> \/ globCovers(qwenPath(e.arg), v)
    \/ /\ category = "fetch" /\ e.tool \in {"WebFetch", "web_fetch", "WebFetchTool"}
       /\ e.arg = <<>> \/ hostCovers(e.arg, v)
    \/ category = "mcp-tools" /\ e.tool = "mcp" /\ mcpCovers(e.arg, v, TRUE)

narrowerCommand(arg, v) == hasCmdPrefix(Literal(arg), v)

qwenOverlaps(category, e, v) ==
    \/ /\ category = "commands" /\ e.tool \in qwenShellTools
       /\ \/ qwenCommandMatches(e.arg, v) \/ qwenCommandMatches(e.arg, v \o <<"*">>)
          \/ narrowerCommand(e.arg, v)
    \/ category = "mcp-tools" /\ e.tool = "mcp" /\ mcpOverlaps(e.arg, v, TRUE)

qwenRepoPath(v) == IF Head(v) \in {"~", "**"} THEN v ELSE <<"/">> \o v

qwenSpell(category, v) ==
    CASE category = "commands" -> Entry("Bash", v)
      [] category = "read"     -> Entry("Read", qwenRepoPath(v))
      [] category = "write"    -> Entry("Edit", qwenRepoPath(v))
      [] category = "fetch"    -> Entry("WebFetch", Domain(v))
      [] OTHER                 -> mcpSpell(v)

GrokPattern(p) == IF p # <<>> /\ Last(p) = ":*" THEN Front(p) ELSE p

\* A word prefix, or a glob over the whole command.
grokCommandMatches(p, command) ==
    hasCmdPrefix(command, GrokPattern(p)) \/ starGlob(GrokPattern(p), command)

\* A leading ~ is text to Grok, so only a pattern for any depth gets home.
grokPathTarget(v) == IF Head(v) = "~" THEN <<"**">> \o Tail(v) ELSE v

withoutWWW(domain) == IF Len(domain) > 1 /\ Head(domain) = "www" THEN Tail(domain) ELSE domain

\* MCPTool(server__tool) is read as mcp__server__tool.
grokMcpWhole(e) == e.tool = "MCPTool" /\ e.arg \in {<<>>, <<"*">>}
grokMcpCovers(e, v) ==
    \/ grokMcpWhole(e)
    \/ e.tool \in {"MCPTool", "mcp"} /\ mcpCovers(e.arg, v, e.tool = "mcp")

grokCovers(category, e, v) ==
    \/ /\ category = "commands" /\ e.tool = "Bash"
       /\ \/ e.arg \in {<<>>, <<"*">>}
          \/ grokCommandMatches(e.arg, v) /\ grokCommandMatches(e.arg, v \o <<"*">>)
    \/ /\ \/ category = "read" /\ e.tool = "Read"
          \/ category = "write" /\ e.tool \in {"Edit", "Write"}
       /\ e.arg \in {<<>>, <<"*">>} \/ globCovers(relativePath(e.arg), grokPathTarget(v))
    \/ /\ category = "fetch" /\ e.tool = "WebFetch"
       /\ e.arg \in {<<>>, <<"*">>} \/ hostCovers(withoutWWW(e.arg), withoutWWW(v))
    \/ category = "mcp-tools" /\ grokMcpCovers(e, v)

grokOverlaps(category, e, v) ==
    \/ /\ category = "commands" /\ e.tool = "Bash"
       /\ \/ e.arg \in {<<>>, <<"*">>}
          \/ grokCommandMatches(e.arg, v) \/ grokCommandMatches(e.arg, v \o <<"*">>)
          \/ narrowerCommand(e.arg, v)
    \/ /\ category = "mcp-tools"
       /\ \/ grokMcpWhole(e)
          \/ e.tool \in {"MCPTool", "mcp"} /\ mcpOverlaps(e.arg, v, e.tool = "mcp")

grokSpell(category, v) ==
    CASE category = "commands" -> Entry("Bash", v)
      [] category = "read"     -> Entry("Read", grokPathTarget(v))
      [] category = "write"    -> Entry("Edit", grokPathTarget(v))
      [] category = "fetch"    -> Entry("WebFetch", Domain(v))
      [] OTHER                 -> Entry("MCPTool", v)
-----------------------------------------------------------------------------
(* policySpellings.                                                        *)

ListAgents == {"claude-code", "devin", "cursor-cli", "qwen-code", "grok"}

Covers(agent, category, e, v) ==
    CASE agent = "claude-code" -> claudeCovers(category, e, v)
      [] agent = "devin"       -> devinCovers(category, e, v)
      [] agent = "cursor-cli"  -> cursorCovers(category, e, v)
      [] agent = "qwen-code"   -> qwenCovers(category, e, v)
      [] agent = "grok"        -> grokCovers(category, e, v)

Overlaps(agent, category, e, v) ==
    CASE agent = "claude-code" -> claudeOverlaps(category, e, v)
      [] agent = "devin"       -> devinOverlaps(category, e, v)
      [] agent = "cursor-cli"  -> cursorOverlaps(category, e, v)
      [] agent = "qwen-code"   -> qwenOverlaps(category, e, v)
      [] agent = "grok"        -> grokOverlaps(category, e, v)

Spell(agent, category, v) ==
    CASE agent = "claude-code" -> claudeSpell(category, v)
      [] agent = "devin"       -> devinSpell(category, v)
      [] agent = "cursor-cli"  -> cursorSpell(category, v)
      [] agent = "qwen-code"   -> qwenSpell(category, v)
      [] agent = "grok"        -> grokSpell(category, v)
=============================================================================
