-------------------------- MODULE PolicyFileChecks --------------------------
(***************************************************************************)
(* What CFG025 finds in the permission file of one agent, and the entry it *)
(* tells the team to add (checkNeutralPolicy and the checks it calls).     *)
(*                                                                         *)
(* A file is a sequence of rules.  A rule of Claude Code, Devin, Cursor,   *)
(* Qwen Code and Grok is an entry of the deny or allow list.  A rule of    *)
(* OpenCode and Kilo Code has an action, written as a sequence, and the    *)
(* agent block it is in.  The keys of Codex, the lines of .rooignore and   *)
(* the lists of Roo Code, Antigravity, Gemini CLI, pi and VS Code have the *)
(* key as their tool.  A trailing " *" of OpenCode is the part "...".      *)
(***************************************************************************)
EXTENDS PolicyEntries

Ordered == {"opencode", "kilo-code"}
Rule(tool, arg, effect, where) == [tool |-> tool, arg |-> arg, effect |-> effect, where |-> where]
Home(v) == Head(v) = "~"
Wild(v) == \E i \in DOMAIN v : v[i] \in Stars

\* The effect of the last of the rules that apply.
LastEffect(rules, applying, none) == IF applying = {} THEN none ELSE rules[Max(applying)].effect
-----------------------------------------------------------------------------
(* Claude Code, Devin CLI, Cursor CLI, Qwen Code and Grok: two sets.       *)

\* Claude Code discards a settings file that has a key of the wrong type.
Discarded(agent, file) == agent = "claude-code" /\ \E r \in ToSet(file) : r.tool = "type mismatch"

\* Grok ignores its structured rules once a compact list is set.
ListEntries(agent, file, effect) ==
    {e \in ToSet(file) : /\ e.effect = effect /\ ~Discarded(agent, file)
                         /\ agent = "grok" /\ e.where = "rules" =>
                              \A other \in ToSet(file) : other.where # "compact"}

listDenied(agent, file, category, v) ==
    \E e \in ListEntries(agent, file, "deny") : Covers(agent, category, e, v)
listGranted(agent, file, category, v) ==
    \E e \in ListEntries(agent, file, "allow") : Overlaps(agent, category, e, v)
-----------------------------------------------------------------------------
(* OpenCode and Kilo Code: the last rule that matches decides.             *)

\* The rules of one block that match a request.
Applying(file, where, request) ==
    {i \in DOMAIN file : /\ file[i].where = where
                         /\ starGlob(file[i].tool, request.action) /\ starGlob(file[i].arg, request.resource)}

\* An agent's own rules come after the top-level ones.
orderedEffect(file, where, request) ==
    LastEffect(file, Applying(file, where, request), LastEffect(file, Applying(file, "", request), "ask"))

fill(v) == [i \in DOMAIN v |-> IF v[i] \in Stars THEN "probe" ELSE v[i]]

BeforeStar(v) == SubSeq(v, 1, Min({i \in DOMAIN v : v[i] \in Stars} \cup {Len(v) + 1}) - 1)

orderedPath(v) ==
    IF Home(v) THEN {BeforeStar(v) \o <<"*">>}
    ELSE IF Len(v) = 1 THEN {fill(v)}
    ELSE IF Head(v) = "**" THEN {dir \o fill(Tail(v)) : dir \in {<<>>, <<"a">>, <<"a", "b">>}}
    ELSE IF Last(v) = "**" THEN {Front(v) \o rest : rest \in {<<"probe">>, <<"a", "probe">>}}
    ELSE {fill(v)}

Requested(action, resources) == {[action |-> action, resource |-> r] : r \in resources}

orderedHost(v) == IF Head(v) = "*" THEN <<"api">> \o Tail(v) ELSE v

orderedMCPName(v) == <<mcpServerName(Head(v))>> \o fill(Tail(v))

\* The requests a neutral entry is checked by.
orderedProbes(agent, category, v) ==
    CASE category = "commands" ->
           Requested(<<"bash">>, {v \o args : args \in {<<>>, <<"origin", "main">>, <<"--force">>}})
      [] category \in {"read", "write"} ->
           Requested(IF Home(v) THEN <<"external_directory">>
                     ELSE IF category = "read" THEN <<"read">> ELSE <<"edit">>, orderedPath(v))
      [] category = "fetch" ->
           Requested(<<"webfetch">>, IF agent = "opencode" THEN {<<"*">>}
                                     ELSE {<<scheme>> \o orderedHost(v) \o <<"x">> : scheme \in {"https", "http"}})
      [] OTHER -> Requested(orderedMCPName(v), {<<"*">>})

\* The blocks an agent may run with.
Blocks(file) == {""} \cup {r.where : r \in ToSet(file)}

orderedRules(file, where) == {r \in ToSet(file) : r.where \in {"", where}}

orderedDenied(agent, file, where, category, v) ==
    \A request \in orderedProbes(agent, category, v) : orderedEffect(file, where, request) = "deny"

\* Mutant: an allow narrower than the entry is not looked for.
orderedGrantedProbes(agent, file, where, category, v) ==
    \E request \in orderedProbes(agent, category, v) : orderedEffect(file, where, request) = "allow"

orderedGranted(agent, file, where, category, v) ==
    \/ \E request \in orderedProbes(agent, category, v) : orderedEffect(file, where, request) = "allow"
    \/ \E r \in orderedRules(file, where) :
         /\ r.effect = "allow"
         /\ \/ /\ category = "commands" /\ starGlob(r.tool, <<"bash">>) /\ narrowerCommand(r.arg, v)
               /\ orderedEffect(file, where, [action |-> <<"bash">>, resource |-> r.arg]) = "allow"
            \/ category = "mcp-tools" /\ IsPrefix(<<mcpServerName(Head(v))>> \o Literal(Tail(v)), r.tool)

\* The only way OpenCode can honour a domain is to switch the tool off.
OrderedDeniesFetch(file) ==
    \A where \in Blocks(file) : orderedDenied("opencode", file, where, "fetch", <<"*">>)

\* Mutant: the pattern for every depth, with a directory in front.
orderedPatternNested(v) == v

\* A pattern for every depth would need a slash in the path.
orderedPattern(v) == IF Head(v) = "**" /\ Len(v) > 1 THEN <<"...">> \o Tail(v) ELSE v

orderedSpell(category, v, where) ==
    CASE category = "commands"  -> Rule(<<"bash">>, v \o <<"...">>, "deny", where)
      [] category = "fetch"     -> Rule(<<"webfetch">>, <<"*">> \o v \o <<"*">>, "deny", where)
      [] category = "mcp-tools" -> Rule(<<mcpServerName(Head(v))>> \o Tail(v), <<"*">>, "deny", where)
      [] OTHER -> IF Home(v) THEN Rule(<<"external_directory">>, v, "deny", where)
                  ELSE Rule(IF category = "read" THEN <<"read">> ELSE <<"edit">>, orderedPattern(v), "deny", where)
-----------------------------------------------------------------------------
(* Codex: rule files, the selected permission profile, MCP servers.        *)

Has(file, tool, arg, effects) == \E r \in ToSet(file) : r.tool = tool /\ r.arg = arg /\ r.effect \in effects
Args(file, tool, effect) == {r.arg : r \in {x \in ToSet(file) : x.tool = tool /\ x.effect = effect}}

codexForbidden(file, v) == \E p \in Args(file, "prefix_rule", "forbidden") : IsPrefix(p, v)

codexCommandGranted(file, v) ==
    /\ ~codexForbidden(file, v)
    /\ \E p \in Args(file, "prefix_rule", "allow") : IsPrefix(p, v) \/ IsPrefix(v, p)

\* deny, with none as its old name, blocks both; read blocks writes.
codexBlocks(category) == {"deny", "none"} \cup (IF category = "write" THEN {"read"} ELSE {})

ProfileSelected(file) == \E r \in ToSet(file) : r.tool = "default_permissions"

codexPathDenied(file, category, v) ==
    /\ ProfileSelected(file)
    /\ \E r \in ToSet(file) :
         /\ r.effect \in codexBlocks(category)
         /\ \/ r.tool = "filesystem" /\ r.arg = <<":root">>
            \/ /\ r.tool = "filesystem" /\ Home(v)
               /\ r.arg = v \/ IsStrictPrefix(IF Last(r.arg) = "**" THEN Front(r.arg) ELSE r.arg, v)
            \/ r.tool = "filesystem" /\ ~Home(v) /\ r.arg = <<":workspace_roots">>
            \/ r.tool = "workspace" /\ globCovers(r.arg, v)

codexFetchDenied(file, v) ==
    /\ ProfileSelected(file)
    /\ \E r \in ToSet(file) : \/ r.tool = "network" /\ r.effect = "off"
                              \/ r.tool = "domains" /\ r.effect = "deny" /\ domainCovers(r.arg, v)

Configured(file, v) == Has(file, "server", <<Head(v)>>, {"on"})

\* codexToolMatch, with the server in front of both.
toolMatch(name, v) == IF Last(v) = "*" THEN IsStrictPrefix(Front(v), name) ELSE name = v

codexMCPDenied(file, v) ==
    LET enabled == {n \in Args(file, "enabled_tools", "on") : Head(n) = Head(v)} IN
    \/ ~Configured(file, v)
    \/ enabled # {} /\ \A n \in enabled : ~toolMatch(n, v)
    \/ enabled = {} /\ Has(file, "disabled_tools", v, {"deny"})

\* A server that is switched off is not asked for.
codexMCPGranted(file, v) == \E n \in Args(file, "approve", "allow") : n = <<Head(v)>> \/ toolMatch(n, v)

codexDenied(file, category, v) ==
    CASE category = "commands"         -> codexForbidden(file, v)
      [] category \in {"read", "write"} -> codexPathDenied(file, category, v)
      [] category = "fetch"            -> codexFetchDenied(file, v)
      [] OTHER                         -> codexMCPDenied(file, v)

codexPathSpell(category, v) ==
    IF Home(v) THEN Rule("filesystem", IF Last(v) = "**" THEN Front(v) ELSE v, "deny", "")
               ELSE Rule("workspace", v, IF category = "write" THEN "read" ELSE "deny", "")

\* codexSelectNote: nothing else of a profile applies before one is selected.
WithProfile(file, r) ==
    IF ProfileSelected(file) THEN <<r>> ELSE <<Rule("default_permissions", <<>>, "on", ""), r>>

codexSpell(file, category, v) ==
    CASE category = "commands"         -> <<Rule("prefix_rule", v, "forbidden", "")>>
      [] category \in {"read", "write"} -> WithProfile(file, codexPathSpell(category, v))
      [] category = "fetch"            -> WithProfile(file, Rule("domains", v, "deny", ""))
      [] OTHER                         -> <<Rule("disabled_tools", v, "deny", "")>>
-----------------------------------------------------------------------------
(* Roo Code: two prefix lists, .rooignore in order, MCP servers.           *)

\* Lengths and prefixes are counted in words, and "*" counts as one character.
prefixLength(p) == IF p = <<"*">> THEN 1 ELSE 1 + Len(p)

rooLongestPrefix(prefixes, command) ==
    LET lengths == {prefixLength(p) : p \in {q \in prefixes : q = <<"*">> \/ IsPrefix(q, command)}}
    IN  IF lengths = {} THEN 0 ELSE CHOOSE n \in lengths : \A k \in lengths : n >= k

rooDenied(file, command) ==
    LET denied == rooLongestPrefix(Args(file, "deniedCommands", "deny"), command)
    IN  denied > 0 /\ rooLongestPrefix(Args(file, "allowedCommands", "allow"), command) <= denied

rooCommandCovered(file, v) == rooDenied(file, v) /\ rooDenied(file, v \o <<"--force">>)

rooCommandGranted(file, v) ==
    /\ ~rooCommandCovered(file, v)
    /\ \E a \in Args(file, "allowedCommands", "allow") :
         (a = <<"*">> \/ IsPrefix(a, v) \/ IsPrefix(v, a)) /\ ~rooDenied(file, a)

\* A line that starts with "/" names a path from the root.
unrooted(p) == IF Len(p) > 1 /\ Head(p) = "/" THEN Tail(p) ELSE p

rooIgnoreCovers(line, v) ==
    LET pattern == unrooted(line)
        dir == IF Last(pattern) = "**" THEN Front(pattern) ELSE pattern IN
    \/ pattern = v \/ <<"**">> \o pattern = v
    \/ Head(v) = "**" /\ pattern = Tail(v)
    \/ dir # <<>> /\ IsStrictPrefix(dir, v)

rooIgnored(file, v) ==
    LastEffect(file, {i \in DOMAIN file : file[i].tool = ".rooignore" /\ rooIgnoreCovers(file[i].arg, v)}, "allow") = "deny"

rooMCPDenied(file, v) == ~Configured(file, v) \/ Has(file, "disabledTools", v, {"deny"})

rooMCPGranted(file, v) ==
    \E n \in Args(file, "alwaysAllow", "allow") :
      Head(n) = Head(v) /\ (Tail(n) = <<"*">> \/ toolMatch(n, v))

rooChecks(category, v) == category \in {"commands", "mcp-tools"} \/ (category \in {"read", "write"} /\ ~Home(v))

rooPolicyDenied(file, category, v) ==
    CASE category = "commands"  -> rooCommandCovered(file, v)
      [] category = "mcp-tools" -> rooMCPDenied(file, v)
      [] OTHER                  -> rooIgnored(file, v)

rooSpell(category, v) ==
    CASE category = "commands"  -> Rule("deniedCommands", v, "deny", "")
      [] category = "mcp-tools" -> Rule("disabledTools", v, "deny", "")
      [] OTHER                  -> Rule(".rooignore", v, "deny", "")
-----------------------------------------------------------------------------
(* Gemini CLI and pi can switch whole tools off, VS Code has auto-approval.*)

geminiTools ==
    [commands |-> {"run_shell_command"}, read |-> {"read_file", "read_many_files"},
     write |-> {"write_file", "replace"}, fetch |-> {"web_fetch"}]

geminiOff(file, tool) ==
    LET core == Args(file, "tools.core", "on")
    IN  \/ Has(file, "tools.exclude", <<tool>>, {"deny"})
        \/ core # {} /\ <<tool>> \notin core

geminiToolsOff(file, deny) ==
    LET excluded == Args(file, "mcp.excluded", "deny")
        servers  == {<<Head(d.v)>> : d \in {x \in deny : x.category = "mcp-tools"}}
    IN  {c \in DOMAIN geminiTools : \A tool \in geminiTools[c] : geminiOff(file, tool)}
          \cup (IF servers # {} /\ (servers \subseteq excluded \/ <<"*">> \in excluded) THEN {"mcp-tools"} ELSE {})

geminiGranted(file, category, v) ==
    category = "commands" /\ \E a \in Args(file, "tools.allowed", "allow") : IsPrefix(a, v) \/ IsPrefix(v, a)

piTools == [commands |-> {"bash", "powershell"}, read |-> {"read", "grep", "find"}, write |-> {"edit", "write"}]

\* Plain names replace the defaults; +name and -name change what is there, in order.
piEnabled(file) ==
    LET names == SelectSeq(file, LAMBDA r : r.tool = "defaultTools")
        start == IF \E r \in ToSet(names) : r.effect = "plain" THEN {} ELSE {"read", "bash", "edit", "write"}
    IN  FoldLeft(LAMBDA on, r : IF r.effect = "-" THEN on \ {Head(r.arg)} ELSE on \cup {Head(r.arg)}, start, names)

piToolsOff(file) ==
    IF \A r \in ToSet(file) : r.tool # "defaultTools" THEN {}
    ELSE {c \in DOMAIN piTools : piTools[c] \cap piEnabled(file) = {}}

vscodeGranted(file, category, v) ==
    /\ category = "commands"
    /\ \A k \in Args(file, "autoApprove", "deny") : ~IsPrefix(k, v)
    /\ \E k \in Args(file, "autoApprove", "allow") : IsPrefix(k, v) \/ IsPrefix(v, k)

\* Each entry of Cursor's allowlists is read as a token of Cursor CLI.
cursorIDEGranted(file, category, v) ==
    \E e \in ListEntries("cursor-cli", file, "allow") : cursorOverlaps(category, e, v)
-----------------------------------------------------------------------------
(* All agents together.                                                    *)

\* What CFG025 checks a deny entry for: the rest is left to CFG118.
Checks(agent, category, v) ==
    CASE agent \in {"cursor-cli", "opencode"} -> category # "fetch"
      [] agent \in {"claude-code", "devin", "qwen-code", "grok", "kilo-code", "codex"} -> TRUE
      [] agent = "roo-code"    -> rooChecks(category, v)
      [] agent = "antigravity" -> category = "mcp-tools"
      [] OTHER                 -> FALSE

Denied(agent, file, category, v, where) ==
    CASE agent \in ListAgents  -> listDenied(agent, file, category, v)
      [] agent \in Ordered     -> orderedDenied(agent, file, where, category, v)
      [] agent = "codex"       -> codexDenied(file, category, v)
      [] agent = "roo-code"    -> rooPolicyDenied(file, category, v)
      [] agent = "antigravity" -> rooMCPDenied(file, v)

Granted(agent, file, category, v, where) ==
    CASE agent \in ListAgents   -> listGranted(agent, file, category, v)
      [] agent \in Ordered      -> orderedGranted(agent, file, where, category, v)
      [] agent = "codex"        -> IF category = "commands" THEN codexCommandGranted(file, v) ELSE codexMCPGranted(file, v)
      [] agent = "roo-code"     -> IF category = "commands" THEN rooCommandGranted(file, v) ELSE rooMCPGranted(file, v)
      [] agent = "gemini-cli"   -> geminiGranted(file, category, v)
      [] agent = "cursor"       -> cursorIDEGranted(file, category, v)
      [] agent = "vscode"       -> vscodeGranted(file, category, v)
      [] OTHER                  -> FALSE

Wheres(agent, file) == IF agent \in Ordered THEN Blocks(file) ELSE {""}

\* The rules a finding says must not be there.
InTheWay(agent, category, v, r) ==
    agent = "roo-code" /\ category = "commands" /\ r.tool = "allowedCommands" /\ IsStrictPrefix(v, r.arg)

\* The rules it says to add.
Advice(agent, file, category, v, where) ==
    CASE agent \in ListAgents  -> LET e == Spell(agent, category, v)
                                  IN  <<Rule(e.tool, e.arg, "deny", IF agent = "grok" THEN "compact" ELSE "")>>
      [] agent \in Ordered     -> <<orderedSpell(category, v, where)>>
      [] agent = "codex"       -> codexSpell(file, category, v)
      [] agent = "roo-code"    -> <<rooSpell(category, v)>>
      [] agent = "antigravity" -> <<Rule("disabledTools", v, "deny", "")>>
=============================================================================
