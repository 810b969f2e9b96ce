----------------------------- MODULE PolicyCheck -----------------------------
(***************************************************************************)
(* The policy of a repository against the permission file of one agent, as *)
(* a team lives with it: people edit the file, cfgaudit scans, and someone *)
(* follows the advice of the last report, which may be old by then.        *)
(*                                                                         *)
(* A policy is what .cfgaudit.yml says for every agent (deny, forbid), and *)
(* what the Rulesync file adds: rules for every agent (shared) and, in the *)
(* block of one tool, rules that replace the shared ones of their category *)
(* (own).  One agent is looked at in each behaviour.                       *)
(***************************************************************************)
EXTENDS AgentPermissions, FiniteSets

CONSTANTS Scenarios,  \* an agent, a policy, and the rules people write into its file
          Concrete,   \* Concrete[c]: the requests of category c that are tried
          MaxEdits    \* bound: edits of the file that follow no advice

VARIABLES scenario, file, report, fresh, edits
teamVars == <<scenario, file, report, fresh, edits>>
agent  == scenario.agent
policy == scenario.policy
-----------------------------------------------------------------------------
(* rulesync.go.                                                            *)

\* The rules of an agent, or the shared ones.
rulesFor(own) ==
    LET block == IF own THEN policy.own ELSE {}
    IN  block \cup {r \in policy.shared : r.key \notin {o.key : o \in block}}

\* rulesyncCommand, rulesyncPath and the two expressions: the neutral value.
NeutralValue(r) ==
    CASE r.key = <<"bash">>     -> Literal(r.value)
      [] Head(r.key) = "mcp"    -> IF Len(r.key) = 2 THEN Tail(r.key) \o <<"*">> ELSE Tail(r.key)
      [] r.key = <<"webfetch">> -> r.value
      [] OTHER                  -> relativePath(r.value)

HasNeutralForm(r) ==
    CASE r.key = <<"bash">>     -> NeutralValue(r) # <<>> /\ ~Wild(NeutralValue(r))
      [] r.key = <<"webfetch">> -> Len(r.value) > 1
      [] Head(r.key) = "mcp"    -> TRUE
      [] OTHER                  -> NeutralValue(r) \notin {<<"*">>, <<"**">>} /\ Head(NeutralValue(r)) # "/"

CategoryOf(r) ==
    CASE r.key = <<"bash">> -> "commands"
      [] r.key = <<"read">> -> "read"
      [] r.key \in {<<"edit">>, <<"write">>} -> "write"
      [] r.key = <<"webfetch">> -> "fetch"
      [] OTHER -> "mcp-tools"

Neutral(rules) == {[category |-> CategoryOf(r), v |-> NeutralValue(r)] : r \in rules}

\* rulesyncEntries: ask becomes forbid for commands and MCP tools.
NeutralDeny(rules)   == Neutral({r \in rules : r.action = "deny" /\ HasNeutralForm(r)})
NeutralForbid(rules) ==
    Neutral({r \in rules : /\ r.action = "ask" /\ HasNeutralForm(r)
                           /\ CategoryOf(r) \in {"commands", "mcp-tools"}})
Skipped(rules) ==
    {r \in rules : /\ ~HasNeutralForm(r)
                   /\ r.action = "deny" \/ (r.action = "ask" /\ r.key = <<"bash">>)}

\* withRulesync, for the agent or, without its own block, for all of them.
DenyFor(own)   == policy.deny \cup NeutralDeny(rulesFor(own))
ForbidFor(own) == policy.forbid \cup NeutralForbid(rulesFor(own))
-----------------------------------------------------------------------------
(* attachPolicy, CFG025 and CFG118.                                        *)

rooUnenforced(deny) == {"fetch"} \cup {d.category : d \in {x \in deny : x.category \in {"read", "write"} /\ Home(x.v)}}

\* The categories no permission file of the agent can carry.
Unenforced ==
    CASE agent = "cursor-cli"  -> {"fetch"}
      [] agent = "antigravity" -> Categories \ {"mcp-tools"}
      [] agent = "roo-code"    -> rooUnenforced(DenyFor(TRUE))
      [] agent = "gemini-cli"  -> Categories \ geminiToolsOff(file, DenyFor(TRUE))
      [] agent = "pi"          -> Categories \ piToolsOff(file)
      [] agent = "opencode"    -> IF OrderedDeniesFetch(file) THEN {} ELSE {"fetch"}
      [] agent \in {"claude-code", "devin", "qwen-code", "grok", "codex", "kilo-code"} -> {}
      [] OTHER                 -> Categories

Finding(e, where) == [category |-> e.category, v |-> e.v, where |-> where]

\* An entry is looked for in each block of rules of its own.
InEach(blocks, entries) == {Finding(e, where) : e \in entries, where \in blocks}

Missing ==
    {f \in InEach(Wheres(agent, file), DenyFor(TRUE)) :
       /\ Checks(agent, f.category, f.v)
       /\ ~Denied(agent, file, f.category, f.v, f.where)}

Open ==
    {f \in InEach(Wheres(agent, file), ForbidFor(TRUE)) :
       Granted(agent, file, f.category, f.v, f.where)}

Nothing == [missing |-> {}, open |-> {}, unenforced |-> {}, skipped |-> {}, discarded |-> FALSE]

\* Without shared entries the agents are not gone through.
Findings ==
    IF DenyFor(FALSE) = {} /\ ForbidFor(FALSE) = {} THEN Nothing
    ELSE [missing    |-> Missing,
          open       |-> Open,
          unenforced |-> {d.category : d \in DenyFor(FALSE)} \cap Unenforced,
          skipped    |-> Skipped(rulesFor(FALSE)),
          discarded  |-> Discarded(agent, file)]  \* discardedNote: what is wrong with the file
-----------------------------------------------------------------------------
(* What .cfgaudit.yml may say (policyEntryProblem and checkPolicy), the     *)
(* rules of a file, and the requests that are tried.                       *)

PlainEntry(v)  == v \in Text /\ v # <<>> /\ Plain(v)
PathEntry(v)   == v \in Text /\ v # <<>> /\ Dotless(v)
DomainEntry(v) == v \in Text /\ v # <<>> /\ Domain(v) # <<>> /\ Plain(Domain(v))
McpEntry(v)    == v \in Text /\ Len(v) > 1 /\ Plain(Front(v))

NeutralText(category, v) ==
    /\ category = "commands" => PlainEntry(v)
    /\ category \in {"read", "write"} => PathEntry(v) /\ Head(v) # "/"
    /\ category = "fetch" => DomainEntry(v)
    /\ category = "mcp-tools" => McpEntry(v)

\* The tools of Devin that are written in small letters have no argument, an MCP
\* entry and an approved tool have a server, and a path of Codex is not empty.
PermissionRule(a, r) ==
    /\ r.arg \in Text
    /\ a = "devin" /\ r.tool \in {"exec", "read", "edit"} => r.arg = <<>>
    /\ r.tool \in {"mcp", "alwaysAllow"} => r.arg # <<>>
    /\ a = "codex" /\ r.tool \in {"filesystem", "workspace"} => r.arg # <<>>

\* A path is relative to the project, or in the home directory.
PathRequest(r) == r \in Text /\ r # <<>> /\ Head(r) \notin {".", "/"} /\ (Head(r) = "~" => Len(r) > 1)

ASSUME PolicyCheckAssumption ==
    /\ \A s \in Scenarios :
         /\ \A e \in s.policy.deny \cup s.policy.forbid : e.category \in Categories /\ NeutralText(e.category, e.v)
         /\ \A e \in s.policy.forbid : e.category \in {"commands", "mcp-tools"}
         /\ \A r \in s.policy.shared \cup s.policy.own :
              r.action \in {"deny", "ask"} /\ HasNeutralForm(r) => NeutralText(CategoryOf(r), NeutralValue(r))
         /\ s.agent \notin Ordered => \A r \in s.pool : PermissionRule(s.agent, r)
    /\ \A category \in Categories : \A r \in Concrete[category] :
         /\ PlainEntry(r)
         /\ category \in {"read", "write"} => PathRequest(r)
         /\ category = "mcp-tools" => Len(r) > 1
-----------------------------------------------------------------------------
TeamInit == /\ scenario \in Scenarios
            /\ file = <<>> /\ report = Nothing /\ fresh = FALSE /\ edits = 0

\* A file has each key once: a JSON or TOML key, an entry of a list, a line.
SameKey(r, x) ==
    /\ r.tool = x.tool /\ r.arg = x.arg /\ r.where = x.where
    /\ agent \in Ordered \cup {"codex"} \/ r.effect = x.effect

Without(rules, gone) ==
    LET kept[i \in 0..Len(rules)] ==
          IF i = 0 THEN <<>>
          ELSE IF rules[i] \in gone THEN kept[i - 1] ELSE Append(kept[i - 1], rules[i])
    IN  kept[Len(rules)]

Replaced(rules, added) == {x \in ToSet(rules) : \E r \in ToSet(added) : SameKey(r, x)}

\* Mutant: new rules go in front of the others.
PutFirst(rules, added) == added \o Without(rules, Replaced(rules, added))

Put(rules, added) == Without(rules, Replaced(rules, added)) \o added

Edit == /\ edits < MaxEdits
        /\ \E r \in scenario.pool : file' = Put(file, <<r>>)
        /\ file' # file
        /\ edits' = edits + 1 /\ fresh' = FALSE
        /\ UNCHANGED <<scenario, report>>

Scan == /\ ~fresh
        /\ report' = Findings /\ fresh' = TRUE
        /\ UNCHANGED <<scenario, file, edits>>

\* Someone does what one finding of the last report says.
Follow(f) == /\ f \in report.missing
             /\ file' = Put(Without(file, {r \in ToSet(file) : \/ InTheWay(agent, f.category, f.v, r)
                                                               \/ report.discarded /\ r.tool = "type mismatch"}),
                            Advice(agent, file, f.category, f.v, f.where))
             /\ report' = [report EXCEPT !.missing = @ \ {f}]
             /\ fresh' = FALSE
             /\ UNCHANGED <<scenario, edits>>

FollowAdvice == \E f \in report.missing : Follow(f)

TeamNext == Edit \/ Scan \/ FollowAdvice

\* People follow the advice and scan again, and stop editing otherwise.
TeamSpec == TeamInit /\ [][TeamNext]_teamVars /\ WF_teamVars(Scan) /\ WF_teamVars(FollowAdvice)
-----------------------------------------------------------------------------
(* Properties.                                                             *)

Requests(e) == {r \in Concrete[e.category] : Means(e.category, e.v, r)}

\* A deny entry CFG025 and CFG118 are silent about is one the agent enforces:
\* it refuses every request the entry stands for (checkNeutralPolicy compares
\* patterns, and a pattern that is taken for a wider one leaves requests open
\* under a policy that reads as met).  A Rulesync rule that cannot be checked
\* is named.
EveryDenyAnswered ==
    fresh =>
      /\ \A e \in DenyFor(TRUE) :
           \/ \E f \in report.missing : f.category = e.category /\ f.v = e.v
           \/ e.category \in report.unenforced
           \/ \A r \in Requests(e) : Refuses(agent, file, e.category, r)
      /\ \A r \in rulesFor(TRUE) : r.action = "deny" /\ ~HasNeutralForm(r) => r \in report.skipped

\* A forbidden command or tool the agent runs without asking is reported.
GrantsAreSeen ==
    fresh => \A e \in ForbidFor(TRUE) :
      (\E r \in Requests(e) : Runs(agent, file, e.category, r)) =>
        \E f \in report.open : f.category = e.category /\ f.v = e.v

\* Whoever adds what a finding names is rid of it, even with an old report, unless
\* the file has since got what makes Claude Code discard it (discardedNote).
AdviceSatisfiesTheCheck ==
    [][\A f \in report.missing :
         Follow(f) => f \notin Missing' \/ (Discarded(agent, file') /\ ~report.discarded)]_teamVars

\* Following the advice, in any order and from old reports too, ends: advice
\* for one entry does not undo that for another for ever.
AdviceConverges == <>[](report.missing = {} /\ fresh)
=============================================================================
