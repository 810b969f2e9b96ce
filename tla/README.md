# cfgaudit in TLA+

cfgaudit scans a repository for configuration files of coding agents and reports
what in them is dangerous. This directory holds TLA+ models of the parts of it
that have state, order, concurrency, layers or failures worth checking, TLC runs over
small instances, and TLAPS proofs for every instance. Paths below are relative to
the repository.

A false negative is what the project fears most (`docs/design.md`, threat model),
and so the properties ask, part by part: can something the scan looked at go
unreported, can a report look complete when it is not, can an accepted finding
hide a new one, can a deny list read as enforced when it is not, and can a write
leave an agent without its deny list.

## The system

| Part | State | Operations | Hard behaviour | What makes it correct |
|---|---|---|---|---|
| `internal/scanroot` | records of refused links, unreadable paths, dangling links, other spellings | `ReadFile`, `Open`, `ReadDir`, `Stat`, `ReadOwnFile`, `WalkDir`, the getters | every error turns into "absent"; records depend on what is read, in which order | what reads as absent is explained by a record |
| scan pipeline, `run()` in `cmd/cfgaudit/main.go` | targets, `unreadable`, the exit code | the stages from `loadConfig` to the exit | records are turned into targets at fixed moments, reads happen before and after | nothing goes quiet; exit 2 exactly when the result is incomplete |
| target builders, `rules/commandsites.go` | the targets and their parts | one builder per agent, eleven lists of instruction files | layers, overrides, switches and fallbacks of each agent; names that hide other names | the rules judge what the agent uses, once, and nothing else |
| plugin packages, `plugins.go` | the targets of packages | the roots, a plugin by its manifest, the walk of a package | settings that switch a plugin, manifests that name other files, packages inside packages | as above, for what a package brings along |
| launched scripts and skill files | scripts, owners, launchers, targets of helper files | the loops over commands, hooks, siblings, skills | one file is reached in several ways; loops that add to what they go through | one owner, all launchers, one step, no file twice |
| `runRules`, `rules.Run`, CFG045 | result slots, semaphore, WaitGroup, the shared shellcheck failure | one goroutine per target, one process per command site | schedules, timeouts, a failure that others learn of late | the sequential report or none; the run ends |
| `importTargets` | queue, seen, targets, external imports | breadth-first walk of `@path` imports | cycles, diamonds, hop limit | one target per file, by a shortest chain, none missed |
| archive scan | the extraction root, counters, lists | one step per entry | sizes that lie, names in each other's way, errors half-way | bounded disk use; nothing lost, nothing replaced |
| policy attachment, CFG025, CFG118 | the policy, each agent's permission file | deny and forbid-allow entries compared with the file | fifteen readings of one entry; advice that is followed late | what is not reported is enforced; following the advice ends |
| baseline and `internal/config` | the baseline file, the configuration | write, merge, edit, scan | a file that outlives the code it was written for | only what was accepted is dropped |
| `lock`, `lock --check` | the lock file | build, hash, write, compare | edits between two reads of a file, kills, unreadable files | a pass means accepted; prose is free; a change is named |
| `policy apply`, `policy generate`, `writeFileAtomic` | two committed files | read both, merge, replace one | other processes, failed steps, kills, power loss | whole files, no entry lost |
| `init` | a settings file | questions, one write | none but its write | not modelled |
| rules, parsers, encoders, git index | none | pure functions | text and binary formats | not modelled |

`run()` calls everything in one goroutine, except for the rules. The builders read
through `scanroot`, which records what it refuses or cannot read; loaders add files
that do not parse to the list `unreadable`. `attachLaunchedScripts` and then
`unreadableTargets` are the last steps of `buildTargets`; packages, skills and imports
add targets after it, `attachPolicy` gives targets the policy, and `escapedLinkTargets`
turns refused links into targets for CFG115. Dangling links and other spellings are named on
stderr at the end, and unreadable paths decide the exit code. The rules' findings pass
through `PostProcess` and then either become a baseline or are filtered by one.
`lock` runs the same builders and keeps what they found instead of judging it.

## The modules

| Module | What it is |
|---|---|
| `RuleScan` | what a scan's reader may see of the rules: everything, or an error |
| `RunRules` | `runRules` with its goroutines and CFG045; `MCRunRules`, `RunRulesProofs` |
| `ScanRoot` | the operations and records of `internal/scanroot`, without a specification of its own |
| `ScanReads` | any calls of it in any order; `MCScanReads`, `ScanProofs` |
| `ScanPipeline` | the stages of `run()`, composed with the same `ScanRoot`; `MCScanPipeline`, `ScanProofs` |
| `AgentLayers` | what each agent makes of its own files: the reference for the builders |
| `AgentTexts` | which instruction files each agent loads: the reference for the lists |
| `TargetParts` | the part of a target that a file gives, and how a file that does not parse is recorded |
| `PluginPackages` | `withPackageTargets`: what is read of plugin packages |
| `InstructionFiles` | the lists of `instructionTargets`, and the code files that OpenCode and Copilot run |
| `CommandSites` | the builders of `buildTargets`, then the packages, `commandSites` and `mcpServerRefs`; `MCCommandSites` |
| `Launched` | `attachLaunchedScripts`, `skillHelperTargets`; `MCLaunched`, `LaunchedProofs` |
| `Imports` | `importTargets`; `MCImports`, `ImportsProofs` |
| `Archive` | `extractArchive`; `MCArchive`, `ArchiveProofs` |
| `PolicyEntries` | entries, patterns, and what one pattern covers, for each agent's notation |
| `PolicyFileChecks` | the checks of `rules/policy*.go`: what a permission file denies or grants, and the entry a finding names |
| `AgentPermissions` | what each agent does with its permission file: the reference for the checks |
| `PolicyCheck` | policy, file, report and team; `MCPolicyCheck`, `PolicyProofs` |
| `Baseline` | `buildBaseline`, `applyBaseline`, `PostProcess`, `ExitCode`; `MCBaseline`, `BaselineProofs` |
| `Lock` | `lock` and `lock --check` with edits and kills; `MCLock`, `LockProofs` |
| `PolicySync` | what the two policy commands promise: merges, one at a time |
| `PolicyFiles` | the commands as processes, with `writeFileAtomic` step by step; `MCPolicyFiles`, `PolicyProofs` |

Definitions named `Mutant:` in a comment are plausible mistakes in the definition
below them; no specification uses them. They exist to show that each property
notices one.

### RunRules and RuleScan

`Work[t]` lists the steps of `rules.Run` on target t: a rule, which only adds
findings, or one command site of CFG045. `Acquire`, `Spawn`, `Collect` and
`CheckFailure` are the goroutine of `run()`; `RunRule` to `SignalDone` are those
of the targets. A site is three steps, because other goroutines run between them:
`ProbeSite` reads the failure, `CallSucceeds` or `CallFails` is the process, and
`RecordFailure` stores the first error. A site that sees a failure leaves the rule, and
`rules.Run` goes on with the next one. `late` is a history variable, the calls that
were waited for after a failure was on record. The refinement maps `report` to
what `runRules` returned once the failure was checked.

### ScanRoot, ScanReads and ScanPipeline

A path is a sequence of names. The tree gives each a kind: file, file without
permission, three sorts of directory, and links by where they lead. `Resolve` and
`Lstat` are the operating system; `Call` is one operation from the path asked for
through `caseResolve`, `check` and `absentOrRecorded`. A link whose text leaves
the repository and leads nowhere ("gone") differs from one whose missing target is
inside ("missing"): only the walk reports the first, by its text.

`ScanPipeline` runs the stages in the order of `run()`. `Reads` gives each stage its
reads as a loader and a path. The loaders stand for the code's many: `text` takes
any content, `optional` hands a file that does not parse to `skipUnreadable`,
`parsed` returns the error, `plugin` makes the CFG109 target on the spot, and
`listed` returns the error of a read of a file its directory shows; `AsksFor` says
which reads take place. `InTime` are the paths asked for before the stage that turns their
records into targets, and `Late` the committed others. With
`KiloReads` of `MCScanPipeline` for `Reads`, which has a file that only `attachPolicy`
reads, `Late` is not empty and `NothingGoesQuiet` does not hold (see *Where documentation and
code part*).

### CommandSites, InstructionFiles, PluginPackages and their references

A file is a set of blocks (a hook, a server, a switch, ...), absent or malformed.
Each builder is an action, in the order of `buildTargets`: it reads its files, records
those that do not parse and appends a part per target field; `PackageTargets` follows
`buildTargets`, as in `run()`, and the last action is what `commandSites` and
`mcpServerRefs` take of the parts. `PluginPackages` has two packages, each a record of
the files of a plugin: `SkillsPlugin` lies in `.claude/skills` and is read by its manifest,
and `RepositoryPlugin` is the repository itself, which is walked whole, the
first one included. Without `--plugins` and `--user` there are no others. `AgentLayers` says, per
agent and independently of the builders, which blocks of which files it uses after
its own layers, and which files it reads. It is written from what the comments and rule
pages of the repository say of the agents, whose code is not here, and is marked external.

An instruction file has, next to its blocks, a place: the directory of an agent, the
directories below it, a name and an extension. `InstructionFiles` has one operator per list
of the code, each with its own rule of depth, names and exceptions, and `Opened` for the
lookups that `scanroot` answers with another spelling. `AgentTexts` is the other side, by
agent: `DevinDefinition` takes the first of four names, `KimiShadowed` lets a directory hide
a plain file, `RooTexts` falls back to a file at the root, `ClineDisabled` is the switch in the
file. `KeptTexts` names what the code reads although the agent takes another file.

### Launched

`StartCommand`, `StartHook` and `FollowSibling` are one round each of the three loops
of `attachLaunchedScripts`, with `add` as the code has it; `NextRound` and the actions
named `...Next` move the position. `Round` is what the current round goes through.
`ShipSkill` is one round of the loop of `skillHelperTargets`, whose walk is `InSkill`.
A repository gives each file its content (what it names, whether it starts a process,
its size) and each target its commands, hooks and instruction file.

### Imports

One action per way an import is treated. An item of the queue carries its chain of
files, from which the hops follow. `Reach` is the reference: what can be reached
in n hops, computed level by level and independent of the walk.

### Archive

`ExtractFile`, `LargeFile`, `FileInTheWay` and `CannotCreate` are the ends a regular file can come
to, `CopyBreaksOff` an error in its data; the header's size and the real one are
chosen independently. `read` and `copied` are history: what the archive held and
how many bytes were written, those cut off again included.

### PolicyEntries, PolicyFileChecks, AgentPermissions and PolicyCheck

An entry is a category and a value, a sequence of words or path segments with wildcards.
`Parts` is what the sequences are made of; `starGlob` goes through a pattern part by part and
keeps the places where the match may have come to, which is what the expressions of the code
compute, and has no recursion over two texts.
`PolicyEntries` has the pattern comparisons of `rules/policy.go` and the agents' own files
of it, `PolicyFileChecks` the checks per agent with the entry they advise, both from the
code. `AgentPermissions` decides one concrete request the way the agent does (last match,
longest prefix, deny first, ...), and is external for the same reason as `AgentLayers`.
`PolicyCheck` lets a team edit the file, scan, and follow findings of the last
report, however old it is. `Findings` is `attachPolicy` with CFG025 and CFG118.
A settings file that Claude Code discards whole, for a value of the wrong type or a guard hook it cannot
load, holds a rule of the tool `"type mismatch"`: its lists then count for nothing (`Discarded`), the report
says so (`discardedNote`), and the team that follows such a report removes it.
`PolicyCheckAssumption` is what `policyEntryProblem` and `checkPolicy` (`internal/config/config.go`)
let a policy say, with the form of the rules people write and of the requests that are tried; TLC
evaluates it on the instance.

### Baseline

Findings with the same fingerprint are counted. `Edit`, `Reconfigure` and
`MergeEntry` are the repository's history between scans, `WriteBaseline` and `Scan`
the two commands. `accepted` is history: what the file was told to accept.

### Lock

`BuildTargets` is the first read of the files and the check of the read errors,
`BuildLock` the second read for the hashes, `Truncate` and `WriteLock` the two halves of
`os.WriteFile`, `Compare` is `loadLock` and `lockDiff`. `Edit` and `Kill` come between any
two. `accepted` is history: the contents the last written lock was made from.

### PolicyFiles and PolicySync

A file name leads to the committed file or to the temporary file of a process that
was renamed over it. `durable` holds every file a name may lead to after a power
loss: the directory is not synced, so a rename may be undone. Content that was not
synced may be lost then (`Torn`). `StepFails` is any error of a read or of the
write, with the deferred removal; `Kill` and `PowerLoss` skip it.

## The runs

| Run | Instance | States | Shows |
|---|---|---|---|
| `run_rules` | 3 targets, 2 CPUs, 4 sites | 2,345 | the outcome is sequential on every schedule, the bounds hold, the run ends |
| `scan_reads` | every tree of 5 paths, 3 calls | 528,028 | absence is explained, the order of calls does not matter |
| `scan_pipeline` | every tree of 6 paths, any files malformed | 107,980 | nothing goes quiet, incomplete means exit 2, every leaving link is reported |
| `command_sites` | 13 agents and plugin packages, one at a time, every combination of their files' contents; instruction files in 56 directories | 334,048 | what is used is judged, once, and nothing else; malformed files are reported |
| `launched` | 10 files, 4 targets, packages; every start from 2 files | 629,504 | owners, launchers, one step, each skill file once |
| `imports` | 6 files, 2 hops, lists with cycles and diamonds | 138,204 | one target per file, shortest chains, none missed |
| `archive` | 5 entries, 4 names, sizes around the limits | 680,066 | bounded writes, nothing dropped or replaced |
| `policy_check` | 15 agents, 2 edits, pools of rules per agent | 19,885 | denies are enforced or reported, grants seen, advice works and ends |
| `baseline` | 3 fingerprints, 2 findings each, 3 entries | 21,060 | only accepted findings are dropped |
| `lock` | 3 commands, 2 edits | 3,739,326 | a pass is an acceptance, prose is free, changes are named |
| `policy_files` | 3 processes, 2 entries, files absent or in either mode | 306,818 | whole files, kept modes, merges only |
| `named_hooks` | `command_sites` with a plugin in `.claude/skills` of a package | violation | see below |

Why the bounds are enough to show something:

- `run_rules`: with three targets on two CPUs the loop has to wait, one goroutine
  can start after another ended, and two can be past the check of the failure at
  once. The proofs remove the bound.
- `scan_reads`: two paths looked for, one below the other, three spellings of the
  upper one. Two calls show every order of a walk and a read; the third lets a
  read come between. Two names deep is where a blocker differs from its path.
- `scan_pipeline`: two paths and their other spellings, so that each loader meets
  each kind of entry at a path, above it, and under another spelling. Every file is read
  in two stages.
- `command_sites`: builders of different agents share no files except the ones in one
  agent's list here (Claude's settings count for Continue and Qwen, `.mcp.json` for
  two builders), so one agent at a time loses no interaction. Contents are the sets of
  blocks that layers tell apart. An empty file is the same as an absent one. For packages, the
  files that decide something (settings, manifests, servers, marketplace) vary, and those that are
  only found by the walk are always there. For instruction files, each directory that some agent
  reads has one file of each kind that some agent asks for, at three levels and in
  `node_modules`, so that each list is compared with the agents both ways; where one file decides
  over another (the AGENTS names, Devin, Kimi Code, Cline, Roo Code, extensions) every subset
  of the files is there. Six combinations are left out, because the code
  differs from the reference in them: two of settings and OpenCode files, a hook file named by the manifest
  of a plugin below a package, a servers file that a manifest names and that
  does not parse, and two lookups under another spelling (see *Where documentation and code part*).
- `launched`: a skill with a skill below it, three scripts beside it that may name each
  other in a cycle, a hook, two configuration files that start up to two scripts each. That is
  enough for a script to be reached in all the ways at once, in either order. The
  proofs remove the bound.
- `imports`: two hops are the least in which a chain can be cut off and another be
  shorter; the code's limit is 4. The proofs cover any limit and graph, for the
  properties they are about.
- `archive`: a file limit of 2 and a total of 5 are both crossed by two entries, three
  that understate their size could pass the bound on what is written, and the limit of 4
  entries is passed by the fifth. `MaxRead` bounds how long an archive is.
- `policy_check`: `MaxEdits` is 2: one edit before the scan and one between the scan and
  the advice, or a rule and its exception. Pools hold the entry, wider and narrower ones, and
  exceptions. `Concrete` gives each category requests inside, outside and at the edge
  of the patterns. Rules that the code answers differently from the agent are not
  in the pools; they are listed below.
- `baseline`: two findings of a kind make a count that can be used up half; three
  entries make a duplicate beside another.
- `lock`: three commands are a lock, a second one that is killed or not, and a check;
  two edits can undo each other, or fall between the two reads of one command. Lists of one
  and of two approvals make both branches of the difference.
- `policy_files`: two commands of one kind and one of the other; each can read before
  and write after any other. Two entries make lists that differ both ways.

`scan_reads`, `policy_check`, `lock` and the two runs of `CommandSites` have deadlock
checking off: the callers of the first may stop, a user has no edits or commands left in the next
two (`MaxEdits`, `MaxCommands`), and the builders end. Everywhere else a finished program stutters explicitly.

### Fairness

`run_rules` assumes weak fairness of the goroutine of `run()`
and of each target's goroutine: the Go scheduler runs every runnable goroutine, no
goroutine here waits for a lock that is held across a call, and a shellcheck call
ends by `shellcheckTimeout` and `WaitDelay` (`rules/cfg045.go`). Nothing is assumed
about which of the two ways a call ends. The semaphore needs no strong fairness: only
one goroutine sends.

`policy_check` assumes that a team goes on following the findings of its report and
scanning again (`WF` of `FollowAdvice` and `Scan`), in any order, which is what a CI job that
fails makes it do. That is not a fact about the code; the code's part is that
following its advice cannot go round in a circle.

## Where documentation and code part

`named_hooks` is a run that TLC finds violated, with the quoted lines in
`PROJECT.json`: in a repository that is a package itself, a plugin in `.claude/skills` is not
read by its manifest, because `pluginRoots` drops roots "inside an already-listed root (whose
walk covers them)". The walk takes every `hooks/hooks.json` but does not ask the
manifest for others, so a hook file that it names runs and is never judged.

The others were met while modelling. They have no run; the models follow the code, and the
instances leave the case out where a property would fail on it.

In the scan:

- `attachPolicy` reads Kilo Code's files after `unreadableTargets` has run, so one that does not
  parse is not reported; the comment of `skipUnreadable` says "so nothing goes quiet" (`main.go:960`).
- A `.claude/scheduled_tasks.json` that does not parse ends the scan with exit 2; the
  page of CFG109 names a package given with `--plugins` as the only such case left.
- A dangling link among the listed OpenCode agents ends the scan with exit 2; `docs/usage.md`
  says such a link does not change the exit code.
- An imported file that is another agent's instruction file is not expanded
  (`imports.go:77`); the comment of `importTargets` promises a target for every file loaded.
- `attachLaunchedScripts` runs before the targets of packages exist, so scripts that a
  plugin's commands start are not attached; `main.go:1317` says "once all targets exist".
- A sibling that two started scripts name has the launchers of the first only. A
  skill's shell script that a started one beside it names gets CFG119 only, like any
  sibling, and not the rules a shipped script gets.
- A malformed settings file of Copilot is reported twice; the comment near `main.go:997`
  says one target each.

In the layers:

- `skillShellDisabled` takes `true` in either settings file, although the comment above
  it says that the local file wins. A settings file that is discarded whole still counts for
  `disableAllHooks`.
- An OpenCode server switched off by a later file is dropped even if a still later one
  switches it on again, and one that is defined after the file that switches it off is still
  judged.
- `commandSites` applies Claude Code's `disableAllHooks` to the hooks of Cursor, Devin and
  Qwen's agents as well; Continue's own copy of the switch in `.claude/settings.json` is not honoured.

In the instruction files:

- Of a Devin subagent's names the comment of `devinAgentFileNames` (`main.go:2633`) and
  `docs/rules/README.md:326` say `AGENT.md`, `AGENTS.md`, `agent.md`, `agents.md`, in this order. With `agent.md` and
  `AGENTS.md` and no `AGENT.md`, the lookup of the first finds `agent.md` under another
  spelling, and `AGENTS.md`, which Devin loads on a file system that tells them apart, is
  not read.
- By the same lookup, a plain skill `a.md` of Kimi Code is dropped when the file beside it is
  `a/skill.md`, which is no skill to Kimi Code (`main.go:2623`).
- `.agents/skills/skill.md` is read twice: `agentSkillsFiles` ignores case, and
  `kimiSkillFiles` takes it for a plain skill because it is not spelled `SKILL.md`.

In the packages:

- A servers file named by a plugin's manifest that does not parse is reported on `plugin.json`,
  without the name of the file; findings elsewhere go to the file that declares the servers. In the walk
  of a package the commands and agents of that plugin are then not read.
- `pluginRoots` drops a root inside an earlier one only, so a `--plugins` path that is listed before
  a directory around it is walked twice, and paths of a manifest that overlap read a file twice.

In the policy:

- A Rulesync file with nothing but one tool's block is not checked: `attachPolicy` returns
  before it reads the blocks when there is no shared entry (`main.go:599`). The same early
  decision keeps CFG118 from naming a tool's own categories and rules.
- Codex: `enabled_tools` counts as a deny of the other tools, and the advice to add one to
  `disabled_tools` does not satisfy a check of a tool it names (`policycodex.go:166`). A home entry with a
  wildcard inside (`~/*/id`) that is a key of the filesystem table literally, a home key in a workspace scope, and `delete_*` in
  `disabled_tools` literally count as denied too, although Codex takes them as the names they are. Advice
  for a path under the home directory does not satisfy OpenCode and Kilo Code unless the path
  ends in its only wildcard, nor do names with a dot or a blank Grok.
- For a neutral path that starts with `./`, Grok is advised `Read(./...)`; `grokCovers` drops the `./` of the
  entry and not that of the value it compares with (`policyqwengrok.go:195`), so the entry is asked for again.
- For an MCP entry with a wildcard, Codex and Roo Code are told to disable "each matching tool"
  (`policycodex.go:212`, `policyroo.go:146`), and who does that still has the finding: the checks
  look for the entry's own text in `disabled_tools` and `disabledTools` (`policycodex.go:166`).
- An allow entry of Cursor, Qwen Code or Grok with a wildcard before its end, as in `Shell(* --force)`
  or `Bash(* --force)`, runs commands under a forbidden `git push` but does not overlap
  it (`cursorOverlaps`, `qwenOverlaps`, `grokOverlaps`); `policy.go:47` says that overlaps "reports whether allow
  entry e grants anything v names". A wildcard inside the tool of Cursor's `Mcp` entries is such a case too.
- Longer allowed prefixes (Roo Code) or narrower reopened patterns (OpenCode) than the check's
  probes are not seen; `.rooignore`'s `secrets/**` counts as covering `**/secrets/**`, and `/.env`, which is the file at
  the root only, `**/.env` (`policyroo.go:83`).
- `rulesyncConflicts` checks one direction; its comment says either.

In lock: a lock is written without a word while a file does not parse, and CFG109
is the scan's business alone.

## The proofs

TLAPS checks these for every value of the constants that satisfies the assumptions
of the modules: types and, in `RunRulesAssumption`, at least one CPU; in
`ImportsAssumption`, `LaunchedAssumption` and `PolicyFilesAssumption`, names that are distinct;
in `ArchiveAssumption`, names that are sequences; in `PartsAssumption` and `PolicyCheckAssumption`,
that the wildcards and the parts of the requests CFG025 tries (`ProbeParts`) are among the parts, and that policies, rules and requests have the form the
configuration's own check asks for; in `BaselineAssumption` and
`ScanRootAssumption`, finite sets of fingerprints and of paths, where a path has its directories
in the set (a repository is finite, and a fold over fingerprints needs it). No
module with a theorem uses a recursive operator. The library's induction theorems take an
operator, which no installed prover can instantiate; what is needed of induction over numbers
is done with sets: a set of numbers that holds n whenever it holds all below n is all of
`Nat`, because `<` is well-founded there. So the recursive functions `Levels` (`Imports`) and
`resolveComponents` (`ScanRoot`) are proved about. The type invariants are proved for each of the modules with
proofs and need no run.

**RunRules** (`RunRulesProofs`). The invariant `IInv` has six parts. `TypeOK`.
`TokensCounted`: `sem` is the number of goroutines that hold a token, plus the one the
loop has just sent. `LoopProgress`: exactly the goroutines below `next` were started, `wg`
counts the live ones, and none is left when the slots have been collected.
`NothingSkipped`: as long as there is no failure a goroutine has the findings of every
step it has passed and a stored slot is complete; a failure means that there is a site.
`Reporting`: what was collected, and how the exit follows from the failure.
`LateBudget`: after the first failure, late calls and calls under way together stay
below the number of slots, because no call starts any more and the goroutine that
recorded the failure is not in one. `AtMostOnePerCPU` and
`FewLateCalls` follow; without the counting parts, `sem <= GOMAXPROCS` would say nothing
of how many goroutines run. With `NothingSkipped` every step maps to a step of `RuleScan`
or a stutter (`RefinesSequentialScan`).

**Imports** (`ImportsProofs`). `SeenAreTargets`: the walk has marked as seen exactly the
files that have a target. A file is followed only if it is not seen, so this makes
`OneTargetPerFile` inductive on every graph, cyclic or not, with any hop limit. That chains are
shortest needs the order of the queue: `BreadthFirst` says that chains in it never get shorter
and differ by one hop at most, `KnownAreShortest` that each known chain is as long as the first
level of the reference that has its file, and `Followed` that what a dequeued file imports is
known. By induction on the level, once the queue is empty every level is known (`NothingMissed`).
`ExternalAreImports` and the same fact give both directions of `ExternalImportsComplete`.

**Archive** (`ArchiveProofs`). `WithinTotal`: the history `copied` equals `total`, and
until unpacking fails `total` is within the limit, so the one copy that crosses it adds at most
the file limit and a byte (`CopyBounded`). `Kept`: a file that was read is named as
skipped or still on the disk at its size; this is `NothingDropped` while the archive
is being unpacked, and it is inductive because no entry touches a file that is there.
`InDirectories`: what is on the disk lies in directories that are there. So a directory an entry
creates is not in the way of an earlier file, and `FirstOneWins` is inductive.

**Baseline** (`BaselineProofs`). `ListsAccepted`: however the file was edited, merged and
replaced, it lists as many copies of each fingerprint as were accepted. `ResultIsCurrent` ties the
last result to the file and the findings it was made from. The three properties then are about the
counting of `applyBaseline`: per fingerprint it drops the smaller of what is found and what
is listed. For `StaleEntriesAreUnused` the entries that remain when the stale ones are deleted are
counted through the entries of each fingerprint, in order.

**The scan** (`ScanProofs`). Of `Call`, for any tree, path and records: every answer except
data leaves its record (`Recorded`), and the records only grow. What is refused leads
outside, and what is recorded as unreadable lies at or above the path asked for. `caseResolve`
respells component by component; by induction on them, its result is as long as the path,
is there, and was the only choice wherever it differs.
`ReadsInv` keeps the links by whether the walk found them: one record per link, those of reads
lead outside, and each refusal has an answer of the same call. `RunInv` does the same for the stages:
all reads of a stage that is over are recorded (`ReadsDone`) and have what their loader made of
them (`LoadDone`), the walk's links are there from stage 3 on, and every link has its target from
stage 7 on (`LinkReported`). It has to say that no CFG115 target exists before stage 6
(`NoLinkTargetsYet`), since "not both ways" would not follow otherwise. A run that stops early has
exit code 2 and no output (`Ended`). `NothingGoesQuiet` holds as long as nothing committed is asked
for late (`NothingIsQuiet`); in the code, Kilo Code's files and files that rules look up are late,
and these are the exceptions listed above. `InTimeIsNamed` has no such condition: it says
the same of every file that was asked for in time.

**PolicyFiles** (`PolicyProofs`). A process writes a merge of lists it read some
steps ago, so what it writes need not be a merge of what is there. The key part of `IInv`
(`MergeOK`) is that the union of both lists never changes, whoever replaces which: a process
between its reads and its rename holds that union, however stale its copy is. `NamesOK` says
that a name, now or after a power loss, leads to nothing, to the committed file or to a
file some process wrote out and synced. `NameModesOK` and `ModeOK` say the same of the
permission bits. From these, `WholeFiles`, `ModeKept`, `SuccessLasts` and the refinement of
`PolicySync`, for any number of commands at once.

**PolicyCheck** (`PolicyProofs`). `TeamInvariant` ties the report to the file: a fresh one is what
`Findings` says of it, the file holds rules of the agent, and what is reported as missing, however old
the report, is an entry of the policy that the agent's check looks for (`TeamIsInvariant`). The rest is about
patterns, with texts of any length. A pattern matches a text when the text can be cut into one piece
per part (`GlobCuts`); pieces of pieces are pieces, so a pattern that matches a
pattern matches all that one matches. From this, `CommandsCovered`, `PathsCovered`, `FetchCovered` and
`McpCovered`: what each agent's check takes for covered (`claudeCovers`, `globCovers`, `cursorShellMatches`, ...)
the agent, by its own reading, refuses for every request the entry stands for. `CodexRefused` does the same
for profiles, prefix rules and tool lists; for the switches of Gemini CLI and pi it is a fact about their tools.
`DeniesAreAnswered` puts them together. `CommandsGranted` and `McpGranted` are the other direction: an entry that
runs a request the forbidden entry stands for overlaps it (`GrantsAreReported`). For `AdviceIsRecognised`, `SpellCovers`
says that the entry a finding names covers what it is about, and `Put` that it is in the file afterwards
and that a rule with another key is still there, whatever the file has become since the report. The one
exception is a file that Claude Code has since come to discard, about which the report did not say so.

For OpenCode and Kilo Code the last rule that matches decides. `OrderedStands`: a request gets the
effect of another if it comes under each rule of that effect the other comes under, and under none
of another effect that the other does not come under. This carries what CFG025 finds for the requests
it tries over to the ones it does not, in each block. `ProbesMatch` says that the rule a finding
names matches every request CFG025 tries for the entry, with the wildcards filled in, and as
that rule is put last it decides (`OrderedAdviceWorks`). For Roo Code the longer of an allowed and a denied prefix decides:
`RooCommandRefused` and `RooCommandGranted` go from the two command lines the check looks at to all that start
with the entry, and `RooPathRefused` from the lines of `.rooignore` that cover an entry to those that match a path,
of which the last decides.

The three theorems are about all agents, and have a hypothesis each, which leaves out the differences
listed above. `Answerable`: the shared entries name what the tool's own block adds (`main.go:599`); for
Codex, entries under the home directory end in their only wildcard, keys of a workspace scope are not in
it, and, as for Antigravity and Roo Code, MCP entries name a tool. For Roo Code, an allowed prefix that is longer
than the denied command is the one with `--force` or denied itself, a line of `.rooignore` that counts as
covering an entry is the entry, its name or a directory around it, and an exception that lets one of
its paths through covers all of it. For OpenCode and Kilo Code each request has one among those CFG025
tries that stands for it, in the sense of `OrderedStands`. `Seeable`: the same of forbidden entries, where a rule that
allows part of a server's tools counts too, and wildcards of allow entries at their end. `Advisable`: no list of enabled
tools of Codex names the denied tool, a server is called to Grok what it is called in the policy and no path
to be denied there starts with `./`, MCP entries of Codex and Roo Code name a tool, and home entries of OpenCode and Kilo Code end in their only
wildcard. The hypotheses about files are needed because the checks try samples: where a rule tells the samples from the rest,
what they conclude is wrong. Evaluated as invariants of `policy_check`, all three hold in every state, so the run
shows the properties under the hypotheses and the theorems remove its bounds.

**Lock** (`LockProofs`). `LockOK`: the file is empty or made from `accepted`. `CommandOK`:
what a command holds is what it read, and as long as nobody edited, what is there.
`ResultOK`: a check that ended with 0 or 1 compared those two. The three properties then are
facts about `lockDiff` on two locks, with the case of one value on each side by
cardinality.

**Launched** (`LaunchedProofs`). The invariant says what the loops have done by the position
they are at: every command (`CommandsAdded`), hook (`HooksAdded`), sibling
(`SiblingsAdded`) and skill (`SkillsRead`) that was passed has its effect, and every
entry has a cause (`DirectAreStarted`, `SiblingsNamed`). `Ordered` says that the
scripts up to `direct` are exactly those that something starts: the loop that follows siblings
goes over these, although the list grows meanwhile. `OwnersSoFar` makes the first starter the
smallest: an entry never belongs to a target behind the position. `GivenOnce` keeps what skills
ship apart from what is started. At the end the positions are past everything, and the four
properties follow.

Model-checked only:

- Liveness: `EveryScanEnds`, `FailureEndsTheRun` and `AdviceConverges`. Fairness and ENABLED are beyond the prover.
- `WhatIsUsedIsJudged`, `NothingUnusedIsJudged`, `MalformedIsReported` and `JudgedOnce` of `CommandSites`. They compare two
  large tables, one from the code and one from the agents, whose cases TLC enumerates completely for the
  blocks the layers tell apart. They do not hold for every value of the constants: the combinations leave out the
  differences listed above, and a theorem would have to assume each of them away.

## What the models leave out

- Content: what a rule finds, what a parser accepts, messages, lines. A file parses
  or does not; a finding is the step that made it. The 160 rules are pure checks
  of one target by regular expressions, more than half of the code, with no state to explore.
- `scanroot.Glob`, reads outside the root (`--user`, `--config`), a second `Set` in the same process.
- In `ScanPipeline`: the errors of a baseline that cannot be loaded or written, of the
  encoders and of wrong arguments (all exit 2), and the depth and skip lists of the walk.
- In `CommandSites`: the user's own files and plugins, that Kimi Code's servers override those of the
  root `.mcp.json`, skills of one name, Roo Code's modes but one, and paths named with `--plugins`.
- In `Launched`: which words of a command or a script are paths, symbolic links, a `SKILL.md` that
  `Stat` finds and that cannot be read (`skillhelpers.go:70`; it counts as absent), and packages' targets beyond their commands and instruction file.
- In `PolicyCheck`: the list form of require-deny, conflicts with Rulesync, several files of one
  agent, and the regular expressions of VS Code. Entries are compared by words and path segments, also where
  the code compares characters (`rooLongestPrefix`, `policyroo.go:27-34`, for which `gi` is a prefix of `git push`);
  upper and lower case inside an entry and `..` in Rulesync's paths are left out.
- In `Lock`: `--plugins` and `--user`, and all kinds of trust entries but four.
- In `PolicyFiles`: `--dry-run`, `--out`, a target that is a link or not a regular file
  (the second is an error of `CreateTemp`'s step, which `StepFails` covers), the other
  name `.cfgaudit.yaml`, and people who edit the files at the same time.
- The file system is the one of Unix: names are told apart by case.
- The tree does not change during a scan (it does in `Lock`).
