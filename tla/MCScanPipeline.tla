--------------------------- MODULE MCScanPipeline ---------------------------
EXTENDS ScanPipeline

\* .cfgaudit.yml, an agent's settings file in its directory under two
\* spellings, a file every stage of the scan may ask for, and files that a
\* single loader reads.
Yml == <<"yml">>
Dir == <<"opencode">>
OtherDir == <<"OpenCode">>
Settings == <<"opencode", "settings">>
OtherSettings == <<"OpenCode", "settings">>
Package == <<"package">>

MCPaths == {Yml, Dir, OtherDir, Settings, OtherSettings, Package}
MCFold == [n \in {"yml", "opencode", "OpenCode", "settings", "package", ""} |->
             IF n = "OpenCode" THEN "opencode" ELSE n]
MCLinkText == [p \in MCPaths |-> p]

MCKindsAt == [p \in MCPaths |->
    CASE p = Yml -> {"none", "file", "locked", "outside", "missing"}
      [] p = OtherDir -> {"none", "dir"}
      [] p = OtherSettings -> {"none", "file", "locked", "outside"}
      [] p = Package -> {"none", "file", "locked", "outside", "missing"}
      [] OTHER -> Kinds]

\* OpenCode's config is read by openCodeTargets and again by attachPolicy; a
\* package's manifest by the package walk and again by a rule.
MCReads == [s \in {"build", "policy", "packages", "rules"} |->
    CASE s = "build" -> <<<<"optional", Settings>>>>
      [] s = "policy" -> <<<<"optional", Settings>>>>
      [] s = "packages" -> <<<<"plugin", Package>>>>
      [] s = "rules" -> <<<<"text", Package>>>>]

\* Without an index every link counts as committed.
MCTracked == MCPaths

\* Kilo Code's own file, which only attachPolicy reads: with Reads <- KiloReads
\* NothingGoesQuiet does not hold (README.md).
KiloReads == [MCReads EXCEPT !["policy"] = <<<<"optional", Package>>>>,
                             !["packages"] = <<>>, !["rules"] = <<>>]
=============================================================================
