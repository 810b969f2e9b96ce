----------------------------- MODULE MCLaunched -----------------------------
EXTENDS Launched

\* A skill with another one below it, three scripts beside its SKILL.md, and
\* a hook of Cline.
MCPaths == {"claude", "vscode", "skill", "run", "lib", "load", "doc", "nested", "in", "hook"}
MCDir == [p \in MCPaths |->
    CASE p \in {"skill", "run", "lib", "load", "doc"} -> <<"s">>
      [] p \in {"nested", "in"} -> <<"s", "n">>
      [] p = "hook" -> <<"hooks">>
      [] OTHER -> << >>]
MCExt == [p \in MCPaths |->
    CASE p \in {"run", "load", "in"} -> "shell"
      [] p = "lib" -> "code"
      [] p = "doc" -> "md"
      [] p \in {"skill", "nested"} -> "SKILL"
      [] OTHER -> "none"]

T(size, runs, names) == [size |-> size, runs |-> runs, names |-> names, foreign |-> FALSE]
Plain == T("small", FALSE, << >>)
Runs(names) == T("small", TRUE, names)
MCTrees ==
    {[p \in MCPaths |-> CASE p = "run" -> run [] p = "lib" -> lib [] p = "load" -> load
                          [] p = "nested" -> nested [] p = "hook" -> hook [] OTHER -> Plain] :
        run \in {Absent, Plain, T("large", TRUE, <<"lib">>), Runs(<<"run", "load", "lib">>)},
        lib \in {Absent, Runs(<<"load">>), T("small", FALSE, <<"load">>), T("long", TRUE, <<"run">>)},
        load \in {Plain, Runs(<<"lib">>)},
        nested \in {Absent, Plain},
        hook \in {Plain, [Plain EXCEPT !.foreign = TRUE]}}

Starts(file, paths) == [k \in 1..Len(paths) |-> [file |-> file, path |-> paths[k]]]
SomePaths == {<< >>, <<"run">>, <<"lib">>, <<"hook">>, <<"run", "lib">>, <<"lib", "run">>, <<"hook", "run">>}
Tgt(commands, hooks, instruction) == [commands |-> commands, hooks |-> hooks, instruction |-> instruction]
MCTargetLists ==
    {<<Tgt(Starts("claude", a), << >>, "none"), Tgt(<< >>, << >>, "skill"),
       Tgt(Starts("vscode", b), << >>, "none"), Tgt(<< >>, <<"hook">>, "none")>> : a \in SomePaths, b \in SomePaths}
Package(instruction) == Tgt(<< >>, << >>, instruction)
MCPackageLists == {<< >>, <<Package("doc"), Package("skill")>>, <<Tgt(Starts("vscode", <<"in">>), << >>, "skill")>>, <<Package("nested"), Package("nested")>>}
=============================================================================
