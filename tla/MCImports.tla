----------------------------- MODULE MCImports -----------------------------
EXTENDS Imports

\* Two files that Claude Code expands, one that is another agent's instruction
\* file, and three that are targets only if they are imported.
MCFiles == {"CLAUDE", "AGENTS", "cursor", "a", "b", "c"}
MCInstructions == {"cursor", "CLAUDE", "AGENTS"}
MCRoots == <<"CLAUDE", "AGENTS">>
MCImportsAt == [f \in MCFiles |->
    CASE f = "CLAUDE" -> {<<"a">>, <<"a", "AGENTS">>, <<"cursor", "a">>, <<"a", "~">>}
      [] f = "AGENTS" -> {<<>>, <<"b">>, <<"CLAUDE", "c">>}
      [] f = "cursor" -> {<<>>, <<"c">>, <<"a", "~">>}
      [] f = "a" -> {<<>>, <<"b">>, <<"a", "b">>, <<"b", "c">>, <<"CLAUDE", "~", "b">>}
      [] f = "b" -> {<<>>, <<"c">>, <<"a", "c">>, <<"c", "~">>}
      [] f = "c" -> {<<>>, <<"~">>, <<"a", "b">>}]
=============================================================================
