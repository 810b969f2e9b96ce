---------------------------- MODULE MCScanReads -----------------------------
EXTENDS ScanReads

\* A directory under three spellings, with a file in the one looked for and in
\* another: enough for a read of a file, of a path through a link, of another
\* spelling, and of an ambiguous one.
MCPaths == {<<"a">>, <<"a", "x">>, <<"A">>, <<"A", "x">>, <<"Aa">>}
MCFold == [n \in {"a", "A", "Aa", "x", ""} |-> IF n \in {"a", "A", "Aa"} THEN "a" ELSE n]
MCAsked == {<<"a">>, <<"a", "x">>}
MCTracked == {<<"a">>, <<"A">>}
MCKindsAt == [p \in MCPaths |->
    IF p = <<"Aa">> THEN {"none", "file", "dir"}
    ELSE IF Len(p) = 2 THEN Kinds \ {"gone", "closed", "inside"} ELSE Kinds]
MCLinkText == [p \in MCPaths |-> p]
=============================================================================
