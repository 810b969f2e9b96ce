----------------------------- MODULE MCRunRules -----------------------------
EXTENDS RunRules

\* Two sites before a rule, a site after one, and a target without sites.
MCWork == << <<"site", "site", "rule">>, <<"rule", "site">>, <<"rule">> >>
=============================================================================
