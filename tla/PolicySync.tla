----------------------------- MODULE PolicySync -----------------------------
(***************************************************************************)
(* What `cfgaudit policy apply` and `cfgaudit policy generate` promise:    *)
(* each merges the one deny list into the other in one step or does        *)
(* nothing.  A power loss may bring back an earlier version of either      *)
(* file, and never anything else.                                          *)
(***************************************************************************)
CONSTANT Entries  \* deny entries

VARIABLES
    settings,  \* permissions.deny of .claude/settings.json
    config,    \* policy.require-deny of .cfgaudit.yml
    versions   \* versions[f]: what a power loss may leave of file f

Init ==
    /\ settings \in SUBSET Entries /\ config \in SUBSET Entries
    /\ versions = [settings |-> {settings}, config |-> {config}]

Apply ==
    /\ settings' = settings \cup config
    /\ versions' = [versions EXCEPT !.settings = @ \cup {settings'}]
    /\ UNCHANGED config

Generate ==
    /\ config' = config \cup settings
    /\ versions' = [versions EXCEPT !.config = @ \cup {config'}]
    /\ UNCHANGED settings

PowerLoss ==
    /\ settings' \in versions.settings /\ config' \in versions.config
    /\ versions' = [settings |-> {settings'}, config |-> {config'}]

Next == Apply \/ Generate \/ PowerLoss

Spec == Init /\ [][Next]_<<settings, config, versions>>
=============================================================================
