----------------------------- MODULE MCBaseline -----------------------------
EXTENDS Baseline

\* An error and a warning that can be accepted, and a secret.
MCFingerprints == {"error", "warn", "secret"}
MCSeverity == [f \in MCFingerprints |-> IF f = "warn" THEN 1 ELSE 2]
MCConfig(override, min, excluded, strict, noExitCodes) ==
    [override |-> override, min |-> min, excluded |-> excluded,
     strict |-> strict, noExitCodes |-> noExitCodes]
Unchanged == [f \in {} |-> 0]
MCConfigs == {MCConfig(Unchanged, 0, {}, FALSE, FALSE), MCConfig(Unchanged, 2, {}, FALSE, FALSE),
              MCConfig([f \in {"warn"} |-> 2], 0, {"secret"}, FALSE, FALSE),
              MCConfig(Unchanged, 1, {"error"}, TRUE, FALSE), MCConfig(Unchanged, 0, {}, TRUE, TRUE)}
=============================================================================
