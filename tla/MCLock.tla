------------------------------- MODULE MCLock -------------------------------
(* Two approvals that change in number and in name, a hook and its script,   *)
(* one reformatted file and files that are missing or cannot be used.        *)
EXTENDS Lock

Settings(run, allow, text) == [is |-> "settings", run |-> run, allow |-> allow, text |-> text]
MCSettings == {Settings(TRUE, {"a", "b"}, "v1"), Settings(TRUE, {"a", "b"}, "v2"), Settings(TRUE, {"a", "c"}, "v1"), Settings(FALSE, {"b"}, "v1"),
               Settings(TRUE, {"a"}, "v1"), Absent, Unreadable, Malformed}
MCTexts == {[is |-> "text", text |-> "v1"], [is |-> "text", text |-> "v2"]}
=============================================================================
