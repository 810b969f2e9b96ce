----------------------------- MODULE TargetParts -----------------------------
(* A target of the rules, taken apart: one entry per kind of content, with   *)
(* the file it comes from and the blocks of it that the builder passes on.   *)
EXTENDS AgentLayers

Part(f, part, blocks) == [file |-> f, part |-> part, blocks |-> blocks]

(* A part exists if the file has one of the blocks its builder asks for.     *)
PartIf(f, part, gate, kept) ==
    IF Blocks(f) \cap gate # {} THEN <<Part(f, part, Blocks(f) \cap kept)>> ELSE <<>>
Simple(f, part, blocks) == PartIf(f, part, blocks, blocks)
Parts(fs, part, blocks) == FlattenSeq([i \in DOMAIN fs |-> Simple(fs[i], part, blocks)])

Broken(f) == f \in DOMAIN files /\ files[f] = Malformed

(* Either file switches the `!` commands off, unless it is discarded whole.  *)
skillShellDisabled == \E f \in Range(ClaudeFiles) : Has(f, "shellOff") /\ ~Has(f, "discarded")
=============================================================================
