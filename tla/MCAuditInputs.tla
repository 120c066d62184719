---------------------------- MODULE MCAuditInputs ----------------------------
(***************************************************************************)
(* Two runtimes, as the command configures them: the provider of Claude is *)
(* fixed, that of Codex is a setting and may have no published listing.    *)
(***************************************************************************)
EXTENDS AuditInputs, TLC

Config(provider, model, version) ==
    [provider |-> provider, model |-> model, version |-> version]

MCConfigs ==
    [rt \in Runtimes |->
        IF rt = "claude" THEN {Config("anthropic", "m", 1)}
        ELSE {Config("openai", "m", 1), Config("openai", "n", 2), Config("other", "m", 1)}]
MCConfigured ==
    [rt \in Runtimes |->
        IF rt = "claude" THEN Config("anthropic", "m", 1) ELSE Config("openai", "m", 1)]
MCListings == {[ids |-> {"x"}, aliases |-> [m |-> "x"]]}
\* Deaths, failed writes and changes of the configuration are two at most, and the
\* configuration only changes while there is no guidance on file: models and guidance
\* share nothing but an audit of both.
MCMishaps == moves + stops <= 2 /\ (moves > 0 => \A s \in Sources : observed[s] = {})

MCSymmetry == Permutations(Procs) \cup Permutations(Contents)
=============================================================================
