------------------------- MODULE MCSessionSelection -------------------------
(* One transcript of Codex and two of Claude; two of them carry the same id. *)
EXTENDS SessionSelection

MCProviderOf == <<"codex", "claude-code", "claude-code">>
MCIdOf == <<"i", "i", "j">>
MCQueries ==
    {[provider |-> p, id |-> i, cwd |-> d] :
        p \in {None, "codex", "claude-code"}, i \in {None, "i"}, d \in {None, "d"}}
    \ [provider : {None, "codex", "claude-code"}, id : {None}, cwd : {None}]
=============================================================================
