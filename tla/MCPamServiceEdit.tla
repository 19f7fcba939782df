-------------------------- MODULE MCPamServiceEdit --------------------------
(***************************************************************************)
(* Instances of PamServiceEdit for TLC: what may stand in the file.         *)
(***************************************************************************)
EXTENDS PamServiceEdit

\* Pristine, enabled by hand further down, enabled with an unsafe flag, and both.
Contents == {<<"unix">>, <<"unix", "sufficient">>, <<"required", "unix">>,
             <<"sufficient", "required">>}

\* The loop of disableInContent against the library's way to say it, for short files.
ASSUME DisablingAssumption ==
    \A n \in 0..4 : \A content \in [1..n -> Lines \cup {"nul"}] :
        disableInContent(content) = SelectSeq(content, NotFacial)
=============================================================================
