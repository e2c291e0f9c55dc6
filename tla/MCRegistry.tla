----------------------------- MODULE MCRegistry -----------------------------
(***************************************************************************)
(* Two letters and the separator of the digest are enough: names have room *)
(* for two, and the texts that callers pass are shorter, as long, and      *)
(* longer, with the same beginnings.                                       *)
(***************************************************************************)
EXTENDS Registry

MCPolicyTexts == {<<"a">>, <<"a", "b">>, <<"a", "b", "a">>}
MCRouteTexts  == {<<"a">>, <<"a", "|">>, <<"a", "b">>, <<"a", "b", "a">>, <<"a", "b", "b">>}
MCAssetTexts  == {<<"a">>, <<"|">>, <<"a", "b">>}
MCOwnerTexts  == {<<"a">>, <<"a", "b">>, <<"a", "b", "a">>}

=============================================================================
