----------------------------- MODULE MCProgram ------------------------------
(***************************************************************************)
(* The program with the names of its own surface.                          *)
(***************************************************************************)
EXTENDS ProgramProperties

MCPolicyNames == {"treasury-policy", "retail-exit"}
MCRouteNames  == {"treasury", "blue-route"}
MCOwnerNames  == {"protocol-fees", "alice", "sponsor-pool", "merchant"}
MCFlags == {{"TREASURY", "WITHDRAW"}, {"WITHDRAW", "CONSOLIDATE", "ALLOW_ROUTE_CLOSE"}}

\* every scenario, its aliases, no argument, a wrong one, too many
MCArguments ==
    {<<>>, <<"">>, <<"snapshot">>, <<"flow">>, <<"routed">>, <<"cancel">>, <<"fee-rotation">>,
     <<"unknown">>, <<"--help">>, <<"-h">>, <<"flow", "extra">>}

=============================================================================
