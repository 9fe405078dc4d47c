------------------------- MODULE MCManagementClient -------------------------
(* The management client on a small instance: two callers, and an engine    *)
(* with a subscription that the SDK cannot read.                            *)
EXTENDS ManagementClient, TLC

\* Errors captured from the engine (tests/fixtures/api_captures.json), with a
\* code that is listed or not, and one with a status that is not listed.
RefusalsOf ==
    {<<404, "subscription_not_found">>, <<400, "bad_request">>, <<500, "internal_error">>}

Symmetry == Permutations(Callers)

=============================================================================
