--------------------------- MODULE MCProxyBudget ---------------------------
(* Three requests of two proxies with different budgets on one ledger file. *)
EXTENDS ProxyBudget, TLC

CONSTANTS w1, w2, w3, small, large

SmallOrLarge == (w1 :> small) @@ (w2 :> small) @@ (w3 :> large)
OneOrTwo == {[micros |-> 1, tokens |-> 2], [micros |-> 2, tokens |-> 1]}
MicrosOf == (small :> 3) @@ (large :> 4)
TokensOf == (small :> 4) @@ (large :> 5)
=============================================================================
