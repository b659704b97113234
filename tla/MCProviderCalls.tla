-------------------------- MODULE MCProviderCalls --------------------------
(* ProviderCalls for TLC: a good connection and a bad one; a handler that     *)
(* applies or discovers beside one that patches.                              *)
EXTENDS ProviderCalls, TLC

CONSTANTS conn, bad, k1, k2, h1, h2

TheKeysOf == (conn :> {k1}) @@ (bad :> {k2})

TheBackoff == Exponential(1)

TheOpsOf == (h1 :> {"Apply", "Discover"}) @@ (h2 :> {"Patch"})
=============================================================================
