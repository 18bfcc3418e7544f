------------------------- MODULE MCProviderRegistry -------------------------
(* ProviderRegistry on a small instance. *)
EXTENDS ProviderRegistry

CONSTANTS k1, k2, u1

R(t, k, x, d, b) ==
    [type |-> t, key |-> k, url |-> u1, proxy |-> x, disabled |-> d, proxied |-> b]

MCRowChoice == {R("xai", k1, "none", FALSE, FALSE), R("xai", k2, "none", TRUE, FALSE),
                R("kimi", k1, "manual", FALSE, TRUE), R("opencode", k1, "none", FALSE, FALSE),
                R("custom", k1, "none", FALSE, FALSE), R("cursor", Login, "none", FALSE, TRUE)}

\* Providers and requests are alike.
Alike == Permutations(Provider) \cup Permutations(Client)
=============================================================================
