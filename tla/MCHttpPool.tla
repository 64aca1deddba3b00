----------------------------- MODULE MCHttpPool -----------------------------
(* Three query threads (the pool of one URL overflows when all three return *)
(* a client to it), three URLs: a built-in tailnet host, a host  *)
(* whose suffix is registered later (the domain of a hub), and an https URL *)
(* of that same suffix.                                                     *)
EXTENDS HttpPool, TLC

CONSTANTS t1, t2, t3, c1, c2, c3, peer, hub, tls, cgnat, hubDomain

MCThreads == {t1, t2, t3}
MCClients == {c1, c2, c3}
MCUrls == {peer, hub, tls}
MCHttps == {tls}
MCSuffixes == {cgnat, hubDomain}
MCBuiltin == {cgnat}
MCSuffixOf == (peer :> cgnat) @@ (hub :> hubDomain) @@ (tls :> hubDomain)

MCSymmetry == Permutations(MCThreads) \cup Permutations(MCClients)

=============================================================================
