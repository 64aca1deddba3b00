CONSTANTS
    t1 = t1  t2 = t2  t3 = t3
    c1 = c1  c2 = c2  c3 = c3
    peer = peer  hub = hub  tls = tls
    cgnat = cgnat  hubDomain = hubDomain
    NoClient = NoClient
    Threads <- MCThreads
    Clients <- MCClients
    Urls <- MCUrls
    Https <- MCHttps
    DnsSuffixes <- MCSuffixes
    Builtin <- MCBuiltin
    SuffixOf <- MCSuffixOf
    MAX_IDLE_PER_HOST = 2
SPECIFICATION Spec
SYMMETRY MCSymmetry
INVARIANTS ExclusiveLease NoConnectionLeak RightHost OursStayOurs ForeignOnlyAfterRegistration
