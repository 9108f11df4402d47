SPECIFICATION TlsSpec
CONSTANTS
    None = None
    EmptyUid = EmptyUid
    Conns = {"c1"}
    Asked <- MCAsked
    Canon <- MCCanon
    Names <- MCNames
    Wild <- MCWild
    Default = "_"
    Uids <- MCUids
    Pems <- MCPems
    Broken = {"bad"}
    Stapling = TRUE
    Setups <- MCSetups
    NginxServer = NginxServer
    Behind = Behind
    Hosts = {1, 2}
    Services = {"s", "t"}
    Clients = {"c1", "c2"}
    ProxySetups <- MCProxySetups
    Chosen = {"anytime"}
INVARIANT StapleMatchesAnytime
CHECK_DEADLOCK FALSE
