SPECIFICATION Spec
CONSTANTS
    None = None
    h1 = h1
    h2 = h2
    e1 = e1
    e2 = e2
    e3 = e3
    k1 = k1
    k2 = k2
    MaxList = 3
    DefServer = "_"
    Root = "/"
    SlashOf <- MCSlashOf
    LongestFirst <- MCLongestFirst
    Ready <- MCReady
    ClusterIP = {"D"}
    Portless = {}
    CertHosts <- MCCertHosts
    CommonName <- MCCommonName
    AllowSnippets = FALSE
    ListSetups <- MCListSetups
    Numeric = {"53", "80", "8080", "9000", "9090", "5353", "8181"}
    EndpointLists <- AllLists
    References = {"80", "8080", "http", "53"}
    ReservedPorts = {"80"}
    StreamEntries <- AllEntries
    AllowExternal = TRUE
    ServiceSetups <- MCServiceSetups
    Lists <- SomeLists
    MaxChanges = 2
    FieldSetups <- MCFieldSetups
    Sessions = {"s1"}
    Peers = {e1, e2, e3}
    Keys = {k1, k2}
    Ring <- MCRing
    RequestSetups <- MCRequestSetups
    Chosen = {"ingresses", "services", "fields", "persistent", "balanced", "rules"}
INVARIANTS IngressPrecedence ModelIsClosed EndpointsUsable ComparisonIsSound SessionsKept
PROPERTIES Precedence
CHECK_DEADLOCK FALSE
