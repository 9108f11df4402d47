------------------------------ MODULE MCModel ------------------------------
(* The setups of Model for TLC. *)
EXTENDS Model, FiniteSets, SequencesExt

CONSTANTS h1, h2, e1, e2, e3, k1, k2,
          MaxList    \* bound: ingresses in a list

-----------------------------------------------------------------------------
(* Ingresses: two hosts, the default server, and one ingress for every way to *)
(* meet another one.  A list is any order of some of them.                    *)

\* Every order of at most MaxList of the ingresses.
Orders(S) == UNION {{s \in [1 .. n -> S] : \A i, j \in 1 .. n : i # j => s[i] # s[j]} :
                       n \in 0 .. MaxList}

Ann == [canary |-> FALSE, weight |-> 0, total |-> 0, legacyAffinity |-> FALSE,
        serviceUpstream |-> FALSE, snippet |-> None, passthrough |-> FALSE,
        aliases |-> {}, www |-> FALSE, affinity |-> None, ca |-> None,
        defBackend |-> None, errors |-> FALSE, rewrite |-> "no"]

Canary == [Ann EXCEPT !.canary = TRUE, !.weight = 10, !.total = 1000]

Ing(n, def, rules, tls, ann) ==
    [name |-> n, def |-> def, rules |-> rules, tls |-> tls, ann |-> ann]

Rule(host, paths) == [host |-> host, http |-> TRUE, paths |-> paths]
HostOnly(host)    == [host |-> host, http |-> FALSE, paths |-> <<>>]
Path(p, t, s)     == [path |-> p, type |-> t, svc |-> s]
Tls(hosts, s)     == [hosts |-> hosts, secret |-> s]

MCLongestFirst == <<"/a/", "/a", "/">>
MCSlashOf == [p \in {"/a/", "/a", "/"} |-> IF p = "/" THEN "/" ELSE "/a/"]
MCReady == [s \in {"A", "B", "C", "D", "E"} |-> IF s = "D" THEN {} ELSE {<<"pod", s>>}]
MCCertHosts == [s \in {"s1", "s2", "s3"} |->
                  CASE s = "s1" -> {h1} [] s = "s2" -> {h2} [] OTHER -> {}]
MCCommonName == [s \in {"s1", "s2", "s3"} |-> IF s = "s3" THEN {h2} ELSE {}]

Shop == Ing("shop", None, <<Rule(h1, <<Path("/a", "Prefix", "A")>>)>>,
            <<Tls({h1}, "s1")>>, [Ann EXCEPT !.aliases = {h2}, !.www = TRUE])
Blog == Ing("blog", None,
            <<Rule(h1, <<Path("/a", "Prefix", "B"), Path("/a", "Exact", "B")>>),
              Rule(h2, <<Path("/", "Prefix", "B"), Path("/a", "Prefix", None)>>)>>,
            <<Tls({h1}, "s2"), Tls({}, "s3")>>,
            [Ann EXCEPT !.affinity = "cookie", !.snippet = "on", !.ca = "blog"])
Test == Ing("test", None, <<Rule(h1, <<Path("/a", "Prefix", "C")>>)>>, <<>>, Canary)
Self == Ing("self", None, <<Rule(h1, <<Path("/a", "Prefix", "A")>>)>>, <<>>,
            [Canary EXCEPT !.legacyAffinity = TRUE])
All  == Ing("all", "D", <<>>, <<>>,
            [Ann EXCEPT !.serviceUpstream = TRUE, !.defBackend = "E", !.rewrite = "target"])
AllTest == Ing("alltest", "E", <<>>, <<>>, Canary)
Home == Ing("home", "D", <<Rule(None, <<Path(None, "Prefix", "D")>>), HostOnly(h2)>>,
            <<>>, [Ann EXCEPT !.defBackend = "B", !.errors = TRUE, !.passthrough = TRUE])

NoHttp == Ing("nohttp", None, <<HostOnly(h1)>>, <<>>, Canary)

Mixed   == Orders({Shop, Blog, Test, Self, All, AllTest, Home, NoHttp})
Crashes == Orders({Shop, NoHttp, All})

\* The same host and path, as an exact location.
Exact1 == Ing("one", None, <<Rule(h1, <<Path("/", "Exact", "A")>>)>>, <<>>, Ann)
Exact2 == Ing("two", None, <<Rule(h1, <<Path("/", "Exact", "B")>>)>>, <<>>, Ann)
Overlaps == Orders({Exact1, Exact2, Shop})

\* A canary with one path that has a primary and one that has none.
TwoPaths == Ing("test", None, <<Rule(h1, <<Path("/a", "Prefix", "C"),
                                           Path("/", "Exact", "C")>>)>>, <<>>, Canary)
HalfCanary == Orders({Shop, TwoPaths, All})

\* A canary whose service serves another host.
Other == Ing("other", None, <<Rule(h2, <<Path("/a", "Prefix", "B")>>)>>, <<>>, Ann)
Reuse == Ing("reuse", None, <<Rule(h1, <<Path("/", "Exact", "B")>>)>>, <<>>, Canary)
SharedCanary == Orders({Shop, Other, Reuse})

\* A canary with the default backend of another ingress.
SameTest == Ing("sametest", "D", <<>>, <<>>, Canary)
ReusedDefault == Orders({Shop, All, SameTest})

CatchAlls == Orders({All, Home, Shop})

AuthTest == Ing("authtest", None, <<Rule(h1, <<Path("/a", "Prefix", "C")>>)>>, <<>>,
                [Canary EXCEPT !.ca = "test"])
AuthCanary == Orders({Shop, AuthTest, All})

WeightCanary == Orders({Shop, Test, AllTest})

MCListSetups ==
  [ ingresses |-> Mixed, overlap |-> Overlaps, dangling |-> HalfCanary,
    shared |-> SharedCanary, reused |-> ReusedDefault, catchall |-> CatchAlls,
    auth |-> AuthCanary, weight |-> WeightCanary, crash |-> Crashes ]

-----------------------------------------------------------------------------
(* Services, Endpoints objects and entries of the ConfigMaps for streams *)

Port(n, p, t, pr) == [name |-> n, port |-> p, target |-> t, proto |-> pr]
Entry(n, p, pr)   == [name |-> n, port |-> p, proto |-> pr]

Http  == Port("http", "80", "web", "TCP")
Named == Port("http", "80", "8080", "TCP")
Plain == Port("", "80", "8080", "TCP")
Dns   == Port("dns", "53", "53", "UDP")

Svc(t, x, ip, ps) == [type |-> t, ext |-> x, clusterIP |-> ip, ports |-> ps]

PortLists == {<<>>, <<Http>>, <<Named, Dns>>, <<Dns, Plain>>}

ClusterServices  == {Svc("ClusterIP", "", ip, ps) : ip \in {None, "10.0.0.1"}, ps \in PortLists}
ExternalServices == {Svc("ExternalName", x, None, ps) :
                       x \in {"localhost", "invalid", "example.org"}, ps \in PortLists}
AllServices   == ClusterServices \cup ExternalServices
Headless      == {Svc("ClusterIP", "", None, <<>>)}
NumberedPorts == {Svc("ClusterIP", "", None, <<Named>>)}
WordPorts     == {Svc("ExternalName", "example.org", None, <<Http>>)}

Subset(ps) == [ports |-> ps, addrs |-> {"a", "b"}]
TcpWeb   == Entry("http", "8080", "TCP")
TcpOther == Entry("admin", "9090", "TCP")
UdpDns   == Entry("dns", "5353", "UDP")

SubsetLists == {<<Subset(ps)>> : ps \in {<<TcpWeb>>, <<TcpOther>>, <<TcpWeb, UdpDns>>,
                                         <<TcpOther, TcpWeb>>, <<UdpDns, TcpOther>>,
                                         <<TcpOther, UdpDns>>}}
AllLists  == SubsetLists \cup {None, <<>>, <<Subset(<<TcpWeb>>), Subset(<<TcpOther>>)>>}

Words == {<<>>, <<"PROXY">>, <<"", "PROXY">>}
AllEntries == [port : {"80", "9000", "x"}, svcPort : {None, "53", "80", "dns", "http"}, words : Words]

MCServiceSetups ==
  [ services |-> AllServices, fallback |-> NumberedPorts, external |-> WordPorts,
    default |-> Headless ]

-----------------------------------------------------------------------------
(* Fields and lists of endpoints.  Then two fields that Equal leaves out, and the     *)
(* one of a backend that is in nginx.conf.                                            *)

SomeLists == {None} \cup UNION {[1 .. n -> {"e1", "e2"}] : n \in 0 .. 3}

AnyConfigs == INSTANCE ConfigEqual WITH Nil <- None, Setups <- <<>>

Passthrough == <<"Backend", "SSLPassthrough">>

MCFieldSetups ==
  [ fields      |-> AnyConfigs!Compared \ {Passthrough},
    pathtype    |-> {<<"Location", "PathType">>},
    ingressname |-> {<<"Location", "Ingress">>},
    passthrough |-> {Passthrough} ]

-----------------------------------------------------------------------------
(* Requests: sessions of both modes, and canary rules.  Then a header pattern that *)
(* PCRE refuses, a canary that comes and goes, and an endpoint that comes back       *)
(* during a request whose failures do not change the session's cookie.               *)

AnyConfig(E) == [main : SUBSET E, canary : SUBSET E, alt : BOOLEAN]
CanaryStays  == {c \in AnyConfig({e1, e2, e3}) : c.canary # {} /\ c.main # {} /\ c.alt}
OneConfig    == {[main |-> {e1}, canary |-> {e2}, alt |-> TRUE]}

Weighted == {[header |-> FALSE, value |-> None, pattern |-> None, cookie |-> FALSE,
              weight |-> 50, total |-> 0]}

\* Rules that are set or not, with values, patterns and weights at the limits
Rules(patterns) ==
  [header : BOOLEAN, value : {None, "v"}, pattern : patterns, cookie : BOOLEAN,
   weight : {0, 1, 150}, total : {0, 200}]

MCRing == k1 :> <<e1, e2, e3>> @@ k2 :> <<e2, e3, e1>>

Persistent ==
  [mode |-> "persistent", legacy |-> FALSE, changeOnFailure |-> TRUE,
   configs |-> AnyConfig({e1, e2}), policies |-> Weighted, headers |-> {}, tries |-> 2]
Balanced ==
  [mode |-> "balanced", legacy |-> FALSE, changeOnFailure |-> FALSE,
   configs |-> CanaryStays, policies |-> Weighted, headers |-> {}, tries |-> 3]
Ruled(patterns) ==
  [mode |-> "persistent", legacy |-> TRUE, changeOnFailure |-> TRUE,
   configs |-> OneConfig, policies |-> Rules(patterns),
   headers |-> {"always", "never", "v", "p"}, tries |-> 3]

MCRequestSetups ==
  [ persistent |-> Persistent, balanced |-> Balanced, rules |-> Ruled({None, "p"}),
    error   |-> Ruled({None, "p", "error"}),
    returns |-> [Balanced EXCEPT !.configs = AnyConfig({e1, e2, e3})],
    revived |-> [Persistent EXCEPT !.changeOnFailure = FALSE] ]

-----------------------------------------------------------------------------
(* The properties of the modules, where they apply. *)

\* No server has two locations of one path and type (getBackendServers).
UniqueLocations == OfBuild => Build!UniqueLocations

\* Every alternative backend is an upstream (mergeAlternativeBackends).
AlternativesExist == OfBuild => Build!AlternativesExist

\* A canary never owns a location (mergeAlternativeBackends).
NoCanaryLocation == OfBuild => Build!NoCanaryLocation

\* Every location has an upstream with a server, wherever the services of canaries are used
\* (mergeAlternativeBackends).
LocationsServedAlways == OfBuild => Build!LocationsServed

\* A location has the annotations of the ingress whose backend it serves (controller.go:1212).
AnnotationsNotShared == OfBuild => Build!AnnotationsNotShared

\* Client certificate settings come from an ingress that is no canary (createServers).
CanaryAuthIgnored == OfBuild => Build!CanaryAuthIgnored

\* A canary's weight arrives with the total it relates to (mergeAlternativeBackends).
CanaryTotalKept == OfBuild => Build!CanaryTotalKept

\* Merging canaries ends without a nil dereference (mergeAlternativeBackends).
NoPanic == OfBuild => Build!NoPanic

\* Pods on a numbered target port are reached when no port name matches (endpoints.go:104).
FallbackToNumber == OfCalls => Calls!FallbackToNumber

\* An external name has the port that its service defines (serviceEndpoints).
ExternalPortDefined == OfCalls => Calls!ExternalPortDefined

\* A default service without ports does not end the process (getDefaultUpstream).
NoIndexPanic == OfCalls => Calls!NoIndexPanic

\* A sync that finds both configurations equal leaves NGINX with what the store says,
\* PathType included (Equal, syncIngress).
Applied == OfConfigs => Config!Applied

\* SessionStays while canaries come and go, and without session-cookie-change-on-failure
\* (sticky.lua, get_balancer).
SessionStaysAlways == OfRequests => Requests!SessionStays

\* Precedence with patterns that PCRE refuses.
RoutedDespiteErrors == [][setup = "error" => Requests!RoutedByRules]_routingVars

\* With a legacy canary the rules decide for every request (get_balancer).
LegacyIgnoresAffinity == [][OfRequests => Requests!AlwaysByRules]_routingVars
=============================================================================
