----------------------------- MODULE Endpoints -----------------------------
(***************************************************************************)
(* From services and their Endpoints objects to the addresses of an        *)
(* upstream: getEndpoints of internal/ingress/controller/endpoints.go and  *)
(* its callers serviceEndpoints, getServiceClusterEndpoint,                *)
(* getDefaultUpstream and getStreamServices of controller.go.  Pure        *)
(* functions: a behaviour is one call on one input.                        *)
(*                                                                         *)
(* Port numbers and port names are the words of the manifests: Numeric has *)
(* the words that are numbers, "0" is the number no port has.              *)
(***************************************************************************)
EXTENDS Naturals, Sequences, FiniteSets, SequencesExt

CONSTANTS None,
          Numeric,       \* the words that are port numbers, "0" left out
          Setups,        \* name -> the services [type, ext, clusterIP, ports] there are
          EndpointLists, \* None or sequences of subsets [ports, addrs]
          References,    \* the words a backend may name a port with
          ReservedPorts, \* ports of the controller itself
          StreamEntries, \* entries of a stream ConfigMap: [port, svcPort, words]
          AllowExternal  \* ~disable-svc-external-name

EndpointsAssumption ==
    /\ None # {}
    /\ \A n \in DOMAIN Setups : \A s \in Setups[n] \ {None} : DOMAIN s.ports \subseteq Nat

VARIABLE setup    \* the setup of this behaviour

VARIABLES svc,    \* the service found, or None
          eps,    \* its Endpoints object, or None
          ref,    \* the port that is asked for
          proto,  \* protocol of the stream services
          entries,\* data of the stream ConfigMap
          call,   \* the function that was called
          out     \* what it returned

vars == <<svc, eps, ref, proto, entries, call, out>>

Protocols == {"TCP", "UDP"}

IntValue(w) == IF w \in Numeric THEN w ELSE "0"

\* Services that name the controller's own host, or no host, have no endpoint.
ExternalEndpoint(s, p) ==
    IF s.ext \in {"localhost", "invalid"} THEN {} ELSE {<<s.ext, IntValue(p.target)>>}

PortMatches(p, e) == p.name = "" \/ p.name = e.name

\* Mutant: the port of the last entry is used whatever its name.
TargetPortLast(ss, i, p, pr) ==
    IF PortMatches(p, ss.ports[i]) \/ i = Len(ss.ports) THEN ss.ports[i].port ELSE "0"

\* The port that entry i of a subset stands for.  The number in the service is
\* the last resort, and only the last entry may take it.
targetPort(ss, i, p, pr) ==
    LET matched == \E j \in DOMAIN ss.ports : ss.ports[j].proto = pr /\ PortMatches(p, ss.ports[j])
    IN IF PortMatches(p, ss.ports[i]) THEN ss.ports[i].port
       ELSE IF i = Len(ss.ports) /\ ~matched THEN IntValue(p.target)
       ELSE "0"

\* The ports a subset contributes, with the addresses in the order of the code
\* left out: a map there keeps them apart.
SubsetEndpoints(ss, p, pr) ==
    {<<a, targetPort(ss, i, p, pr)>> :
        a \in ss.addrs,
        i \in {j \in DOMAIN ss.ports : /\ ss.ports[j].proto = pr
                                       /\ targetPort(ss, j, p, pr) # "0"}}

getEndpoints(s, p, pr) ==
    IF s.type = "ExternalName" THEN ExternalEndpoint(s, p)
    ELSE IF eps = None THEN {}
    ELSE UNION {SubsetEndpoints(eps[k], p, pr) : k \in DOMAIN eps}

First(s, Test(_)) ==
    LET hits == {i \in DOMAIN s : Test(s[i])} IN IF hits = {} THEN None ELSE s[Min(hits)]

\* A port by name takes the port itself when its target is no number; a port by
\* number keeps the target as it is; anything else is taken as a number.
externalNamePorts(w, s) ==
    LET byName == First(s.ports, LAMBDA p : p.name = w)
        byNum  == First(s.ports, LAMBDA p : p.port = IntValue(w))
        port(n, t) == [name |-> "", port |-> n, target |-> t, proto |-> "TCP"]
    IN IF w \notin Numeric /\ byName # None
       THEN port(byName.port, IF byName.target \in Numeric THEN byName.target ELSE byName.port)
       ELSE IF byNum # None THEN port(byNum.port, byNum.target)
       ELSE port(IntValue(w), IntValue(w))

serviceEndpoints(w) ==
    IF svc = None THEN {}
    ELSE IF svc.type = "ExternalName"
    THEN IF AllowExternal THEN getEndpoints(svc, externalNamePorts(w, svc), "TCP") ELSE {}
    ELSE LET p == First(svc.ports, LAMBDA q : w \in {q.port, q.target, q.name})
         IN IF p = None THEN {} ELSE getEndpoints(svc, p, "TCP")

\* The cluster address with the port of the reference; an error is None.
getServiceClusterEndpoint(w) ==
    LET p == First(svc.ports, LAMBDA q : q.name = w)
    IN IF svc = None THEN None
       ELSE IF svc.clusterIP = None THEN None
       ELSE IF w \in Numeric THEN {<<svc.clusterIP, w>>}
       ELSE IF p = None THEN None
       ELSE {<<svc.clusterIP, p.port>>}

DefaultEndpoint == {<<"127.0.0.1", "8181">>}

\* The first port of the default service is read without a look at how many it
\* has: None is the index out of range.
getDefaultUpstream ==
    IF ref = "" \/ svc = None THEN DefaultEndpoint
    ELSE IF svc.ports = <<>> THEN None
    ELSE LET found == getEndpoints(svc, svc.ports[1], "TCP")
         IN IF found = {} THEN DefaultEndpoint ELSE found

(***************************************************************************)
(* Stream services                                                         *)
(***************************************************************************)
ProxyProtocol(e) ==
    [decode |-> proto = "TCP" /\ Len(e.words) >= 1 /\ e.words[1] = "PROXY",
     encode |-> proto = "TCP" /\ Len(e.words) = 2 /\ e.words[2] = "PROXY"]

StreamEndpoints(e) ==
    LET p == First(svc.ports, LAMBDA q :
                 /\ q.proto = proto
                 /\ IF e.svcPort \in Numeric THEN q.port = e.svcPort ELSE q.name = e.svcPort)
    IN IF p = None THEN {} ELSE getEndpoints(svc, p, proto)

\* An entry needs a port number that is free, a service and an endpoint.
ValidEntry(e) == /\ e.port \in Numeric
                 /\ e.port \notin ReservedPorts
                 /\ e.svcPort # None
                 /\ svc # None
                 /\ StreamEndpoints(e) # {}

getStreamServices ==
    {[port |-> e.port, eps |-> StreamEndpoints(e), proxy |-> ProxyProtocol(e)] :
        e \in {x \in entries : ValidEntry(x)}}

(***************************************************************************)
(* One call                                                                *)
(***************************************************************************)
Init == /\ setup \in DOMAIN Setups
        /\ svc \in Setups[setup] \cup {None}
        /\ eps \in EndpointLists
        /\ ref \in References \cup {""}
        /\ proto \in Protocols
        /\ entries \in {{e} : e \in StreamEntries}
        /\ call = "none"
        /\ out = {}

Returns(f, r) == /\ call = "none"
                 /\ call' = f
                 /\ out' = r
                 /\ UNCHANGED <<svc, eps, ref, proto, entries>>

CallServiceEndpoints == ref # "" /\ proto = "TCP" /\ Returns("service", serviceEndpoints(ref))
CallClusterEndpoint  == /\ ref # ""
                        /\ svc # None
                        /\ proto = "TCP"
                        /\ Returns("cluster", getServiceClusterEndpoint(ref))
CallDefaultUpstream  == proto = "TCP" /\ Returns("default", getDefaultUpstream)
CallStreamServices   == Returns("stream", getStreamServices)

Step == \/ CallServiceEndpoints \/ CallClusterEndpoint
        \/ CallDefaultUpstream \/ CallStreamServices

Next == Step /\ UNCHANGED setup

Spec == Init /\ [][Next]_<<vars, setup>>

(***************************************************************************)
(* Properties                                                              *)
(***************************************************************************)
TypeOK == /\ call \in {"none", "service", "cluster", "default", "stream"}
          /\ proto \in Protocols
          /\ call = "stream" => \A s \in out : s.port \in Numeric

\* e is an address of one of the subsets l, with a port of that subset or the number
\* that the port w of the service s names, and not port 0.
EndpointOf(e, s, w, l) ==
    /\ e[2] # "0"
    /\ \E p \in ToSet(s.ports) :
         /\ w \in {p.port, p.target, p.name}
         /\ \E k \in DOMAIN l :
              /\ e[1] \in l[k].addrs
              /\ \/ e[2] = p.target
                 \/ \E q \in ToSet(l[k].ports) : e[2] = q.port /\ PortMatches(p, q)

\* What the callers rely on: an endpoint of a service with pods is an address of
\* one of its subsets, together with a port of that subset or the number the
\* service names, never port 0 and never the port of another name.
EndpointsOfTheService ==
    call = "service" /\ svc # None => (svc.type # "ExternalName" =>
        \A e \in out : EndpointOf(e, svc, ref, eps))

\* getDefaultUpstream: a service that is missing or has no ready address is
\* replaced by the controller's own 404 endpoint, so the default upstream is
\* never empty.
DefaultNeverEmpty == call = "default" => out # {}

\* "Proxy Protocol is only compatible with TCP Services", "stream services cannot
\* contain empty upstreams" and ports of the controller are refused.
StreamsUsable ==
    call = "stream" => \A s \in out :
        /\ s.eps # {}
        /\ s.port \notin ReservedPorts
        /\ proto = "UDP" => ~s.proxy.decode /\ ~s.proxy.encode

\* "use service target port if it's a number and no port name matched": pods
\* that listen on a numbered target port are reached although no entry of their
\* subset has the name of the port.
FallbackToNumber ==
    call = "service" /\ svc # None /\ eps # None => (svc.type # "ExternalName" =>
        LET p == First(svc.ports, LAMBDA q : ref \in {q.port, q.target, q.name})
        IN \A k \in DOMAIN eps :
             (/\ p # None
              /\ p.target \in Numeric
              /\ \E q \in ToSet(eps[k].ports) : q.proto = "TCP"
              /\ ~\E q \in ToSet(eps[k].ports) : q.proto = "TCP" /\ PortMatches(p, q))
             => \A a \in eps[k].addrs : <<a, p.target>> \in out)

\* "should return 200 for service type=ExternalName with a port defined" (e2e
\* test): the endpoint of an external name has a port to connect to when the
\* service defines the port that the ingress names.
ExternalPortDefined ==
    call = "service" /\ svc # None => (svc.type = "ExternalName" =>
        \A e \in out : (\E p \in ToSet(svc.ports) : p.port = ref) => e[2] # "0")

\* "Configures the upstream to return HTTP code 503 in case of error": a default
\* service without ports is one of the errors, and does not end the process.
NoIndexPanic == call = "default" => out # None
=============================================================================
