----------------------------- MODULE BuildModel -----------------------------
(***************************************************************************)
(* How one synchronisation turns the list of ingresses, oldest first, into *)
(* the servers and upstreams of the NGINX model: getConfiguration and      *)
(* getBackendServers of internal/ingress/controller/controller.go, with    *)
(* createUpstreams, createServers, mergeAlternativeBackends and            *)
(* updateServerLocations.  Every pass over the ingresses is a phase; a     *)
(* step of a pass is the body of a loop at one place: at an ingress, at    *)
(* one of its rules, or at a path of a rule.                               *)
(*                                                                         *)
(* An ingress is [name, def, rules, tls, ann]: its default backend (a      *)
(* service or None), its rules [host, http, paths] with paths              *)
(* [path, type, svc], its TLS sections [hosts, secret] and the parsed      *)
(* annotations that decide anything here.  The name of an upstream is a    *)
(* tuple, so that no service can collide with the two reserved names.      *)
(***************************************************************************)
EXTENDS Naturals, Sequences, FiniteSets, SequencesExt

CONSTANTS None,          \* an absent value
          DefServer,     \* the host "_"
          Root,          \* the path "/"
          SlashOf,       \* a path -> the same path ending in "/"
          LongestFirst,  \* the paths, longest first, then in reverse order
          Endpoints,     \* existing service -> its ready addresses
          ClusterIP,     \* the services that have a cluster address
          Portless,      \* the services without ports
          CertHosts,     \* TLS secret with a certificate -> hosts it is for
          CommonName,    \* such a secret -> the hosts of its common name
          AllowSnippets, \* allow-snippet-annotations of the ConfigMap
          Setups         \* name -> the lists of ingresses a synchronisation may see

VARIABLE setup       \* the setup of this behaviour

VARIABLES phase,     \* the pass under way
          ings,      \* the ingresses, oldest first
          at,        \* the place of the pass
          ups,       \* upstreams: name -> upstream
          servers,   \* servers: host -> server
          allAliases,\* the aliases noted per host
          cfg        \* the configuration returned

vars == <<phase, ings, at, ups, servers, allAliases, cfg>>

DefUps == <<"upstream-default-backend">>

upstreamName(s) == <<"svc", s>>

CustomName(s) == <<"custom-default-backend", s>>

HostOf(r) == IF r.host = None THEN DefServer ELSE r.host

nginxPath(p) == IF p.path = None THEN Root ELSE p.path

IsList(l) == Len(l) \in Nat /\ DOMAIN l = 1 .. Len(l)

IsIngress(g) ==
    /\ g.ann.canary \in BOOLEAN
    /\ IsList(g.tls) /\ IsList(g.rules)
    /\ \A r \in DOMAIN g.rules :
          /\ IsList(g.rules[r].paths) /\ g.rules[r].http \in BOOLEAN
          /\ \A p \in DOMAIN g.rules[r].paths :
                nginxPath(g.rules[r].paths[p]) \in ToSet(LongestFirst)

\* Setups have lists of ingresses, whose paths are known.
BuildAssumption ==
    /\ IsList(LongestFirst) /\ Root \in ToSet(LongestFirst)
    /\ None \notin DOMAIN CertHosts /\ None # "default"
    /\ \A n \in DOMAIN Setups : \A l \in Setups[n] :
          IsList(l) /\ \A k \in DOMAIN l : IsIngress(l[k])

\* The function f with v at n, and the same unless f is defined there.
Set(f, n, v) == [m \in DOMAIN f \cup {n} |-> IF m = n THEN v ELSE f[m]]

SetNew(f, n, v) == IF n \in DOMAIN f THEN f ELSE Set(f, n, v)

(***************************************************************************)
(* The place of a pass: an ingress (at.rule is 0), a rule (at.path is 0),  *)
(* or a path                                                               *)
(***************************************************************************)
Current == ings[at.ing]
Rule    == Current.rules[at.rule]
Path    == Rule.paths[at.path]
Host    == HostOf(Rule)

AtIngress == at.rule = 0
AtRule    == at.rule # 0 /\ at.path = 0
AtService == at.path # 0 /\ Path.svc # None

PlaceAt(i, r, p) == [ing |-> i, rule |-> r, path |-> p]

First == PlaceAt(1, 0, 0)

Following ==
    IF at.rule # 0 /\ at.path < Len(Rule.paths) THEN PlaceAt(at.ing, at.rule, at.path + 1)
    ELSE IF at.rule < Len(Current.rules) THEN PlaceAt(at.ing, at.rule + 1, 0)
    ELSE PlaceAt(at.ing + 1, 0, 0)

Visiting(p)   == phase = p /\ at.ing <= Len(ings)
Visit(p)      == Visiting(p) /\ at' = Following /\ UNCHANGED <<phase, ings, cfg>>
EndPass(p, q) == /\ phase = p /\ at.ing > Len(ings)
                 /\ phase' = q /\ at' = First /\ UNCHANGED <<ings, cfg>>

dropSnippetDirectives(ann) ==
    IF AllowSnippets THEN ann ELSE [ann EXCEPT !.snippet = None]

AnnOf(g) == dropSnippetDirectives(g.ann)

(***************************************************************************)
(* createUpstreams                                                         *)
(***************************************************************************)
serviceEndpoints(s) == IF s \in DOMAIN Endpoints THEN Endpoints[s] ELSE {}

\* With service-upstream the cluster address stands for the service; a service
\* without one falls back to its endpoints.
UpstreamEndpoints(g, s) ==
    IF g.ann.serviceUpstream /\ s \in ClusterIP THEN {<<"ClusterIP", s>>}
    ELSE serviceEndpoints(s)

newUpstream(n) == [name |-> n, noServer |-> FALSE, shape |-> None, eps |-> {},
                   alts |-> <<>>, aff |-> None, cookie |-> {}, pass |-> FALSE]

\* Only the default backend of a canary gets the total its weight relates to.
DefaultUpstream(g) ==
    [newUpstream(upstreamName(g.def)) EXCEPT
        !.noServer = g.ann.canary,
        !.shape    = IF g.ann.canary THEN [weight |-> g.ann.weight, total |-> g.ann.total]
                     ELSE None,
        !.eps      = UpstreamEndpoints(g, g.def)]

PathUpstream(g, s) ==
    [newUpstream(upstreamName(s)) EXCEPT
        !.noServer = g.ann.canary,
        !.shape    = IF g.ann.canary THEN [weight |-> g.ann.weight, total |-> 0] ELSE None,
        !.eps      = UpstreamEndpoints(g, s)]

\* The default backend replaces an upstream of that name; a path keeps it.
createUpstreams ==
    /\ Visit("upstreams")
    /\ ups' = IF AtIngress /\ Current.def # None
              THEN Set(ups, upstreamName(Current.def), DefaultUpstream(Current))
              ELSE IF AtService
              THEN SetNew(ups, upstreamName(Path.svc), PathUpstream(Current, Path.svc))
              ELSE ups
    /\ UNCHANGED <<servers, allAliases>>

(***************************************************************************)
(* createServers                                                           *)
(***************************************************************************)
Location(path, type, isDef, backend) ==
    [path |-> path, type |-> type, isDef |-> isDef, backend |-> backend,
     ing |-> None, ann |-> None, customDef |-> DefUps]

locationApplyAnnotations(l, g) == [l EXCEPT !.ann = AnnOf(g), !.customDef = DefUps]

IngressLocation(path, type, isDef, backend, g) ==
    [locationApplyAnnotations(Location(path, type, isDef, backend), g) EXCEPT !.ing = g.name]

newServer(loc, passthrough) ==
    [locs |-> <<loc>>, aliases |-> {}, snippet |-> None, cert |-> None,
     pass |-> passthrough, ca |-> None, www |-> FALSE]

DefaultServer ==
    [newServer(Location(Root, "Prefix", TRUE, DefUps), FALSE) EXCEPT !.cert = "default"]

\* An ingress with a default backend points the root of the default server at
\* it; only the first one without rules also takes the location over, without
\* its rewrite.
CatchAll(l, g) ==
    LET m == [l EXCEPT !.backend = upstreamName(g.def), !.ing = g.name]
    IN IF l.isDef /\ g.rules = <<>>
       THEN [locationApplyAnnotations(m, g) EXCEPT !.isDef = FALSE, !.ann.rewrite = "no"]
       ELSE m

DefaultOf(g) == IF g.def = None THEN DefUps ELSE upstreamName(g.def)

RootLocation(g) == IngressLocation(Root, "Prefix", TRUE, DefaultOf(g), g)

createServers ==
    /\ Visit("servers")
    /\ servers' = IF Current.ann.canary THEN servers
                  ELSE IF AtIngress /\ Current.def # None
                  THEN [servers EXCEPT ![DefServer].locs[1] = CatchAll(@, Current)]
                  ELSE IF AtRule
                  THEN SetNew(servers, Host,
                              newServer(RootLocation(Current), Current.ann.passthrough))
                  ELSE servers
    /\ UNCHANGED <<ups, allAliases>>

VerifyHostname(secret, host) == host \in CertHosts[secret]

\* The fallback for certificates without alternative names.
verifyHostname(secret, host) == host \in CommonName[secret]

\* The secret of the first section that names the host, or else the first
\* whose certificate covers it.
extractTLSSecretName(g, host) ==
    LET named  == {k \in DOMAIN g.tls : host \in g.tls[k].hosts}
        covers == {k \in DOMAIN g.tls : /\ g.tls[k].secret \in DOMAIN CertHosts
                                        /\ VerifyHostname(g.tls[k].secret, host)}
    IN IF named # {} THEN g.tls[Min(named)].secret
       ELSE IF covers # {} THEN g.tls[Min(covers)].secret
       ELSE None

CertFor(g, host) ==
    LET secret == extractTLSSecretName(g, host)
    IN IF /\ secret \in DOMAIN CertHosts
          /\ VerifyHostname(secret, host) \/ verifyHostname(secret, host)
       THEN secret ELSE "default"

\* What the second pass gives a server: each setting stays with the first
\* ingress that has it.
ConfigureServer(s, g, host) ==
    [s EXCEPT !.aliases = IF @ = {} THEN g.ann.aliases ELSE @,
              !.snippet = IF @ = None THEN AnnOf(g).snippet ELSE @,
              !.cert    = IF @ # None \/ g.tls = <<>> THEN @ ELSE CertFor(g, host)]

NoteAliases(al, g, host) ==
    IF host \in DOMAIN al /\ al[host] # {} THEN al ELSE Set(al, host, g.ann.aliases)

configureServers ==
    /\ Visit("tls")
    /\ IF Current.ann.canary \/ ~AtRule THEN UNCHANGED <<servers, allAliases>>
       ELSE /\ servers'    = [servers EXCEPT ![Host] = ConfigureServer(@, Current, Host)]
            /\ allAliases' = NoteAliases(allAliases, Current, Host)
    /\ UNCHANGED <<ups>>

\* The end of the second pass drops the aliases that are servers of their own.
dropAliases ==
    /\ EndPass("tls", "locations")
    /\ servers' = [h \in DOMAIN servers |->
                     IF h \in DOMAIN allAliases
                     THEN [servers[h] EXCEPT !.aliases = allAliases[h] \ DOMAIN servers]
                     ELSE servers[h]]
    /\ UNCHANGED <<ups, allAliases>>

(***************************************************************************)
(* The locations of getBackendServers                                      *)
(***************************************************************************)
\* Mutant: the newest ingress takes a location over.
PlaceNewest(s, g, p) ==
    LET same == {k \in DOMAIN s.locs : s.locs[k].path = nginxPath(p) /\ s.locs[k].type = p.type}
        new  == IngressLocation(nginxPath(p), p.type, FALSE, upstreamName(p.svc), g)
    IN IF same = {} THEN [s EXCEPT !.locs = Append(@, new)]
       ELSE [s EXCEPT !.locs[Min(same)] = new]

\* The first location with the path decides: another type means a new location,
\* the default backend of the same type is replaced, anything else keeps it.
PlaceLocation(s, g, p) ==
    LET same == {k \in DOMAIN s.locs : s.locs[k].path = nginxPath(p)}
        k    == Min(same)
        new  == IngressLocation(nginxPath(p), p.type, FALSE, upstreamName(p.svc), g)
    IN IF same = {} \/ s.locs[k].type # p.type
       THEN [s EXCEPT !.locs = Append(@, new), !.www = @ \/ g.ann.www]
       ELSE IF s.locs[k].isDef
       THEN [s EXCEPT !.locs[k] = new, !.www = @ \/ g.ann.www]
       ELSE s

\* Session affinity stays with the first ingress; every cookie path is noted.
WithAffinity(u, g, p, hosts) ==
    [u EXCEPT !.aff    = IF @ = None THEN g.ann.affinity ELSE @,
              !.cookie = IF g.ann.affinity # "cookie" THEN @
                         ELSE @ \cup {<<h, p.path>> : h \in hosts}]

ServerOf(ss, host) == IF host \in DOMAIN ss THEN host ELSE DefServer

\* Client certificate settings go to the server of every rule that has one of
\* its own or paths, canary or not, and stay with the first that names a CA.
WithAuth(s, g) == [s EXCEPT !.ca = IF @ = None THEN g.ann.ca ELSE @]

\* A path of a service that a canary introduced makes no location.
Placed == AtService /\ ~ups[upstreamName(Path.svc)].noServer

placeLocations ==
    /\ Visit("locations")
    /\ LET h == ServerOf(servers, Host)
           n == upstreamName(Path.svc)
       IN /\ servers' = IF AtRule /\ (Rule.http \/ Host = DefServer)
                        THEN [servers EXCEPT ![h] = WithAuth(@, Current)]
                        ELSE IF Placed
                        THEN [servers EXCEPT ![h] = PlaceLocation(@, Current, Path)]
                        ELSE servers
          /\ ups' = IF Placed
                    THEN [ups EXCEPT ![n] = WithAffinity(@, Current, Path,
                                                         {Host} \cup servers[h].aliases)]
                    ELSE ups
    /\ UNCHANGED <<allAliases>>

(***************************************************************************)
(* mergeAlternativeBackends                                                *)
(***************************************************************************)
\* Canaries merge only when some ingress is not one.
nonCanaryIngressExists == \E k \in DOMAIN ings : ~ings[k].ann.canary

Merging == Current.ann.canary /\ nonCanaryIngressExists

\* The service that may become an alternative, and the server with its primaries.
Alternative == IF AtIngress THEN Current.def ELSE IF AtService THEN Path.svc ELSE None

AltHost == IF AtIngress THEN DefServer ELSE Host

\* Is there an upstream for it, and a server?
Considered ==
    /\ Merging /\ Alternative # None
    /\ upstreamName(Alternative) \in DOMAIN ups
    /\ AltHost \in DOMAIN servers

canMergeBackend(pri, alt) ==
    pri.name # alt.name /\ pri.name # DefUps /\ ~pri.noServer

\* Mutant: the location that the alternative is the primary of is skipped.
LocationsOfOthers(locs, alt) == DOMAIN locs

\* The locations up to the first one whose backend is the alternative itself.
LocationsBefore(locs, alt) ==
    {k \in DOMAIN locs : \A j \in 1 .. k : locs[j].backend # alt}

\* The ones whose backend gets the alternative: any of the default server for a
\* default backend, the ones with its path for a path.
Primaries(alt, locs) ==
    {k \in LocationsBefore(locs, alt) :
        /\ canMergeBackend(ups[locs[k].backend], ups[alt])
        /\ AtIngress \/ (locs[k].path = Path.path /\ locs[k].type = Path.type)}

\* Every primary lists the alternative once, which takes over the session
\* affinity of the last one that did not list it yet.
mergeAlternativeBackend(alt, locs) ==
    LET hits  == Primaries(alt, locs)
        fresh == {k \in hits : /\ alt \notin ToSet(ups[locs[k].backend].alts)
                               /\ \A j \in hits : locs[j].backend = locs[k].backend => k <= j}
        pri   == ups[locs[Max(fresh)].backend]
    IN [n \in DOMAIN ups |->
          IF \E k \in fresh : locs[k].backend = n
          THEN [ups[n] EXCEPT !.alts = Append(@, alt)]
          ELSE IF n = alt /\ fresh # {} /\ ~Current.ann.legacyAffinity
          THEN [ups[n] EXCEPT !.aff = pri.aff, !.cookie = pri.cookie]
          ELSE ups[n]]

\* An alternative that is nobody's primary here and found no primary is deleted.
mergeAlternativeBackends(alt, locs) ==
    IF Primaries(alt, locs) = {} /\ LocationsBefore(locs, alt) = DOMAIN locs
    THEN [n \in DOMAIN ups \ {alt} |-> ups[n]]
    ELSE mergeAlternativeBackend(alt, locs)

\* The backend of every location visited is looked up, and the paths of every
\* rule: a backend that an earlier canary deleted is a nil dereference, and so
\* is a rule without HTTP.
NilDereference ==
    \/ Merging /\ AtRule /\ ~Rule.http
    \/ /\ Considered
       /\ LET locs == servers[AltHost].locs
          IN \E k \in LocationsBefore(locs, upstreamName(Alternative)) :
                locs[k].backend \notin DOMAIN ups

mergeCanary ==
    /\ Visit("canary")
    /\ ~NilDereference
    /\ ups' = IF Considered
              THEN mergeAlternativeBackends(upstreamName(Alternative), servers[AltHost].locs)
              ELSE ups
    /\ UNCHANGED <<servers, allAliases>>

\* The synchronisation dies, and the process with it.
panic ==
    /\ Visiting("canary")
    /\ NilDereference
    /\ phase' = "panicked"
    /\ UNCHANGED <<ings, at, ups, servers, allAliases, cfg>>

(***************************************************************************)
(* Custom default backends and the final order                             *)
(***************************************************************************)
shouldCreateUpstreamForLocationDefaultBackend(l) ==
    /\ l.backend \in DOMAIN ups \ {DefUps}
    /\ l.ann # None
    /\ l.ann.defBackend # None
    /\ ups[l.backend].eps = {} \/ l.ann.errors

Custom(l) == /\ shouldCreateUpstreamForLocationDefaultBackend(l)
             /\ l.ann.defBackend \notin Portless
             /\ serviceEndpoints(l.ann.defBackend) # {}

CustomBackends ==
    {[ups[l.backend] EXCEPT !.name = CustomName(l.ann.defBackend),
                            !.eps  = serviceEndpoints(l.ann.defBackend)] :
        l \in {x \in UNION {ToSet(servers[h].locs) : h \in DOMAIN servers} : Custom(x)}}

WithCustom(l) ==
    IF ~Custom(l) THEN l
    ELSE [l EXCEPT !.customDef = CustomName(l.ann.defBackend),
                   !.backend   = IF ups[@].eps = {} THEN CustomName(l.ann.defBackend) ELSE @]

\* An upstream is marked for passthrough when a location that may use a custom
\* default backend is the root of a passthrough server.
Passthrough(n) ==
    \E h \in DOMAIN servers : \E l \in ToSet(servers[h].locs) :
        /\ l.backend = n
        /\ shouldCreateUpstreamForLocationDefaultBackend(l)
        /\ l.ann.defBackend \notin Portless
        /\ servers[h].pass
        /\ l.path = Root

Rank(p) == CHOOSE k \in DOMAIN LongestFirst : LongestFirst[k] = p

\* The order of the two stable sorts.
Before(locs, j, k) ==
    LET m == Rank(locs[j].path)
        n == Rank(locs[k].path)
    IN m < n \/ (m = n /\ j < k)

PlaceOf(locs, k) == 1 + Cardinality({j \in DOMAIN locs : Before(locs, j, k)})

SortLocations(locs) ==
    [n \in DOMAIN locs |-> locs[CHOOSE k \in DOMAIN locs : PlaceOf(locs, k) = n]]

needsRewrite(l) == l.ann.rewrite = "target"

\* A prefix location becomes one that ends in "/" and an exact one without it,
\* unless the exact one exists already.
ExpandLocation(l, exact) ==
    LET slash == [l EXCEPT !.path = SlashOf[l.path]]
    IN IF l.path = Root \/ l.type # "Prefix" \/ needsRewrite(l) \/ l.ann.rewrite = "regex"
       THEN <<l>>
       ELSE IF l.path \in exact THEN <<slash>>
       ELSE <<slash, [l EXCEPT !.type = "Exact"]>>

updateServerLocations(locs) ==
    LET exact == {l.path : l \in {x \in ToSet(locs) : x.type = "Exact"}}
    IN FlattenSeq([k \in DOMAIN locs |-> ExpandLocation(locs[k], exact)])

\* The root location of a passthrough server is proxied as it is.
PassthroughBackends(ss) ==
    {[host |-> h, backend |-> (CHOOSE l \in ToSet(ss[h].locs) : l.path = Root).backend] :
        h \in {x \in DOMAIN ss : ss[x].pass /\ \E l \in ToSet(ss[x].locs) : l.path = Root}}

(***************************************************************************)
(* The passes                                                              *)
(***************************************************************************)
Init == /\ setup \in DOMAIN Setups
        /\ phase = "upstreams"
        /\ ings \in Setups[setup]
        /\ at = First
        /\ ups = [n \in {DefUps} |-> newUpstream(n)]
        /\ servers = [h \in {DefServer} |-> DefaultServer]
        /\ allAliases = [h \in {} |-> {}]
        /\ cfg = None

\* The locations of a host as the template gets them.
FinalLocations(h) ==
    updateServerLocations(SortLocations(
        [k \in DOMAIN servers[h].locs |-> WithCustom(servers[h].locs[k])]))

getConfiguration ==
    /\ phase = "canary" /\ at.ing > Len(ings)
    /\ phase' = "done"
    /\ LET ss == [h \in DOMAIN servers |-> [servers[h] EXCEPT !.locs = FinalLocations(h)]]
       IN /\ servers' = ss
          /\ cfg' = [servers  |-> ss,
                     backends |-> {[ups[n] EXCEPT !.pass = Passthrough(n)] : n \in DOMAIN ups}
                                     \cup CustomBackends,
                     hosts    |-> DOMAIN ss \cup UNION {ss[h].aliases : h \in DOMAIN ss},
                     pass     |-> PassthroughBackends(ss)]
    /\ UNCHANGED <<ings, at, ups, allAliases>>

NextPass ==
    /\ \/ EndPass("upstreams", "servers")
       \/ EndPass("servers", "tls")
       \/ EndPass("locations", "canary")
    /\ UNCHANGED <<ups, servers, allAliases>>

Done == phase \in {"done", "panicked"} /\ UNCHANGED vars

Step == \/ createUpstreams \/ createServers \/ configureServers \/ dropAliases
        \/ placeLocations \/ mergeCanary \/ panic \/ getConfiguration
        \/ NextPass \/ Done

Next == Step /\ UNCHANGED setup

Spec == Init /\ [][Next]_<<vars, setup>>

(***************************************************************************)
(* Properties                                                              *)
(***************************************************************************)
TypeOK == /\ phase \in {"upstreams", "servers", "tls", "locations", "canary",
                        "done", "panicked"}
          /\ at.ing \in 1 .. Len(ings) + 1 /\ {at.rule, at.path} \subseteq Nat
          /\ DefServer \in DOMAIN servers
          /\ \A n \in DOMAIN ups : ups[n].name = n /\ ups[n].noServer \in BOOLEAN
          /\ \A h \in DOMAIN servers : \A l \in ToSet(servers[h].locs) :
                l.isDef \in BOOLEAN /\ l.path \in ToSet(LongestFirst)

\* Does path p of rule r of ingress k define location (path, type) of server h?
DefinesAt(k, r, p, h, path, type) ==
    LET rule == ings[k].rules[r]
        here == rule.paths[p]
    IN /\ here.svc # None
       /\ ServerOf(servers, HostOf(rule)) = h
       /\ nginxPath(here) = path
       /\ here.type = type
       /\ ~ups[upstreamName(here.svc)].noServer

\* The ingresses that define the location.
Claims(h, path, type) ==
    {k \in DOMAIN ings : \E r \in DOMAIN ings[k].rules :
        \E p \in DOMAIN ings[k].rules[r].paths : DefinesAt(k, r, p, h, path, type)}

\* The places of the location in its server.
Having(h, path, type) ==
    {k \in DOMAIN servers[h].locs :
        servers[h].locs[k].path = path /\ servers[h].locs[k].type = type}

IsCatchAll(g) == g.def # None /\ g.rules = <<>> /\ ~g.ann.canary

\* "If the same path for the same host is defined in more than one Ingress, the
\* oldest rule wins" (docs/how-it-works.md): when all ingresses are placed, the
\* first location of a host, path and type belongs to the oldest ingress that
\* defines it.  The catch-all takes the root of the default server before any
\* rule does.
OldestWins ==
    phase = "canary" /\ at = First =>
        \A h \in DOMAIN servers :
            \A path \in ToSet(LongestFirst), type \in {"Exact", "Prefix"} :
                Claims(h, path, type) # {} =>
                   \/ h = DefServer /\ path = Root /\ \E k \in DOMAIN ings : IsCatchAll(ings[k])
                   \/ /\ Having(h, path, type) # {}
                      /\ servers[h].locs[Min(Having(h, path, type))].ing
                            = ings[Min(Claims(h, path, type))].name

\* "A server-alias name cannot conflict with the hostname of an existing server"
\* (docs, annotations): no name is an alias of one server and the host of
\* another in the configuration that is returned.
AliasNotHost ==
    cfg # None => \A h \in DOMAIN cfg.servers :
                    cfg.servers[h].aliases \cap DOMAIN cfg.servers = {}

\* "If more than one Ingress contains a TLS section for the same host, the oldest
\* rule wins" (docs/how-it-works.md), and a certificate that does not cover the
\* host is replaced by the default one: the certificate of a host is the one of
\* its oldest ingress with a TLS section, and covers the host.
OldestCertificate ==
    cfg # None => \A h \in DOMAIN cfg.servers \ {DefServer} :
        LET tls == {k \in DOMAIN ings : /\ ~ings[k].ann.canary /\ ings[k].tls # <<>>
                                        /\ \E r \in DOMAIN ings[k].rules :
                                              HostOf(ings[k].rules[r]) = h}
            c   == cfg.servers[h].cert
        IN /\ (c = None) <=> (tls = {})
           /\ c \notin {None, "default"} =>
                /\ \E t \in DOMAIN ings[Min(tls)].tls : ings[Min(tls)].tls[t].secret = c
                /\ h \in CertHosts[c] \cup CommonName[c]

\* Ingress g has the service s as its default backend, or for another host.
ServesElsewhere(g, s, h) ==
    \/ s = g.def
    \/ \E r \in DOMAIN g.rules : \E p \in DOMAIN g.rules[r].paths :
          g.rules[r].paths[p].svc = s /\ HostOf(g.rules[r]) # h

\* The services of canaries: one that an ingress which is no canary has too is
\* no default backend of it, and serves the canary's host alone.
Apart ==
    \A j, k \in DOMAIN ings : ings[j].ann.canary /\ ~ings[k].ann.canary =>
        /\ ings[j].def # None => ~ServesElsewhere(ings[k], ings[j].def, DefServer)
        /\ \A r \in DOMAIN ings[j].rules : \A p \in DOMAIN ings[j].rules[r].paths :
              LET s == ings[j].rules[r].paths[p].svc
              IN s # None => ~ServesElsewhere(ings[k], s, HostOf(ings[j].rules[r]))

BackendNames == {b.name : b \in cfg.backends}

\* Every location of the result sends its requests to an upstream of the result,
\* so the balancer finds a backend for it, and to none that is only a canary.
LocationsServed ==
    cfg # None => \A h \in DOMAIN cfg.servers : \A l \in ToSet(cfg.servers[h].locs) :
                    /\ {l.backend, l.customDef} \subseteq BackendNames
                    /\ \A b \in cfg.backends : b.name = l.backend => ~b.noServer

\* canMergeBackend: a canary never becomes an alternative of itself, of the
\* default backend or of another canary.
CanaryIsAlternative ==
    cfg # None => \A b \in cfg.backends : b.alts # <<>> =>
                    b.name # DefUps /\ ~b.noServer /\ b.name \notin ToSet(b.alts)

\* "The names of the alternative backends": an alternative of a backend is a
\* backend of the configuration.
AlternativesExist ==
    cfg # None => \A b \in cfg.backends : ToSet(b.alts) \subseteq BackendNames

\* "The canary annotation enables the Ingress spec to act as an alternative
\* service" (docs, annotations) and createServers ignores a canary: no location
\* belongs to a canary ingress.
NoCanaryLocation ==
    \A h \in DOMAIN servers : \A l \in ToSet(servers[h].locs) :
        ~\E k \in DOMAIN ings : ings[k].name = l.ing /\ ings[k].ann.canary

\* The e2e tests of canaries ask that a canary without a primary "does not
\* crash" the controller: merging canaries ends without a nil dereference.
NoPanic == phase # "panicked"

\* NGINX refuses a server with two locations of the same path and type: the
\* model has one of each.
UniqueLocations ==
    cfg # None => \A h \in DOMAIN cfg.servers :
        \A j, k \in DOMAIN cfg.servers[h].locs :
            (/\ cfg.servers[h].locs[j].path = cfg.servers[h].locs[k].path
             /\ cfg.servers[h].locs[j].type = cfg.servers[h].locs[k].type) => j = k

\* "Multiple Ingresses can define different annotations. These definitions are
\* not shared between Ingresses" (docs/how-it-works.md): a location has the
\* annotations of the ingress whose backend it serves; the catch-all leaves
\* rewrites out.
AnnotationsNotShared ==
    \A h \in DOMAIN servers : \A l \in ToSet(servers[h].locs) :
        l.ann # None => \E k \in DOMAIN ings :
            /\ ings[k].name = l.ing
            /\ l.ann \in {AnnOf(ings[k]), [AnnOf(ings[k]) EXCEPT !.rewrite = "no"]}

\* "When you mark an ingress as canary, then all the other non-canary annotations
\* will be ignored" (docs, annotations): the client certificate settings of a
\* server come from an ingress that is not a canary.
CanaryAuthIgnored ==
    \A h \in DOMAIN servers : servers[h].ca # None =>
        \E k \in DOMAIN ings : ings[k].ann.ca = servers[h].ca /\ ~ings[k].ann.canary

\* "canary-weight-total: The total weight of traffic" (docs, annotations): the
\* weight of a canary reaches the balancer with the total it relates to.
CanaryTotalKept ==
    cfg # None => \A b \in cfg.backends : b.shape # None =>
        \E k \in DOMAIN ings : /\ ings[k].ann.canary
                               /\ ings[k].ann.weight = b.shape.weight
                               /\ ings[k].ann.total = b.shape.total
=============================================================================
