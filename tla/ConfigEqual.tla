---------------------------- MODULE ConfigEqual ----------------------------
(***************************************************************************)
(* Comparing configurations: pkg/apis/ingress/types_equals.go and          *)
(* pkg/util/sets/match.go, with what syncIngress decides by them           *)
(* (IsDynamicConfigurationEnough, configureDynamically).                   *)
(*                                                                         *)
(* A configuration here has one server with one location, one stream       *)
(* service and one backend with a list of endpoints.  A field has two      *)
(* values; a configuration is the set of the fields that have their second *)
(* value, and the list.  A field that is a struct of the annotations is    *)
(* one field here: module Annotations looks into it.  How the fields of a  *)
(* configuration come about is left open: any of them may change alone.    *)
(***************************************************************************)
EXTENDS Naturals, Sequences, FiniteSets, FiniteSetsExt

CONSTANTS Nil,          \* the nil slice
          Setups,       \* name -> the fields that change
          Lists,        \* the lists of endpoints that occur
          MaxChanges    \* bound on the changes of the store

(***************************************************************************)
(* The fields each Equal looks at, as <<type, field>>                      *)
(***************************************************************************)
Of(type, fields) == {type} \X fields

SSLCert == Of("SSLCert", {"CASHA", "CRLSHA", "PemSHA", "CAFileName", "CRLFileName", "ExpireTime",
                          "PemCertKey", "UID", "CN"})

Location == Of("Location",
    {"Path", "IsDefBackend", "Backend", "ServiceName", "Port", "BasicDigestAuth", "Denied",
     "CorsConfig", "ExternalAuth", "EnableGlobalAuth", "HTTP2PushPreload", "RateLimit",
     "GlobalRateLimit", "Redirect", "Rewrite", "Whitelist", "Proxy", "ProxySSL",
     "UsePortInRedirects", "ConfigurationSnippet", "ClientBodyBufferSize", "UpstreamVhost",
     "XForwardedPrefix", "Connection", "Logs", "InfluxDB", "BackendProtocol", "FastCGI",
     "CustomHTTPErrors", "ModSecurity", "Satisfy", "DefaultBackendUpstreamName", "Opentracing",
     "Mirror"})

Server == Of("Server",
    {"Hostname", "SSLPassthrough", "Aliases", "RedirectFromToWWW", "CertificateAuth",
     "ServerSnippet", "SSLCiphers", "SSLPreferServerCiphers", "AuthTLSError", "ProxySSL"})

L4Backend == Of("L4Backend", {"Port", "Name", "Namespace", "Protocol", "ProxyProtocol"})

L4Service == Of("L4Service", {"Port"}) \cup L4Backend

Backend == Of("Backend",
    {"Name", "NoServer", "ServiceName", "Port", "SSLPassthrough", "SessionAffinity",
     "UpstreamHashBy", "LoadBalancing", "TrafficShapingPolicy", "AlternativeBackends"})

Configuration == Of("Configuration", {"DefaultSSLCertificate", "BackendConfigChecksum"})

\* Fields that no Equal looks at: which Ingress a location is of and with what path, its
\* PathType, and the locations that a session cookie is set for.
Forgotten == Of("Location", {"PathType", "Ingress", "IngressPath"})
               \cup Of("Configuration", {"StreamSnippets"})
               \cup Of("Backend", {"CookieSessionAffinity.Locations"})

\* In nginx.conf, for a backend only what buildProxyPass looks at; the rest is what Lua
\* is told.
InConf(f) == \/ f[1] \in {"Configuration", "Server", "Location", "L4Service", "L4Backend"}
             \/ f = <<"Backend", "SSLPassthrough">>

(***************************************************************************)
(* Comparisons                                                             *)
(***************************************************************************)
\* Mutant: an element of b may answer for several of a.
CompareAsSets(a, b) ==
    IF a = Nil \/ b = Nil THEN a = b
    ELSE Len(a) = Len(b) /\ \A i \in DOMAIN a : \E j \in DOMAIN b : a[i] = b[j]

\* The elements of b that are equal to the ith of a and not in v.
Free(a, b, i, v) == {j \in DOMAIN b \ v : a[i] = b[j]}

\* The ith element of a takes the first free one.
Take(a, b, i, v) == IF Free(a, b, i, v) = {} THEN v ELSE v \cup {Min(Free(a, b, i, v))}

\* The elements of b that the first i of a have taken
Visited(a, b) ==
    LET visited[i \in 0 .. Len(a)] == IF i = 0 THEN {} ELSE Take(a, b, i, visited[i - 1])
    IN visited

\* sets.Compare: every element of a takes the first free equal element of b.
Compare(a, b) ==
    IF a = Nil \/ b = Nil THEN a = b
    ELSE Len(a) = Len(b) /\ Cardinality(Visited(a, b)[Len(a)]) = Len(a)

Differ(c, d) == (c.fields \ d.fields) \cup (d.fields \ c.fields)

Compared == SSLCert \cup Location \cup Server \cup L4Service \cup Backend \cup Configuration

\* A list is Nil or a sequence of endpoints.
ConfigAssumption ==
  /\ MaxChanges \in Nat
  /\ \A l \in Lists \ {Nil} : Len(l) \in Nat /\ l = [i \in 1 .. Len(l) |-> l[i]]
  /\ \A s \in DOMAIN Setups : Setups[s] \subseteq Compared \cup Forgotten

\* Configuration.Equal
Equal(c, d) == /\ Differ(c, d) \cap Compared = {}
               /\ Compare(c.endpoints, d.endpoints)

\* What is cleared before IsDynamicConfigurationEnough compares, beside the endpoints
Cleared == Backend \cup SSLCert

IsDynamicConfigurationEnough(c, d) == Differ(c, d) \cap (Compared \ Cleared) = {}

(***************************************************************************)
(* Syncs                                                                   *)
(***************************************************************************)
VARIABLE setup       \* the setup of this behaviour

VARIABLES store,     \* what getConfiguration makes of the store
          running,   \* runningConfig
          nginx,     \* what NGINX and Lua work with
          pending,   \* is a sync requested?
          reloads,
          changes

Changing == Setups[setup]

vars == <<store, running, nginx, pending, reloads, changes>>

Init == /\ setup \in DOMAIN Setups
        /\ store \in [fields : {{}}, endpoints : Lists]
        /\ running = store /\ nginx = store
        /\ pending = FALSE
        /\ reloads = 0
        /\ changes = 0

Change == /\ changes < MaxChanges
          /\ changes' = changes + 1
          /\ \/ \E f \in Changing :
                  store' = [store EXCEPT !.fields = IF f \in @ THEN @ \ {f} ELSE @ \cup {f}]
             \/ \E l \in Lists : store' = [store EXCEPT !.endpoints = l]
          /\ pending' = TRUE
          /\ UNCHANGED <<running, nginx, reloads>>

\* Nothing to do; or a reload if the conf differs, then whatever differs for Lua
\* (reflect.DeepEqual) is posted.
syncIngress ==
    /\ pending
    /\ pending' = FALSE
    /\ UNCHANGED <<store, changes>>
    /\ IF Equal(running, store) THEN UNCHANGED <<running, nginx, reloads>>
       ELSE LET enough == IsDynamicConfigurationEnough(running, store)
                conf   == (IF enough THEN nginx ELSE store).fields
            IN /\ reloads' = IF enough THEN reloads ELSE reloads + 1
               /\ nginx' = [fields    |-> {f \in conf : InConf(f)} \cup {f \in store.fields : ~InConf(f)},
                            endpoints |-> store.endpoints]
               /\ running' = store

Next == (Change \/ syncIngress) /\ UNCHANGED setup

Spec == Init /\ [][Next]_<<vars, setup>>

(***************************************************************************)
(* Properties                                                              *)
(***************************************************************************)
TypeOK == /\ store \in [fields : SUBSET Changing, endpoints : Lists]
          /\ reloads \in 0 .. MaxChanges
          /\ pending \in BOOLEAN

\* Equal looks at all fields that change, and those in nginx.conf are not cleared before
\* it is decided whether to reload.
AllNoticed == \A f \in Changing : f \in Compared /\ (InConf(f) => f \notin Cleared)

\* A bag of endpoints: how often each of them is listed.
BagOf(l) == [e \in UNION {{m[k] : k \in DOMAIN m} : m \in Lists \ {Nil}} |->
                Cardinality({k \in DOMAIN l : l[k] = e})]
Same(a, b) == IF a = Nil \/ b = Nil THEN a = b ELSE BagOf(a) = BagOf(b)

\* "Equal tests for equality" (types_equals.go): after a sync, whether it did nothing, told
\* Lua or reloaded, NGINX and Lua have what the store says, up to the order of the
\* endpoints, whatever was changed since and changed back.
Applied == ~pending => /\ nginx.fields = store.fields
                       /\ Same(nginx.endpoints, store.endpoints)

\* "Compare checks if the parameters are iterable and contains the same elements"
\* (match.go:25): greedy matching finds two lists equal exactly if they list every
\* element equally often.
CompareIsBagEquality == Compare(running.endpoints, store.endpoints)
                            <=> Same(running.endpoints, store.endpoints)

=============================================================================
