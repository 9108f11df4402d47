------------------------------ MODULE MCObjects ------------------------------
(* The setups of Objects for TLC. *)
EXTENDS Objects, Functions, TLC

CONSTANTS s1, s2

-----------------------------------------------------------------------------
(* Setups of the store *)

Plain == [class |-> "ours", catchAll |-> FALSE, clean |-> TRUE, word |-> FALSE,
          tls |-> {}, auth |-> {}, mtls |-> {}, cm |-> "no"]

Tls   == [Plain EXCEPT !.tls = {s1}]
Auth  == [Plain EXCEPT !.auth = {s1}]
Named == [Plain EXCEPT !.class = "named"]

\* One shape for every reason to refuse an ingress.
AnyShapes == {Plain, Named, [Plain EXCEPT !.class = "other"], [Plain EXCEPT !.catchAll = TRUE],
              [Plain EXCEPT !.clean = FALSE], [Tls EXCEPT !.word = TRUE]}

\* A cluster in which only ingresses change.
Quiet == [shapes |-> AnyShapes, contents |-> {}, settings |-> {"c1"}, extras |-> {"x"},
          classes |-> {}, classFixed |-> FALSE, services |-> {}, loads |-> {},
          default |-> None, changes |-> 2, flags |-> {}]

\* Ingresses, services and endpoints change; secrets; settings, classes and other
\* ConfigMaps.  Then the setups in which TLC finds what the code does not promise: a
\* secret changes while its ingress is deleted, the class is deleted before its
\* ingress, the class is still being added when the informer of ingresses starts, an
\* ingress is stored after its auth secret, classes are ignored, a ConfigMap named in an
\* annotation changes, with the prefix of annotations or without, the secret of the
\* default certificate is deleted, and a Service comes and goes.
MCStoreSetups ==
  [ ingress   |-> [Quiet EXCEPT !.services = {None, "cluster", "external"}, !.loads = {"e1"},
                                !.classes = {None}, !.flags = {"noCatchAll", "inspect"},
                                !.changes = 4],
    secrets   |-> [Quiet EXCEPT !.shapes = {Tls, Auth, [Plain EXCEPT !.mtls = {s1}, !.tls = {s2}]},
                                !.contents = {"k1", "k2", "auth"}, !.default = s2, !.changes = 3],
    settings  |-> [Quiet EXCEPT !.shapes = {Named, [Plain EXCEPT !.word = TRUE],
                                            [Plain EXCEPT !.class = "none", !.cm = "prefixed"]},
                                !.settings = {"c1", "c2"}, !.extras = {"x", "y"},
                                !.classes = {None, "ours", "foreign"},
                                !.flags = {"withoutClass", "byName"}, !.changes = 4],
    race      |-> [Quiet EXCEPT !.shapes = {Tls}, !.contents = {"k1"}, !.changes = 3],
    class     |-> [Quiet EXCEPT !.shapes = {Named}, !.classes = {None, "ours"}, !.changes = 4],
    start     |-> [Quiet EXCEPT !.shapes = {Named}, !.classes = {None, "ours"},
                                !.classFixed = TRUE, !.changes = 4],
    late      |-> [Quiet EXCEPT !.shapes = {Auth}, !.contents = {"auth"}],
    ignored   |-> [Quiet EXCEPT !.flags = {"ignoreClass"}],
    configmap |-> [Quiet EXCEPT !.shapes = {[Plain EXCEPT !.cm = "prefixed"]},
                                !.extras = {"x", "y"}],
    bare      |-> [Quiet EXCEPT !.shapes = {[Auth EXCEPT !.cm = "bare"]}, !.contents = {"auth"},
                                !.extras = {"x", "y"}, !.changes = 3],
    defaultgone    |-> [Quiet EXCEPT !.contents = {"k1"}, !.default = s1],
    clusterservice |-> [Quiet EXCEPT !.services = {None, "cluster"}] ]

-----------------------------------------------------------------------------
(* Setups of the annotations: which of them users edit *)

Parsers == INSTANCE AnnotationParsers WITH Nil <- None

Bools   == {"true", "false", "bad"}
Numbers == {"0", "1", "2", "bad"}
Texts   == {"", "x", "y"}

\* The annotations that protect a location.
GuardAnnotations ==
    [ a \in {"auth-type"} |-> {"basic", "bad"} ]
 @@ [ a \in {"auth-secret"} |-> {"s", "bad"} ]
 @@ [ a \in {"auth-secret-type"} |-> {"auth-map", "bad"} ]
 @@ [ a \in {"auth-url"} |-> {"http://a", "bad"} ]
 @@ [ a \in {"auth-proxy-set-headers"} |-> {"cm"} ]
 @@ [ a \in {"auth-tls-secret"} |-> {"", "ns/ca", "bad"} ]
 @@ [ a \in {"whitelist-source-range"} |-> {"x", "x,bad"} ]

GuardObjects == [ authSecret |-> {"none", "nokey"}, caSecret |-> {"none", "ca1"},
                  disk |-> {"ok", "full"} ]

\* Every annotation whose changes are applied and whose values are determined, given
\* the switches that make them matter.
PlainAnnotations ==
    [ a \in { "enable-cors", "cors-allow-credentials", "ssl-redirect", "force-ssl-redirect", "use-regex",
              "from-to-www-redirect", "enable-modsecurity", "enable-owasp-core-rules", "enable-influxdb",
              "enable-opentracing", "opentracing-trust-incoming-span", "enable-access-log",
              "enable-rewrite-log", "session-cookie-secure", "session-cookie-conditional-samesite-none",
              "upstream-hash-by-subset", "ssl-prefer-server-ciphers", "use-port-in-redirects",
              "enable-global-auth", "service-upstream", "http2-push-preload", "ssl-passthrough" } |-> Bools ]
 @@ [ a \in { "cors-max-age", "limit-rate", "limit-rate-after", "limit-rpm", "limit-rps",
              "limit-connections", "limit-burst-multiplier", "upstream-hash-by-subset-size",
              "canary-weight", "global-rate-limit" } \cup Range(Parsers!ProxyInts) |-> Numbers ]
 @@ [ a \in { "cors-allow-headers", "cors-allow-methods", "cors-expose-headers", "rewrite-target",
              "app-root", "mirror-request-body", "mirror-host", "modsecurity-transaction-id",
              "modsecurity-snippet", "influxdb-port", "influxdb-host", "influxdb-server-name",
              "affinity-mode", "session-cookie-name", "session-cookie-path", "session-cookie-samesite",
              "upstream-hash-by", "ssl-ciphers", "client-body-buffer-size", "x-forwarded-prefix",
              "load-balance", "server-snippet", "configuration-snippet", "upstream-vhost",
              "stream-snippet", "connection-proxy-header", "canary-by-header",
              "canary-by-header-value", "canary-by-header-pattern", "canary-by-cookie",
              "global-rate-limit-key", "auth-realm", "fastcgi-index" } \cup Range(Parsers!ProxyStrings) |-> Texts ]
 @@ [ a \in {"cors-allow-origin"} |-> {"x", "x,y", "y,x", "x,bad", "x,*"} ]
 @@ [ a \in {"server-alias", "limit-whitelist"} |-> {"", "x", "x,y", "y,x"} ]
 @@ [ a \in {"custom-http-errors"} |-> {"1", "1,302", "1,bad"} ]
 @@ [ a \in {"mirror-target", "temporal-redirect", "permanent-redirect"} |-> {"", "http://a", "http://b", "bad"} ]
 @@ [ a \in {"permanent-redirect-code"} |-> {"302", "999", "bad"} ]
 @@ [ a \in {"backend-protocol"} |-> {"HTTP", "GRPC", "bad"} ]
 @@ [ a \in {"satisfy"} |-> {"any", "all", "bad"} ]
 @@ [ a \in {"global-rate-limit-window"} |-> {"x", "y"} ]
 @@ [ a \in {"global-rate-limit-ignored-cidrs"} |-> {"x", "x,y"} ]
 @@ [ a \in {"default-backend"} |-> {"svc"} ]
 @@ [ a \in {"canary"} |-> Bools ]
 @@ [ a \in {"affinity"} |-> {"cookie", "other"} ]
 @@ [ a \in {"session-cookie-expires", "session-cookie-max-age"} |-> {"1", "2", "bad"} ]

PlainObjects == [ service |-> {"none", "svc"} ]

\* Authentication by password and by an external service, with everything in place.
AuthAnnotations ==
    [ a \in {"auth-type"} |-> {"basic", "digest"} ]
 @@ [ a \in {"auth-secret"} |-> {"s"} ]
 @@ [ a \in {"auth-url"} |-> {"http://a", "http://$h"} ]
 @@ [ a \in {"auth-method"} |-> {"GET", "POST"} ]
 @@ [ a \in {"auth-signin", "auth-signin-redirect-param", "auth-request-redirect", "auth-snippet",
             "auth-cache-key"} |-> {"x"} ]
 @@ [ a \in {"auth-response-headers", "auth-cache-duration"} |-> {"x", "x,y", "y,x"} ]
 @@ [ a \in {"auth-keepalive", "auth-keepalive-requests", "auth-keepalive-timeout"} |-> {"0", "1", "-1"} ]
 @@ [ a \in {"auth-always-set-cookie"} |-> {"true"} ]

AuthObjects == [ authSecret |-> {"users1", "users2"} ]

\* The annotations that the Equal methods do not look at, with what they depend on.
ForgottenAnnotations ==
    [ a \in {"auth-tls-secret", "proxy-ssl-secret"} |-> {"ns/ca"} ]
 @@ [ a \in {"auth-tls-match-cn"} |-> {"CN=x", "CN=y"} ]
 @@ [ a \in {"proxy-ssl-name", "influxdb-measurement"} |-> {"x", "y"} ]
 @@ [ a \in {"preserve-trailing-slash", "canary"} |-> {"true"} ]
 @@ [ a \in {"canary-weight-total"} |-> {"1", "2"} ]

ForgottenObjects == [ caSecret |-> {"ca1"} ]

\* The annotations that are denied, and the one whose file is written in any order.
DeniedAnnotations == [ a \in {"auth-type"} |-> {"bad"} ]

ChoiceAnnotations ==
    [ a \in {"auth-tls-secret"} |-> {"ns/ca"} ] @@ [ a \in {"auth-tls-verify-client"} |-> {"on", "none", "bad"} ]

LimitAnnotations ==
    [ a \in {"limit-rps"} |-> {"1", "2"} ] @@ [ a \in {"limit-whitelist"} |-> {"x", "x,bad"} ]

\* What an Ingress already has, unless nothing: the switches that the other annotations
\* depend on, or authentication.
Switches == "affinity" :> "cookie" @@ "mirror-target" :> "http://a" @@ "limit-rps" :> "1"
         @@ "enable-opentracing" :> "true" @@ "canary" :> "true" @@ "global-rate-limit" :> "1"
         @@ "global-rate-limit-window" :> "x" @@ "permanent-redirect" :> "http://a"

Authenticated == "auth-type" :> "basic" @@ "auth-secret" :> "s" @@ "auth-url" :> "http://a"
              @@ "auth-keepalive" :> "1"

EverythingExists == [ authSecret |-> "users1", caSecret |-> "ca1", configMap |-> "headers",
                      service |-> "svc", disk |-> "ok" ]

BrokenConfigMap == [ EverythingExists EXCEPT !.configMap = "badheader" ]

Ann(editable, objects, preset, existing, edited) ==
  [editable |-> editable, objects |-> objects, preset |-> preset, existing |-> existing,
   edited |-> edited]

\* Two annotations that protect a location are edited, with the objects they name; every
\* annotation that is compared and determined, beside the switches they depend on; and
\* authentication with everything in place.  Then the setups in which TLC finds what
\* the code does not promise.
MCAnnotationSetups ==
  [ guards    |-> Ann(GuardAnnotations, GuardObjects, Authenticated, BrokenConfigMap, 2),
    plain     |-> Ann(PlainAnnotations, PlainObjects, Switches, EverythingExists, 1),
    auth      |-> Ann(AuthAnnotations, AuthObjects, Authenticated, EverythingExists, 2),
    choices   |-> Ann(ChoiceAnnotations, ForgottenObjects, <<>>, EverythingExists, 2),
    denied    |-> Ann(DeniedAnnotations, <<>>, <<>>, EverythingExists, 1),
    forgotten |-> Ann(ForgottenAnnotations, ForgottenObjects, <<>>, EverythingExists, 2),
    limits    |-> Ann(LimitAnnotations, <<>>, <<>>, EverythingExists, 2) ]

-----------------------------------------------------------------------------
(* The properties of the two modules, where they apply. *)

\* At rest, the certificate of a secret that an ingress refers to is the one in the secret
\* (syncSecret, whoever called it last).
CertCurrent == OfStore => Store!CertCurrent

\* Announced with annotations that name ConfigMaps without the prefix (parser/main.go:139).
AnnouncedBare == OfStore => Store!Announced

\* Announced without exceptions: the default certificate is deleted (store.go:652), a
\* Service of the cluster comes or goes (store.go:761).
AnnouncedAlways == OfStore => Store!AnnouncedAlways

\* At rest, the local store has the wanted ingresses in their latest version and no others;
\* only the handler of ingresses writes it in these setups (ingDeleteHandler, syncIngress).
LocalEqualsCluster == setup \in {"ingress", "start"} => Store!LocalEqualsCluster

\* At rest, no deleted ingress is stored (store.go:592 writes one back).
DeletedIsGone == OfStore => Store!DeletedIsGone

\* At rest, no ingress of another class is stored (UpdateFunc, store.go:465).
OnlyOwnClass == OfStore => Store!OnlyOwnClass

\* At rest, annotations are parsed with the secrets that exist (store.go:445).
SecretsParsed == OfStore => Store!SecretsParsed

\* At rest, annotations are parsed with the ConfigMaps that exist (parser/main.go:139).
ConfigMapParsed == OfStore => Store!ConfigMapParsed

\* The handlers end up idle with everything announced that Announced promises; none waits
\* for ever for syncSecretMu.
CatchesUp == <>[](OfStore => Store!CaughtUp)

\* Authentication types and verification modes that reach NGINX are documented ones
\* (auth and authtls parsers).
DocumentedChoices == OfAnnotations => Annotations!DocumentedChoices

\* A valid limit-rps is enforced unless the location is denied (ratelimit/main.go:166).
LimitKept == OfAnnotations => Annotations!LimitKept

\* After a sync NGINX has what the annotations say (the Equal methods of the annotations).
SyncApplies == [][OfAnnotations => Annotations!Applies]_annotationVars

\* A sync without a change does not reload; no secret is rewritten in another order here
\* (Extract ranges over a map).
NoSpuriousReload == [][(setup \in {"plain", "denied"}) => Annotations!NoReload]_annotationVars

-----------------------------------------------------------------------------
(* What the run checks beside CatchesUp and the invariants of Objects. *)

\* At rest the local store is what the handlers should have made of the cluster: the
\* wanted ingresses, and the certificates of the secrets they refer to (store.go).
StoreFollows == LocalEqualsCluster /\ CertCurrent

\* A sync changes NGINX exactly when the annotations ask for it: whatever changed is
\* applied, and nothing is reloaded for an Ingress that was only read again (Equal).
SyncIsExact == [][/\ OfAnnotations => Annotations!Applies
                  /\ setup = "plain" => Annotations!NoReload]_annotationVars
=============================================================================
