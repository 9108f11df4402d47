---------------------------- MODULE Annotations ----------------------------
(* The extraction of an Ingress's annotations, and what becomes of a change of
   them: the store extracts them anew, the sync loop compares the result with
   the configuration NGINX runs, and applies it when Equal tells them apart.

   The model follows one Ingress with one location.  Go ranges over the map of
   parsers in an order of its own: of the parsers that deny the location, the
   first one met is treated differently from the others, and which one that is
   is a choice of the step. *)
EXTENDS AnnotationParsers

CONSTANTS Setups,      \* name -> which annotations and objects change
          MaxLag       \* bound: changes between two runs of the sync loop

VARIABLE setup         \* the setup of this behaviour

\* What stands in the annotations, the states of the objects, and what the parsers of the
\* annotations that protect a location make of those.
Contents(s) == (UNION {s.editable[a] : a \in DOMAIN s.editable})
                 \cup {s.preset[a] : a \in DOMAIN s.preset}
States(s) == (UNION {s.objects[o] : o \in DOMAIN s.objects})
               \cup {s.existing[o] : o \in DOMAIN s.existing}
Strings(s) == Contents(s) \cup States(s)
                \cup {"", "auth-file", "on", "a", "b", "$h", "200 202 401 5m"}
                \cup {"x", "y", "bad", "*", "1", "302"}

AuthConfigs(S) ==
    [ Type : S, Realm : S, Secured : BOOLEAN, FileSHA : Seq(S \cup Nat), Secret : S,
      SecretType : S ]

AuthTLSConfigs(S) ==
    [ Secret : S, CASHA : S, VerifyClient : S, ValidationDepth : Int, ErrorPage : S,
      PassCertToUpstream : BOOLEAN, MatchCN : S, AuthTLSError : S ]

AuthReqConfigs(S) ==
    [ URL : S, Host : S, Method : S, SigninURL : S, SigninURLRedirectParam : S,
      ResponseHeaders : Seq(S), RequestRedirect : S, AuthSnippet : S, AuthCacheKey : S,
      AuthCacheDuration : Seq(S), KeepaliveConnections : Int, KeepaliveRequests : Int,
      KeepaliveTimeout : Int, ProxySetHeaders : S, AlwaysSetCookie : BOOLEAN ]

\* Nil is no configuration and no set of addresses.
AnnotationAssumption ==
    \A n \in DOMAIN Setups :
       /\ Nil \notin AuthConfigs(Strings(Setups[n]))
       /\ Nil \notin AuthTLSConfigs(Strings(Setups[n]))
       /\ Nil \notin AuthReqConfigs(Strings(Setups[n]))
       /\ \A v \in Contents(Setups[n]) : Nil # Range(Items(v))
       /\ {"authSecret", "caSecret", "configMap", "disk"} \subseteq DOMAIN Setups[n].existing

Editable  == Setups[setup].editable  \* annotation name -> the values users give it
Objects   == Setups[setup].objects   \* object name -> the states it can be in
Preset    == Setups[setup].preset    \* the annotations that the Ingress has at the start
Existing  == Setups[setup].existing  \* the state of the objects at the start
MaxEdited == Setups[setup].edited    \* bound: annotations that differ from the preset ones

VARIABLES pia,       \* the store's extracted annotations, field by field
          running,   \* the fields in the configuration that NGINX runs
          dirty      \* changes of the Ingress or its objects since the last sync

vars == <<ing, objs, pia, running, dirty>>

-----------------------------------------------------------------------------
\* NewAnnotationExtractor: the parser of each field.
Parsed(perm) ==
    [ Aliases |-> ParseAlias, BasicDigestAuth |-> ParseAuth(perm), Canary |-> ParseCanary,
      CertificateAuth |-> ParseAuthTLS, ClientBodyBufferSize |-> ParseClientBodyBufferSize,
      ConfigurationSnippet |-> ParseSnippet, Connection |-> ParseConnection,
      CorsConfig |-> ParseCors, CustomHTTPErrors |-> ParseCustomHTTPErrors,
      DefaultBackend |-> ParseDefaultBackend, FastCGI |-> ParseFastCGI,
      ExternalAuth |-> ParseAuthReq, EnableGlobalAuth |-> ParseAuthReqGlobal,
      HTTP2PushPreload |-> ParseHTTP2PushPreload, Opentracing |-> ParseOpentracing,
      Proxy |-> ParseProxy, ProxySSL |-> ParseProxySSL, RateLimit |-> ParseRateLimit,
      GlobalRateLimit |-> ParseGlobalRateLimit, Redirect |-> ParseRedirect,
      Rewrite |-> ParseRewrite, Satisfy |-> ParseSatisfy, SecureUpstream |-> ParseSecureUpstream,
      ServerSnippet |-> ParseServerSnippet, ServiceUpstream |-> ParseServiceUpstream,
      SessionAffinity |-> ParseSessionAffinity, SSLPassthrough |-> ParseSSLPassthrough,
      UsePortInRedirects |-> ParsePortInRedirect, UpstreamHashBy |-> ParseUpstreamHashBy,
      LoadBalancing |-> ParseLoadBalancing, UpstreamVhost |-> ParseUpstreamVhost,
      Whitelist |-> ParseWhitelist, XForwardedPrefix |-> ParseXForwardedPrefix,
      SSLCipher |-> ParseSSLCipher, Logs |-> ParseLog, InfluxDB |-> ParseInfluxDB,
      BackendProtocol |-> ParseBackendProtocol, ModSecurity |-> ParseModSecurity,
      Mirror |-> ParseMirror, StreamSnippet |-> ParseStreamSnippet ]

\* The zero value a field keeps when nothing is merged into it; Nil where the
\* parser never returns a configuration that looks like it.
Zero ==
    [ Aliases |-> {}, CertificateAuth |-> NoAuthTLS(""), ClientBodyBufferSize |-> "",
      ConfigurationSnippet |-> "", Connection |-> [Enabled |-> FALSE, Header |-> ""],
      CustomHTTPErrors |-> << >>, HTTP2PushPreload |-> FALSE, RateLimit |-> NoLimits,
      GlobalRateLimit |-> NoGlobalLimit, ServerSnippet |-> "", SSLPassthrough |-> FALSE,
      LoadBalancing |-> "", UpstreamVhost |-> "", XForwardedPrefix |-> "", StreamSnippet |-> "",
      Whitelist |-> {}, FastCGI |-> [Index |-> "", Params |-> ""],
      Canary |-> NoCanary, BasicDigestAuth |-> Nil, ExternalAuth |-> Nil, ProxySSL |-> Nil,
      Redirect |-> Nil, DefaultBackend |-> Nil, SecureUpstream |-> Nil ]

\* The pointer to a new reason: it differs from every pointer still in use.
NewPointer == CHOOSE i \in 1..3 : i \notin {pia.Denied, running.Denied}

\* Mutant of Extract: any denial is skipped like the other errors.
ExtractOpen(r, first) ==
    [n \in DOMAIN r \cup {"Denied"} |->
        IF n = "Denied" THEN 0
        ELSE IF r[n].err = "" /\ r[n].val # Nil THEN r[n].val
        ELSE IF n \in DOMAIN Zero THEN Zero[n] ELSE Nil]

\* Extract: a denial sets Denied once; the parser met first loses its value, a later
\* one keeps what it returned with the error, and any other error is skipped.
Extract(r, first) ==
    LET denied == {n \in DOMAIN r : r[n].err = "denied"}
        Value(n) ==
            IF n = "CertificateAuth" /\ n \in denied THEN NoAuthTLS("error obtaining certificate")
            ELSE IF (r[n].err = "" \/ n \in denied \ {first}) /\ r[n].val # Nil THEN r[n].val
            ELSE IF n \in DOMAIN Zero THEN Zero[n] ELSE Nil
    IN  [n \in DOMAIN r \cup {"Denied"} |->
            IF n # "Denied" THEN Value(n) ELSE IF denied = {} THEN 0 ELSE NewPointer]

-----------------------------------------------------------------------------
(* The Equal methods: which fields of a configuration each of them looks at. *)

Agree(c1, c2, fields) == \/ c1 = c2
                         \/ c1 # Nil /\ c2 # Nil /\ \A f \in fields : c1[f] = c2[f]

\* sets.Compare: the same elements, in any order, each as often as in the other list.
Compare(a, b) ==
    /\ Len(a) = Len(b)
    /\ \A x \in Range(a) \cup Range(b) :
          Cardinality({i \in DOMAIN a : a[i] = x}) = Cardinality({i \in DOMAIN b : b[i] = x})

AuthEqual(c1, c2) == Agree(c1, c2, {"Type", "Realm", "Secured", "FileSHA", "Secret"})

AuthSSLCertEqual(c1, c2) == Agree(c1, c2, {"Secret", "CASHA"})

AuthTLSEqual(c1, c2) ==
    /\ AuthSSLCertEqual(c1, c2)
    /\ Agree(c1, c2, {"VerifyClient", "ValidationDepth", "ErrorPage", "PassCertToUpstream"})

ProxySSLEqual(c1, c2) ==
    /\ AuthSSLCertEqual(c1, c2)
    /\ Agree(c1, c2, {"Ciphers", "Protocols", "Verify", "VerifyDepth", "ProxySSLServerName"})

AuthReqEqual(c1, c2) ==
    /\ Agree(c1, c2, { "URL", "Host", "SigninURL", "SigninURLRedirectParam", "Method",
                       "RequestRedirect", "AuthSnippet", "AuthCacheKey", "KeepaliveConnections",
                       "KeepaliveRequests", "KeepaliveTimeout", "AlwaysSetCookie" })
    /\ c1 # c2 => /\ Compare(c1.ResponseHeaders, c2.ResponseHeaders)
                  /\ Compare(c1.AuthCacheDuration, c2.AuthCacheDuration)

CorsEqual(c1, c2) ==
    Agree(c1, c2, { "CorsMaxAge", "CorsExposeHeaders", "CorsAllowCredentials", "CorsAllowHeaders",
                    "CorsAllowMethods", "CorsEnabled", "CorsAllowOrigin" })

RateLimitEqual(c1, c2) ==
    Agree(c1, c2, {"Connections", "RPM", "RPS", "LimitRate", "LimitRateAfter", "Whitelist"})

GlobalRateLimitEqual(c1, c2) == Agree(c1, c2, {"Limit", "WindowSize", "Key", "IgnoredCIDRs"})

RedirectEqual(c1, c2) == Agree(c1, c2, {"URL", "Code", "FromToWWW"})

\* Mutant of RewriteEqual: UseRegex is forgotten.
RewriteEqualNoRegex(c1, c2) ==
    Agree(c1, c2, {"Target", "SSLRedirect", "ForceSSLRedirect", "AppRoot"})

RewriteEqual(c1, c2) ==
    Agree(c1, c2, {"Target", "SSLRedirect", "ForceSSLRedirect", "AppRoot", "UseRegex"})

ProxyEqual(c1, c2) == Agree(c1, c2, DOMAIN ProxyInts \cup DOMAIN ProxyStrings)

ConnectionEqual(c1, c2) == Agree(c1, c2, {"Enabled", "Header"})

LogEqual(c1, c2) == Agree(c1, c2, {"Access", "Rewrite"})

InfluxDBEqual(c1, c2) ==
    Agree(c1, c2, {"InfluxDBEnabled", "InfluxDBPort", "InfluxDBHost", "InfluxDBServerName"})

FastCGIEqual(c1, c2) == Agree(c1, c2, {"Index", "Params"})

ModSecurityEqual(c1, c2) ==
    Agree(c1, c2, {"Enable", "EnableSet", "OWASPRules", "TransactionID", "Snippet"})

OpentracingEqual(c1, c2) == Agree(c1, c2, {"Set", "Enabled", "TrustSet", "TrustEnabled"})

MirrorEqual(c1, c2) == Agree(c1, c2, {"Source", "RequestBody", "Target", "Host"})

CookieEqual(c1, c2) ==
    Agree(c1, c2, {"Name", "Path", "Expires", "MaxAge", "SameSite", "Secure", "ConditionalSameSiteNone"})

SessionAffinityEqual(c1, c2) == /\ Agree(c1, c2, {"Type", "Mode"})
                                /\ CookieEqual(c1.Cookie, c2.Cookie)

TrafficShapingPolicyEqual(c1, c2) ==
    Agree(c1, c2, {"Weight", "Header", "HeaderValue", "HeaderPattern", "Cookie"})

\* Location.Equal: Denied is compared as a pointer, as it is in the code.
LocationEqual(l1, l2) ==
    /\ AuthEqual(l1.BasicDigestAuth, l2.BasicDigestAuth)
    /\ CorsEqual(l1.CorsConfig, l2.CorsConfig)
    /\ AuthReqEqual(l1.ExternalAuth, l2.ExternalAuth)
    /\ RateLimitEqual(l1.RateLimit, l2.RateLimit)
    /\ GlobalRateLimitEqual(l1.GlobalRateLimit, l2.GlobalRateLimit)
    /\ RedirectEqual(l1.Redirect, l2.Redirect)
    /\ RewriteEqual(l1.Rewrite, l2.Rewrite)
    /\ ProxyEqual(l1.Proxy, l2.Proxy)
    /\ ProxySSLEqual(l1.ProxySSL, l2.ProxySSL)
    /\ ConnectionEqual(l1.Connection, l2.Connection)
    /\ LogEqual(l1.Logs, l2.Logs)
    /\ InfluxDBEqual(l1.InfluxDB, l2.InfluxDB)
    /\ FastCGIEqual(l1.FastCGI, l2.FastCGI)
    /\ Compare(l1.CustomHTTPErrors, l2.CustomHTTPErrors)
    /\ ModSecurityEqual(l1.ModSecurity, l2.ModSecurity)
    /\ OpentracingEqual(l1.Opentracing, l2.Opentracing)
    /\ MirrorEqual(l1.Mirror, l2.Mirror)
    /\ Agree(l1, l2, { "Denied", "EnableGlobalAuth", "HTTP2PushPreload", "Whitelist",
                       "UsePortInRedirects", "ConfigurationSnippet", "ClientBodyBufferSize",
                       "UpstreamVhost", "XForwardedPrefix", "BackendProtocol", "Satisfy" })

\* Server.Equal, on what the annotations put into a server.
ServerEqual(s1, s2) ==
    /\ AuthTLSEqual(s1.CertificateAuth, s2.CertificateAuth)
    /\ s1.CertificateAuth.AuthTLSError = s2.CertificateAuth.AuthTLSError
    /\ ProxySSLEqual(s1.ProxySSL, s2.ProxySSL)
    /\ Agree(s1, s2, {"Aliases", "ServerSnippet", "SSLCipher", "SSLPassthrough"})

\* Backend.Equal, on what the annotations put into a backend; that of a canary is
\* marked with NoServer.
BackendEqual(b1, b2) ==
    /\ SessionAffinityEqual(b1.SessionAffinity, b2.SessionAffinity)
    /\ TrafficShapingPolicyEqual(b1.Canary, b2.Canary)
    /\ b1.Canary.Enabled = b2.Canary.Enabled
    /\ Agree(b1, b2, {"UpstreamHashBy", "LoadBalancing", "ServiceUpstream"})

Equal(c1, c2) == LocationEqual(c1, c2) /\ ServerEqual(c1, c2) /\ BackendEqual(c1, c2)

-----------------------------------------------------------------------------
\* One run of the extractor over the changed Ingress and objects: every conjunct
\* that reads ing and objs reads their new values.
Extracted ==
    \E r \in {Parsed(1)', Parsed(2)'} :
       LET denied == {n \in DOMAIN r : r[n].err = "denied"}
       IN  \E first \in IF denied = {} THEN {Nil} ELSE denied : pia' = Extract(r, first)

Edited(i) == Cardinality({a \in DOMAIN i \cup DOMAIN Preset :
                            \/ a \notin DOMAIN i \cap DOMAIN Preset
                            \/ i[a] # Preset[a]})

\* The Ingress handler of the store: an annotation is set, changed or removed.
Annotate(a, v) ==
    /\ dirty < MaxLag
    /\ a \in DOMAIN ing => ing[a] # v
    /\ ing' = [b \in DOMAIN ing \cup {a} |-> IF b = a THEN v ELSE ing[b]]
    /\ Edited(ing') <= MaxEdited
    /\ objs' = objs
    /\ Extracted
    /\ dirty' = dirty + 1
    /\ UNCHANGED running

Remove(a) ==
    /\ dirty < MaxLag
    /\ a \in DOMAIN ing
    /\ ing' = [b \in DOMAIN ing \ {a} |-> ing[b]]
    /\ Edited(ing') <= MaxEdited
    /\ objs' = objs
    /\ Extracted
    /\ dirty' = dirty + 1
    /\ UNCHANGED running

\* The handlers of secrets extract the annotations of the ingresses that refer to
\* the secret.
UpdateSecret(o, s) ==
    /\ dirty < MaxLag
    /\ objs[o] # s
    /\ ing' = ing
    /\ objs' = [objs EXCEPT ![o] = s]
    /\ Extracted
    /\ dirty' = dirty + 1
    /\ UNCHANGED running

\* A ConfigMap, a service or the disk changes: nothing is extracted.
UpdateOther(o, s) ==
    /\ dirty < MaxLag
    /\ objs[o] # s
    /\ objs' = [objs EXCEPT ![o] = s]
    /\ dirty' = dirty + 1
    /\ UNCHANGED <<ing, pia, running>>

\* An event for an Ingress whose annotations did not change, such as a change of its
\* rules or the event of another object: they are extracted again all the same.
ExtractAgain ==
    /\ ing' = ing
    /\ objs' = objs
    /\ Extracted
    /\ UNCHANGED <<running, dirty>>

\* syncIngress: nothing is done when the configurations are equal.
Sync ==
    /\ running' = IF Equal(running, pia) THEN running ELSE pia
    /\ dirty' = 0
    /\ UNCHANGED <<ing, objs, pia>>

Secrets == {"authSecret", "caSecret"}

\* What the first extraction makes of the annotations that are there at the start, which
\* no parser denies (Init).
Initial == [n \in DOMAIN Parsed(1) \cup {"Denied"} |->
               IF n = "Denied" THEN 0
               ELSE IF Parsed(1)[n].err = "" THEN Parsed(1)[n].val
               ELSE IF n \in DOMAIN Zero THEN Zero[n] ELSE Nil]

Init ==
    /\ setup \in DOMAIN Setups
    /\ ing = Preset
    /\ objs = Existing
    /\ \A n \in DOMAIN Parsed(1) : Parsed(1)[n].err # "denied"
    /\ pia = Initial
    /\ running = Initial
    /\ dirty = 0

Step ==
    \/ \E a \in DOMAIN Editable : \E v \in Editable[a] : Annotate(a, v)
    \/ \E a \in DOMAIN Editable : Remove(a)
    \/ \E o \in DOMAIN Objects \cap Secrets : \E s \in Objects[o] : UpdateSecret(o, s)
    \/ \E o \in DOMAIN Objects \ Secrets : \E s \in Objects[o] : UpdateOther(o, s)
    \/ ExtractAgain
    \/ Sync

Next == Step /\ UNCHANGED setup

Spec == Init /\ [][Next]_<<vars, setup>>

-----------------------------------------------------------------------------
\* The variables have their types: the annotations are among the editable ones, with
\* a value users give them, and every field of the Ingress has been extracted.
TypeOK ==
    /\ DOMAIN ing \subseteq DOMAIN Editable \cup DOMAIN Preset /\ Edited(ing) <= MaxEdited
    /\ \A a \in DOMAIN ing \cap DOMAIN Editable : ing[a] \in Editable[a]
    /\ DOMAIN pia = DOMAIN Parsed(1) \cup {"Denied"} /\ DOMAIN running = DOMAIN pia
    /\ pia.Denied \in 0..3 /\ running.Denied \in 0..3
    /\ dirty \in 0..MaxLag

\* The value of an annotation that asks for protection, "" when there is none: an
\* annotation without content is skipped as if it were absent.
Asked(name) == IF name \in DOMAIN ing THEN ing[name] ELSE ""

\* Extraction fails closed: a location whose Ingress asks for passwords, for an
\* external check, for client certificates or for a range of addresses is protected as
\* asked or is denied, whichever of the objects are missing or broken, whatever else
\* is wrong, and in whatever order the parsers ran (annotations.go: Extract).
Guarded ==
    pia.Denied = 0 =>
       /\ Asked("auth-type") # "" =>
             /\ pia.BasicDigestAuth # Nil /\ pia.BasicDigestAuth.Secured
             /\ pia.BasicDigestAuth.FileSHA[1] # "none"
             /\ pia.BasicDigestAuth.SecretType = "auth-file" => pia.BasicDigestAuth.FileSHA[1] # "nokey"
             /\ pia.BasicDigestAuth.Secret = Asked("auth-secret")
       /\ Asked("auth-url") # "" =>
             pia.ExternalAuth # Nil /\ pia.ExternalAuth.URL = Asked("auth-url")
       /\ Asked("auth-tls-secret") # "" =>
             /\ pia.CertificateAuth.Secret = Asked("auth-tls-secret")
             /\ pia.CertificateAuth.VerifyClient # ""
       /\ "whitelist-source-range" \in DOMAIN ing =>
             pia.Whitelist # {} /\ "bad" \notin pia.Whitelist

\* What the template renders or the Lua code is sent of the fields.  Denied counts as a
\* flag, whichever pointer it is; the order of headers and durations does not count.
Applied(p) ==
    [p EXCEPT !.Denied = (@ # 0), !.StreamSnippet = "", !.DefaultBackend = Nil,
              !.SessionAffinity.CanaryBehavior = "",
              !.Canary = IF @.Enabled THEN @ ELSE NoCanary,
              !.ExternalAuth = IF @ = Nil THEN Nil
                ELSE [@ EXCEPT !.ResponseHeaders = Range(p.ExternalAuth.ResponseHeaders),
                               !.AuthCacheDuration = Range(p.ExternalAuth.AuthCacheDuration)]]

Applies == Sync => Applied(running)' = Applied(pia)

\* After a run of the sync loop NGINX has what the annotations say: Equal does not take
\* a changed configuration for the running one, so no change of an annotation or of a
\* secret is lost (types_equals.go and the Equal methods of the annotations).
SyncApplies == [][Applies]_vars

NoReload == Sync /\ dirty = 0 => running' = running

\* The sync loop does not reload NGINX when neither the Ingress nor what it refers to
\* changed since its last run, however often the annotations were extracted meanwhile
\* (docs/how-it-works.md: the model avoids unnecessary reloads).
NoSpuriousReload == [][NoReload]_vars

\* The values of the authentication type and of the verification of client certificates
\* that reach the template are those that the documentation lists: any other one makes
\* the configuration of the whole controller invalid (docs/user-guide: annotations.md).
DocumentedChoices ==
    /\ pia.BasicDigestAuth # Nil => pia.BasicDigestAuth.Type \in {"basic", "digest"}
    /\ pia.CertificateAuth.VerifyClient \in {"", "on", "off", "optional", "optional_no_ca"}

\* A valid limit-rps is enforced unless the location is denied (annotations.md: the
\* number of requests accepted from a given IP each second).
LimitKept ==
    pia.Denied = 0 /\ Asked("limit-rps") \in DOMAIN Numeral
       => pia.RateLimit.RPS.Limit = Numeral[Asked("limit-rps")]
=============================================================================
