------------------------- MODULE AnnotationParsers -------------------------
(* The parsers of internal/ingress/annotations: what each of them makes of the
   annotations of one Ingress and of the objects those refer to.

   An annotation's value is a string of which only what the parser tests of it
   matters: whether it is a number, a boolean, a URL, a list item that is
   accepted.  A parser returns a value and an error, "" when there is none; a
   value that goes with an error is what the Go code returns with it, and Nil
   where it returns nil. *)
EXTENDS Integers, Sequences, FiniteSets, Functions, TLC

CONSTANT Nil

VARIABLES ing,     \* the annotations of the Ingress: a function from names to values
          objs     \* the secrets, ConfigMaps and services that they name

-----------------------------------------------------------------------------
(* The strings of the model, by what the conversions and checks make of them. *)

Numeral == [s \in {"0", "1", "2", "-1", "302", "999"} |->
              CASE s = "0" -> 0 [] s = "1" -> 1 [] s = "2" -> 2 [] s = "-1" -> -1
                [] s = "302" -> 302 [] s = "999" -> 999]

Truth == [s \in {"true", "false"} |-> s = "true"]

\* strings.Split(s, ","), with the items trimmed.
Items(s) == CASE s = "x,y"    -> <<"x", "y">>
              [] s = "y,x"    -> <<"y", "x">>
              [] s = "x,bad"  -> <<"x", "bad">>
              [] s = "x,*"    -> <<"x", "*">>
              [] s = "1,302"  -> <<"1", "302">>
              [] s = "1,bad"  -> <<"1", "bad">>
              [] OTHER        -> <<s>>

\* Items that no validation accepts, as addresses, headers, origins, durations or names.
IsBad(item) == item = "bad"

\* url.Parse, with StringToURL's demand of a scheme and a host.
Urls == {"http://a", "http://b", "http://$h", "ftp://a"}

HostOf == [u \in Urls |-> CASE u \in {"http://a", "ftp://a"} -> "a" [] u = "http://b" -> "b"
                             [] u = "http://$h" -> "$h"]

-----------------------------------------------------------------------------
(* parser/main.go and errors.go: the three ways of reading an annotation.  An
   absent annotation is an error of its own; a value that does not convert, and
   an empty string, are invalid content. *)

Result(val, err) == [val |-> val, err |-> err]
Ok(val)          == Result(val, "")
Denied(val)      == Result(val, "denied")

GetStringAnnotation(name) ==
    IF name \notin DOMAIN ing THEN Result("", "missing")
    ELSE IF ing[name] = "" THEN Result("", "invalid") ELSE Ok(ing[name])

GetBoolAnnotation(name) ==
    IF name \notin DOMAIN ing THEN Result(FALSE, "missing")
    ELSE IF ing[name] \in DOMAIN Truth THEN Ok(Truth[ing[name]]) ELSE Result(FALSE, "invalid")

GetIntAnnotation(name) ==
    IF name \notin DOMAIN ing THEN Result(0, "missing")
    ELSE IF ing[name] \in DOMAIN Numeral THEN Ok(Numeral[ing[name]]) ELSE Result(0, "invalid")

\* The idiom "if err != nil { x = default }", and the one that validates as well.
OrElse(r, default)       == IF r.err = "" THEN r.val ELSE default
OrElseIn(r, ok, default) == IF r.err = "" /\ r.val \in ok THEN r.val ELSE default

String(name)        == GetStringAnnotation(name).val
StringOr(name, d)   == OrElse(GetStringAnnotation(name), d)
StringIn(name, s, d) == OrElseIn(GetStringAnnotation(name), s, d)
Bool(name)          == GetBoolAnnotation(name).val
BoolOr(name, d)     == OrElse(GetBoolAnnotation(name), d)
Num(name)           == GetIntAnnotation(name).val
NumOr(name, d)      == OrElse(GetIntAnnotation(name), d)

\* net.ParseCIDRs: one bad item discards all of them.
ParseCIDRs(s) ==
    IF s = "" THEN Ok({})
    ELSE IF \E i \in DOMAIN Items(s) : IsBad(Items(s)[i]) THEN Result(Nil, "other")
    ELSE Ok(Range(Items(s)))

\* config.NewDefault: the settings that take the place of an absent annotation.
defBackend ==
    [ BodySize |-> "1m", ConnectTimeout |-> 5, ReadTimeout |-> 60, SendTimeout |-> 60,
      BuffersNumber |-> 4, BufferSize |-> "4k", CookieDomain |-> "off", CookiePath |-> "off",
      NextUpstream |-> "error timeout", NextUpstreamTimeout |-> 0, NextUpstreamTries |-> 3,
      RequestBuffering |-> "on", ProxyRedirectFrom |-> "off", ProxyRedirectTo |-> "off",
      ProxyBuffering |-> "off", ProxyHTTPVersion |-> "1.1", ProxyMaxTempFileSize |-> "1024m",
      PreserveTrailingSlash |-> FALSE, SSLRedirect |-> TRUE, ForceSSLRedirect |-> FALSE,
      WhitelistSourceRange |-> {}, LimitRate |-> 0, LimitRateAfter |-> 0,
      UsePortInRedirects |-> FALSE, ServiceUpstream |-> FALSE ]

-----------------------------------------------------------------------------
(* Parsers that deny the location when what they are asked for is not there. *)

\* auth: the password file is written here.  A file of type auth-map is written in
\* the order in which Go ranges over the secret's data: perm stands for it.
PasswordFile(secretType, perm) ==
    IF secretType = "auth-file" THEN <<objs.authSecret>> ELSE <<objs.authSecret, perm>>

ParseAuth(perm) ==
    LET at         == GetStringAnnotation("auth-type")
        secretType == StringOr("auth-secret-type", "auth-file")
        secret     == GetStringAnnotation("auth-secret")
        readable   == /\ secret.err = "" /\ ~IsBad(secret.val)
                      /\ objs.authSecret # "none"
        dumped     == /\ secretType \in {"auth-file", "auth-map"}
                      /\ (secretType = "auth-file" => objs.authSecret # "nokey")
                      /\ objs.disk = "ok"
    IN  IF at.err # "" THEN Result(Nil, at.err)
        ELSE IF at.val \notin {"basic", "digest", "nonbasic"} \/ ~readable \/ ~dumped
        THEN Denied(Nil)
        ELSE Ok([ Type |-> at.val, Realm |-> String("auth-realm"), Secured |-> TRUE,
                  FileSHA |-> PasswordFile(secretType, perm), Secret |-> secret.val,
                  SecretType |-> secretType ])

\* authtls: the verification mode is matched anywhere in the value, so "none" passes
\* for "on".  A denial comes with an empty configuration.
NoAuthTLS(error) ==
    [ Secret |-> "", CASHA |-> "", VerifyClient |-> "", ValidationDepth |-> 0, ErrorPage |-> "",
      PassCertToUpstream |-> FALSE, MatchCN |-> "", AuthTLSError |-> error ]

ParseAuthTLS ==
    LET secret == GetStringAnnotation("auth-tls-secret")
        depth  == NumOr("auth-tls-verify-depth", 1)
    IN  IF secret.err # "" THEN Result(NoAuthTLS(""), secret.err)
        ELSE IF IsBad(secret.val) \/ objs.caSecret = "none" THEN Denied(NoAuthTLS(""))
        ELSE Ok([ Secret |-> secret.val, CASHA |-> objs.caSecret,
                  VerifyClient |-> StringIn("auth-tls-verify-client",
                                            {"on", "off", "optional", "none"}, "on"),
                  ValidationDepth |-> IF depth = 0 THEN 1 ELSE depth,
                  ErrorPage |-> String("auth-tls-error-page"),
                  PassCertToUpstream |-> Bool("auth-tls-pass-certificate-to-upstream"),
                  MatchCN |-> StringIn("auth-tls-match-cn", {"CN=x", "CN=y"}, ""),
                  AuthTLSError |-> "" ])

ParseProxySSL ==
    LET secret    == GetStringAnnotation("proxy-ssl-secret")
        protocols == GetStringAnnotation("proxy-ssl-protocols")
        depth     == NumOr("proxy-ssl-verify-depth", 1)
    IN  IF secret.err # "" THEN Result(Nil, secret.err)
        ELSE IF IsBad(secret.val) \/ objs.caSecret = "none" THEN Denied(Nil)
        ELSE Ok([ Secret |-> secret.val, CASHA |-> objs.caSecret,
                  Ciphers |-> StringOr("proxy-ssl-ciphers", "DEFAULT"),
                  Protocols |-> OrElseIn(protocols, {"TLSv1.2", "TLSv1.3"}, "TLSv1 TLSv1.1 TLSv1.2"),
                  ProxySSLName |-> String("proxy-ssl-name"),
                  Verify |-> StringIn("proxy-ssl-verify", {"on", "off"}, "off"),
                  VerifyDepth |-> IF depth = 0 THEN 1 ELSE depth,
                  ProxySSLServerName |-> StringIn("proxy-ssl-server-name", {"on", "off"}, "off") ])

\* ParseStringToCacheDurations: nothing given is the default duration.
CacheDurations(s) ==
    IF s = "" THEN Ok(<<"200 202 401 5m">>)
    ELSE IF \E i \in DOMAIN Items(s) : IsBad(Items(s)[i]) THEN Denied(<<"200 202 401 5m">>)
    ELSE Ok(Items(s))

\* authreq: connections to the authentication service are kept alive only with a
\* fixed host and positive limits.
KeepaliveConnections(url) ==
    LET connections == NumOr("auth-keepalive", 0)
    IN  IF \/ connections < 0 \/ HostOf[url] = "$h"
           \/ NumOr("auth-keepalive-requests", 1000) <= 0
           \/ NumOr("auth-keepalive-timeout", 60) <= 0
        THEN 0 ELSE connections

ParseAuthReq ==
    LET url      == GetStringAnnotation("auth-url")
        method   == String("auth-method")
        duration == CacheDurations(String("auth-cache-duration"))
        headers  == String("auth-response-headers")
        map      == String("auth-proxy-set-headers")
    IN  IF url.err # "" THEN Result(Nil, url.err)
        ELSE IF \/ url.val \notin Urls
                \/ method # "" /\ method \notin {"GET", "POST"}
                \/ duration.err # ""
                \/ headers # "" /\ \E i \in DOMAIN Items(headers) : IsBad(Items(headers)[i])
                \/ map # "" /\ objs.configMap \in {"none", "badheader"}
        THEN Denied(Nil)
        ELSE Ok([ URL |-> url.val, Host |-> HostOf[url.val], Method |-> method,
                  SigninURL |-> String("auth-signin"),
                  SigninURLRedirectParam |-> String("auth-signin-redirect-param"),
                  ResponseHeaders |-> IF headers = "" THEN << >> ELSE Items(headers),
                  RequestRedirect |-> String("auth-request-redirect"),
                  AuthSnippet |-> String("auth-snippet"), AuthCacheKey |-> String("auth-cache-key"),
                  AuthCacheDuration |-> duration.val,
                  KeepaliveConnections |-> KeepaliveConnections(url.val),
                  KeepaliveRequests |-> NumOr("auth-keepalive-requests", 1000),
                  KeepaliveTimeout |-> NumOr("auth-keepalive-timeout", 60),
                  ProxySetHeaders |-> IF map = "" THEN "" ELSE objs.configMap,
                  AlwaysSetCookie |-> Bool("auth-always-set-cookie") ])

\* ipwhitelist: an empty value and a list with one bad item deny the location.
ParseWhitelist ==
    LET val  == GetStringAnnotation("whitelist-source-range")
        nets == ParseCIDRs(val.val)
    IN  IF val.err = "missing" THEN Ok(defBackend.WhitelistSourceRange)
        ELSE IF val.err # "" \/ nets.err # "" THEN Denied(defBackend.WhitelistSourceRange)
        ELSE Ok(nets.val)

ParseFastCGI ==
    LET config(params) == [Index |-> String("fastcgi-index"), Params |-> params]
        cm == GetStringAnnotation("fastcgi-params-configmap")
    IN  IF cm.err # "" THEN Ok(config(""))
        ELSE IF IsBad(cm.val) \/ objs.configMap = "none" THEN Denied(config(""))
        ELSE Ok(config(objs.configMap))

\* globalratelimit: a window that is no duration denies, a bad ignored address drops
\* the whole limit.
NoGlobalLimit == [Limit |-> 0, WindowSize |-> "", Key |-> "", IgnoredCIDRs |-> {}]

ParseGlobalRateLimit ==
    LET limit  == Num("global-rate-limit")
        window == String("global-rate-limit-window")
        key    == String("global-rate-limit-key")
        cidrs  == ParseCIDRs(String("global-rate-limit-ignored-cidrs"))
    IN  IF limit = 0 \/ window = "" THEN Ok(NoGlobalLimit)
        ELSE IF IsBad(window) THEN Denied(NoGlobalLimit)
        ELSE IF cidrs.err # "" THEN Result(Nil, cidrs.err)
        ELSE Ok([ Limit |-> limit, WindowSize |-> window, IgnoredCIDRs |-> cidrs.val,
                  Key |-> IF key = "" THEN "$remote_addr" ELSE key ])

-----------------------------------------------------------------------------
(* Parsers whose errors are dropped: the annotation has then no effect. *)

\* ratelimit: a bad address in limit-whitelist drops every limit.
NoZone    == [Limit |-> 0, Burst |-> 0]
Zone(n)   == [Limit |-> n, Burst |-> n * NumOr("limit-burst-multiplier", 5)]
NoLimits  == [ Connections |-> NoZone, RPS |-> NoZone, RPM |-> NoZone,
               LimitRate |-> 0, LimitRateAfter |-> 0, Whitelist |-> {} ]

ParseRateLimit ==
    LET cidrs   == ParseCIDRs(String("limit-whitelist"))
        rates   == [NoLimits EXCEPT !.LimitRate = NumOr("limit-rate", defBackend.LimitRate),
                                    !.LimitRateAfter = NumOr("limit-rate-after", defBackend.LimitRateAfter)]
        rpm     == Num("limit-rpm")
        rps     == Num("limit-rps")
        conn    == Num("limit-connections")
    IN  IF cidrs.err # "" THEN Result(Nil, cidrs.err)
        ELSE IF rpm = 0 /\ rps = 0 /\ conn = 0 THEN Ok(rates)
        ELSE Ok([rates EXCEPT !.Connections = Zone(conn), !.RPS = Zone(rps), !.RPM = Zone(rpm),
                              !.Whitelist = cidrs.val])

NoCanary == [ Enabled |-> FALSE, Weight |-> 0, WeightTotal |-> 0, Header |-> "", HeaderValue |-> "",
              HeaderPattern |-> "", Cookie |-> "" ]

ParseCanary ==
    LET config == [ Enabled |-> Bool("canary"), Weight |-> Num("canary-weight"),
                    WeightTotal |-> NumOr("canary-weight-total", 100),
                    Header |-> String("canary-by-header"),
                    HeaderValue |-> String("canary-by-header-value"),
                    HeaderPattern |-> String("canary-by-header-pattern"),
                    Cookie |-> String("canary-by-cookie") ]
    IN  IF /\ ~config.Enabled
           /\ \/ config.Weight > 0
              \/ \E f \in {"Header", "HeaderValue", "HeaderPattern", "Cookie"} : config[f] # ""
        THEN Result(Nil, "other") ELSE Ok(config)

\* redirect: the temporal redirect wins; an empty or bad value of either drops both.
ParseRedirect ==
    LET www    == Bool("from-to-www-redirect")
        temp   == GetStringAnnotation("temporal-redirect")
        perm   == GetStringAnnotation("permanent-redirect")
        code   == GetIntAnnotation("permanent-redirect-code")
        broken(r) == r.err \notin {"", "missing"}
    IN  IF broken(temp) THEN Result(Nil, temp.err)
        ELSE IF temp.val # "" THEN
             IF temp.val \notin Urls \ {"ftp://a"} THEN Result(Nil, "other")
             ELSE Ok([URL |-> temp.val, Code |-> 302, FromToWWW |-> www])
        ELSE IF broken(perm) \/ broken(code) THEN Result(Nil, "invalid")
        ELSE IF perm.val = "" /\ ~www THEN Result(Nil, "missing")
        ELSE Ok([ URL |-> perm.val, FromToWWW |-> www,
                  Code |-> IF code.val \in 300..308 THEN code.val ELSE 301 ])

ParseCustomHTTPErrors ==
    LET codes == GetStringAnnotation("custom-http-errors")
    IN  IF codes.err # "" THEN Result(Nil, codes.err)
        ELSE IF \E i \in DOMAIN Items(codes.val) : Items(codes.val)[i] \notin DOMAIN Numeral
        THEN Result(Nil, "other")
        ELSE Ok([i \in DOMAIN Items(codes.val) |-> Numeral[Items(codes.val)[i]]])

ParseDefaultBackend ==
    LET service == GetStringAnnotation("default-backend")
    IN  IF service.err # "" THEN Result(Nil, service.err)
        ELSE IF objs.service = "none" THEN Result(Nil, "other") ELSE Ok(service.val)

ParseAlias ==
    LET val == GetStringAnnotation("server-alias")
    IN  IF val.err # "" THEN Result({}, val.err) ELSE Ok(Range(Items(val.val)))

ParseConnection ==
    LET header == GetStringAnnotation("connection-proxy-header")
    IN  Result([Enabled |-> header.err = "", Header |-> header.val], header.err)

-----------------------------------------------------------------------------
(* Parsers that fall back to a default, value by value. *)

ParseCors ==
    LET origin  == GetStringAnnotation("cors-allow-origin")
        origins == Items(origin.val)
    IN  Ok([ CorsEnabled |-> Bool("enable-cors"),
             CorsAllowOrigin |->
                 IF origin.err # "" \/ "*" \in Range(origins) THEN <<"*">>
                 ELSE SelectSeq(origins, LAMBDA o : ~IsBad(o)),
             CorsAllowHeaders |-> StringIn("cors-allow-headers", {"x", "y"}, "DNT,Range"),
             CorsAllowMethods |-> StringIn("cors-allow-methods", {"x", "y"}, "GET, PUT"),
             CorsAllowCredentials |-> BoolOr("cors-allow-credentials", TRUE),
             CorsExposeHeaders |-> StringIn("cors-expose-headers", {"x", "y"}, ""),
             CorsMaxAge |-> NumOr("cors-max-age", 1728000) ])

ProxyInts ==
    [ ConnectTimeout |-> "proxy-connect-timeout", SendTimeout |-> "proxy-send-timeout",
      ReadTimeout |-> "proxy-read-timeout", BuffersNumber |-> "proxy-buffers-number",
      NextUpstreamTimeout |-> "proxy-next-upstream-timeout",
      NextUpstreamTries |-> "proxy-next-upstream-tries" ]

ProxyStrings ==
    [ BufferSize |-> "proxy-buffer-size", CookiePath |-> "proxy-cookie-path",
      CookieDomain |-> "proxy-cookie-domain", BodySize |-> "proxy-body-size",
      NextUpstream |-> "proxy-next-upstream", RequestBuffering |-> "proxy-request-buffering",
      ProxyRedirectFrom |-> "proxy-redirect-from", ProxyRedirectTo |-> "proxy-redirect-to",
      ProxyBuffering |-> "proxy-buffering", ProxyHTTPVersion |-> "proxy-http-version",
      ProxyMaxTempFileSize |-> "proxy-max-temp-file-size" ]

ParseProxy == Ok( [f \in DOMAIN ProxyInts |-> NumOr(ProxyInts[f], defBackend[f])]
               @@ [f \in DOMAIN ProxyStrings |-> StringOr(ProxyStrings[f], defBackend[f])] )

\* rewrite: an app-root that is no path, or has a scheme, is dropped.
ParseRewrite ==
    Ok([ Target |-> String("rewrite-target"),
         SSLRedirect |-> BoolOr("ssl-redirect", defBackend.SSLRedirect),
         PreserveTrailingSlash |-> BoolOr("preserve-trailing-slash", defBackend.PreserveTrailingSlash),
         ForceSSLRedirect |-> BoolOr("force-ssl-redirect", defBackend.ForceSSLRedirect),
         UseRegex |-> Bool("use-regex"),
         AppRoot |-> StringIn("app-root", {"x", "y"}, "") ])

\* mirror: without a target there is no source either; the host is the target's
\* unless it is given.
ParseMirror ==
    LET target == GetStringAnnotation("mirror-target")
        host   == GetStringAnnotation("mirror-host")
    IN  Ok([ Source |-> IF target.err = "" THEN "/_mirror" ELSE "",
             Target |-> target.val,
             RequestBody |-> StringIn("mirror-request-body", {"off"}, "on"),
             Host |-> IF host.err = "" THEN host.val
                      ELSE IF target.val \in Urls /\ HostOf[target.val] # "$h"
                      THEN HostOf[target.val] ELSE "" ])

ParseModSecurity ==
    Ok([ Enable |-> Bool("enable-modsecurity"),
         EnableSet |-> GetBoolAnnotation("enable-modsecurity").err = "",
         OWASPRules |-> Bool("enable-owasp-core-rules"),
         TransactionID |-> String("modsecurity-transaction-id"),
         Snippet |-> String("modsecurity-snippet") ])

ParseInfluxDB ==
    Ok([ InfluxDBEnabled |-> Bool("enable-influxdb"),
         InfluxDBMeasurement |-> StringOr("influxdb-measurement", "default"),
         InfluxDBPort |-> StringOr("influxdb-port", "8089"),
         InfluxDBHost |-> StringOr("influxdb-host", "127.0.0.1"),
         InfluxDBServerName |-> StringOr("influxdb-server-name", "nginx-ingress") ])

\* opentracing: without a valid switch the trust annotation is not read.
ParseOpentracing ==
    LET enabled == GetBoolAnnotation("enable-opentracing")
        trust   == GetBoolAnnotation("opentracing-trust-incoming-span")
        set     == enabled.err = ""
    IN  Ok([ Set |-> set, Enabled |-> enabled.val,
             TrustSet |-> set /\ trust.err = "", TrustEnabled |-> set /\ trust.val ])

ParseLog == Ok([ Access |-> BoolOr("enable-access-log", TRUE), Rewrite |-> Bool("enable-rewrite-log") ])

\* sessionaffinity: the cookie's annotations are read for the type "cookie" only.
NoCookie == [ Name |-> "", Expires |-> "", MaxAge |-> "", Path |-> "", SameSite |-> "",
              Secure |-> FALSE, ConditionalSameSiteNone |-> FALSE, ChangeOnFailure |-> FALSE ]

CookieAffinity ==
    [ Name |-> StringOr("session-cookie-name", "INGRESSCOOKIE"),
      Expires |-> StringIn("session-cookie-expires", {"1", "2"}, ""),
      MaxAge |-> StringIn("session-cookie-max-age", {"1", "2"}, ""),
      Path |-> String("session-cookie-path"), SameSite |-> String("session-cookie-samesite"),
      Secure |-> Bool("session-cookie-secure"),
      ConditionalSameSiteNone |-> Bool("session-cookie-conditional-samesite-none"),
      ChangeOnFailure |-> Bool("session-cookie-change-on-failure") ]

ParseSessionAffinity ==
    Ok([ Type |-> String("affinity"), Mode |-> String("affinity-mode"),
         CanaryBehavior |-> String("affinity-canary-behavior"),
         Cookie |-> IF String("affinity") = "cookie" THEN CookieAffinity ELSE NoCookie ])

ParseUpstreamHashBy ==
    LET size == Num("upstream-hash-by-subset-size")
    IN  Ok([ UpstreamHashBy |-> String("upstream-hash-by"),
             UpstreamHashBySubset |-> Bool("upstream-hash-by-subset"),
             UpstreamHashBySubsetSize |-> IF size = 0 THEN 3 ELSE size ])

ParseSSLCipher ==
    LET prefer == GetBoolAnnotation("ssl-prefer-server-ciphers")
    IN  Ok([ SSLCiphers |-> String("ssl-ciphers"),
             SSLPreferServerCiphers |->
                 IF prefer.err # "" THEN "" ELSE IF prefer.val THEN "on" ELSE "off" ])

ParseBackendProtocol == Ok(StringIn("backend-protocol", {"HTTP", "HTTPS", "GRPC"}, "HTTP"))

ParseSatisfy == Ok(StringIn("satisfy", {"any", "all"}, ""))

ParsePortInRedirect == Ok(BoolOr("use-port-in-redirects", defBackend.UsePortInRedirects))

ParseAuthReqGlobal == Ok(BoolOr("enable-global-auth", TRUE))

\* serviceupstream: a value that is no boolean means false, not the default.
ParseServiceUpstream ==
    LET val == GetBoolAnnotation("service-upstream")
    IN  Ok(IF val.err = "missing" THEN defBackend.ServiceUpstream ELSE val.val)

\* secureupstream: the annotation is no longer supported.
ParseSecureUpstream == Ok(Nil)

\* The parsers that hand an annotation over as it is.
ParseHTTP2PushPreload     == GetBoolAnnotation("http2-push-preload")
ParseSSLPassthrough       == GetBoolAnnotation("ssl-passthrough")
ParseClientBodyBufferSize == GetStringAnnotation("client-body-buffer-size")
ParseXForwardedPrefix     == GetStringAnnotation("x-forwarded-prefix")
ParseLoadBalancing        == GetStringAnnotation("load-balance")
ParseServerSnippet        == GetStringAnnotation("server-snippet")
ParseSnippet              == GetStringAnnotation("configuration-snippet")
ParseStreamSnippet        == GetStringAnnotation("stream-snippet")
ParseUpstreamVhost        == GetStringAnnotation("upstream-vhost")
=============================================================================
