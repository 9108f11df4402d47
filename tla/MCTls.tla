------------------------------- MODULE MCTls -------------------------------
(* The setups of Tls for TLC. *)
EXTENDS Tls, TLC

-----------------------------------------------------------------------------
(* Certificates *)

\* "A.x." is "a.x" in another spelling; "_" stands for a client without SNI.
MCUids  == {"ua", "uw", "ud"}
MCPems  == {"pa1", "pa2", "pw1", "pw2", "pd", "bad"}
MCAsked == {"A.x.", "b.x", "_"}
MCNames == {"a.x", "b.x", "*.x", "_"}
MCCanon == "A.x." :> "a.x" @@ "b.x" :> "b.x" @@ "_" :> "_"
MCWild == [n \in MCNames |-> IF n = "_" THEN "_" ELSE "*.x"]

\* Bodies as configureCertificates builds them: every server of the configuration,
\* with the certificates they use.
Body(s, certs) == [servers |-> s, certificates |-> certs]

Full(a, w, certs) ==
  Body("a.x" :> a @@ "b.x" :> EmptyUid @@ "*.x" :> w @@ "_" :> "ud", certs)

\* a.x gets a certificate of its own, the wildcard one is renewed and goes away.
SomeBodies ==
  {Full("ua", "uw", "ua" :> "pa1" @@ "uw" :> "pw1" @@ "ud" :> "pd"),
   Full(EmptyUid, "uw", "uw" :> "pw2" @@ "ud" :> "pd"),
   Full("ua", EmptyUid, "ua" :> "bad" @@ "ud" :> "pd"),
   Body("a.x" :> "ua" @@ "_" :> "ud", "ua" :> "pa1" @@ "ud" :> "pd")}

\* a.x gets a certificate of its own, which is renewed and goes away.
OwnBodies == {Body("a.x" :> "ua" @@ "_" :> "ud", "ua" :> p @@ "ud" :> "pd") : p \in {"pa1", "pa2"}}
             \cup {Body("a.x" :> EmptyUid @@ "_" :> "ud", "ud" :> "pd")}

\* Every kind of certificate, POSTs that do not run beside handshakes and fetches; POSTs,
\* failing writes and evictions at any time.
MCSetups ==
  [ quiet   |-> [bodies |-> SomeBodies, quiet |-> TRUE, posts |-> 3, failures |-> 0],
    anytime |-> [bodies |-> OwnBodies, quiet |-> FALSE, posts |-> 2, failures |-> 1] ]

-----------------------------------------------------------------------------
(* Passthrough: two clients while everything happens; the list of two hosts      *)
(* while the store changes, and a connection through it.  Then reviews, a        *)
(* service that is created again with another address, and a sync that changes   *)
(* of the store overtake.                                                        *)

MCProxySetups ==
  [ serves    |-> [hosts |-> {1}, services |-> {"s"}, conns |-> {"c1", "c2"}, changes |-> 2,
                   fullTest |-> FALSE, faults |-> {"recreate", "reviews", "rejects"}],
    follows   |-> [hosts |-> {1, 2}, services |-> {"s", "t"}, conns |-> {}, changes |-> 3,
                   fullTest |-> TRUE, faults |-> {}],
    passes    |-> [hosts |-> {1, 2}, services |-> {"s", "t"}, conns |-> {"c1"}, changes |-> 2,
                   fullTest |-> TRUE, faults |-> {}],
    reviewed  |-> [hosts |-> {1}, services |-> {"s", "t"}, conns |-> {"c1"}, changes |-> 3,
                   fullTest |-> TRUE, faults |-> {"reviews"}],
    recreated |-> [hosts |-> {1}, services |-> {"s"}, conns |-> {"c1"}, changes |-> 3,
                   fullTest |-> TRUE, faults |-> {"recreate"}],
    overtaken |-> [hosts |-> {1}, services |-> {"s"}, conns |-> {"c1"}, changes |-> 4,
                   fullTest |-> TRUE, faults |-> {}] ]

-----------------------------------------------------------------------------
(* More properties of the two components, where they apply *)

\* A stapled response is one for the certificate it is stapled to, with POSTs at any time
\* (fetch_and_cache_ocsp_response, certificate.lua:200).
StapleMatchesAnytime == setup = "anytime" => StapleMatches

\* A handshake that finds a response, stale or not, is served with it (certificate.lua:194).
StaleIsServedAnytime == setup = "anytime" => StaleIsServed

\* While _ has its certificate, no handshake is left with the fake one (call).
DefaultBeforeFake == [][setup = "anytime" => FakeIsLast]_vars

\* A handshake ends with the certificate of the last body answered 201, whatever earlier
\* bodies mentioned (handle_servers, configuration.lua:83).
OnlyTheLastBody ==
  [][setup = "quiet" /\ config # None => \A c \in Conns : EndsAsExpected(c)]_vars

\* A change of use-proxy-protocol misses one connection at most (nginx.go:777).
OneStaleAccept == OfProxy => Proxy!OneStaleAccept

\* A connection is passed only to a service that its host has had, where the service has
\* been (generateTemplate writes the proxy's list, nginx.go:482).
OnlyStored == setup = "reviewed" => Proxy!OnlyStored

\* The host has had the service while it was there (syncIngress, controller.go:153).
OnlyTogether == setup = "overtaken" => Proxy!OnlyTogether

\* A lookup while the list is replaced reads a server of a list (Get, tcp.go:49).
GetReadsServers == OfProxy => Proxy!GetReadsServers

\* A client that has spoken is passed on or hung up on, whatever others do (nginx.go:790).
Served == OfProxy => Proxy!Served

\* The list a sync leaves behind is in the end that of the store (Equal, syncIngress).
ListFollowsStore == setup \in {"follows", "recreated"} => Proxy!ListFollowsStore

-----------------------------------------------------------------------------
(* What the run checks beside the properties of Tls. *)

\* Every client that has spoken is passed on or hung up on, and the proxy's list follows
\* the store (setupSSLProxy, syncIngress).
ProxyServes == Served /\ ListFollowsStore
=============================================================================
