---------------------------------- MODULE Tls ----------------------------------
(***************************************************************************)
(* TLS at both ends of the controller: the certificates of handshakes in   *)
(* NGINX (Certificates) and the passthrough proxy (Proxy).  A behaviour is *)
(* one setup of one of the two; the variables of the other one stand still.*)
(***************************************************************************)
EXTENDS Certificates

CONSTANTS
  Chosen,                                                    \* the setups that are looked at
  NginxServer, Behind, Hosts, Services, Clients, ProxySetups \* SSLProxy

VARIABLES want, addr, pending, running, reading, writer, arr, len, proxied, mode, holding, clients,
          changes, wanted, had, ever, wrong                               \* SSLProxy

Proxy == INSTANCE SSLProxy WITH
  Default <- NginxServer, Wild <- Behind, Conns <- Clients, conn <- clients,
  Setups <- ProxySetups

\* Every setup has a name of its own.
ASSUME TlsAssumption ==
  /\ CertAssumption
  /\ Proxy!ProxyAssumption
  /\ DOMAIN Setups \cap DOMAIN ProxySetups = {}

-----------------------------------------------------------------------------
proxyVars == <<want, addr, pending, running, reading, writer, arr, len, proxied, mode, holding, clients,
               changes, wanted, had, ever, wrong>>
allVars   == <<setup, vars, proxyVars>>

OfCertificates == setup \in DOMAIN Setups
OfProxy        == setup \in DOMAIN ProxySetups

NoCertificates ==
  /\ servers = None /\ data = None /\ ocsp = None /\ post = None /\ posted = {} /\ config = None
  /\ conn = None /\ fetching = None /\ posts = 0 /\ failures = 0

\* The accept loop waits, the list is that of the store.
NoProxy ==
  /\ want = [h \in Hosts |-> None] /\ addr = [s \in Services |-> None]
  /\ pending = FALSE /\ running = want
  /\ reading = [g \in Proxy!Writers |-> None] /\ writer = reading
  /\ arr = [h \in {} |-> None] /\ len = 0 /\ proxied = FALSE /\ mode = FALSE /\ holding = None
  /\ clients = [c \in Clients |-> [st |-> "new", host |-> None, said |-> FALSE, server |-> None]]
  /\ changes = 0 /\ wanted = {} /\ had = {} /\ ever = {} /\ wrong = 0

TlsInit == /\ setup \in Chosen
           /\ \/ OfCertificates /\ Init /\ NoProxy
              \/ OfProxy /\ Proxy!Init /\ NoCertificates

TlsNext == \/ OfCertificates /\ Next /\ UNCHANGED proxyVars
           \/ OfProxy /\ Proxy!Next /\ UNCHANGED vars

TlsSpec == TlsInit /\ [][TlsNext]_allVars /\ Proxy!Fairness

-----------------------------------------------------------------------------
(* Properties of the two components, where they apply *)

\* The variables of the certificates and of the proxy have their types (certificate.lua, tcp.go).
TlsTypeOK == /\ OfCertificates => TypeOK
             /\ OfProxy => Proxy!TypeOK

\* A handshake never mixes: its certificate was given to its name by some POST, and its
\* staple is one for that certificate while no POST overlaps a handshake or a fetch
\* (handle_servers, get_pem_cert_uid and call, certificate.lua).
HandshakeIsCoherent == OfCertificates => Coherent

\* Without a POST meanwhile, in dictionaries that keep what they are given, a handshake
\* ends with the most specific certificate of the last body (handle_servers, call).
ConfiguredCertificate == [][OfCertificates /\ Orderly => EndsAsConfigured]_vars

\* The passthrough proxy passes a connection only to a service that its host has had, where
\* the service has been (unless reviews write its list as well), and a change of
\* use-proxy-protocol misses one connection at most (nginx.go, tcp.go).
ProxyIsFaithful == OfProxy => Proxy!ProxyIsFaithful
=============================================================================
