----------------------------- MODULE Certificates ---------------------------
(***************************************************************************)
(* Certificates and OCSP responses in the shared dictionaries of NGINX.    *)
(* configuration.lua (handle_servers) stores what the controller POSTs,    *)
(* one entry after the other; certificate.lua picks the certificate of a   *)
(* TLS handshake, and staples a response that a timer has fetched.         *)
(*                                                                         *)
(* Handshakes and timers run in several worker processes: between any two  *)
(* accesses to a dictionary the others may change it.                      *)
(***************************************************************************)
EXTENDS Integers, FiniteSets

CONSTANTS
  Conns,         \* handshakes under way
  Asked,         \* server names as clients send them
  Canon,         \* Asked -> Names: lower case, without a trailing dot
  Names,         \* keys of certificate_servers, with Default ("_")
  Wild,          \* Names -> Names: the first label replaced by "*"
  Default,
  Uids, Pems,
  Broken,        \* PEMs that do not convert to DER or cannot be set
  EmptyUid, None,
  Stapling,      \* is_ocsp_stapling_enabled
  Setups         \* name -> what is POSTed and what happens

VARIABLE setup   \* the setup of this behaviour

Bodies      == Setups[setup].bodies    \* what the controller may POST: [servers, certificates]
Quiet       == Setups[setup].quiet     \* POSTs are not concurrent with handshakes and fetches
MaxPosts    == Setups[setup].posts     \* bound: POSTs
MaxFailures == Setups[setup].failures  \* bound: failing writes and evicted entries

VARIABLES
  servers,    \* certificate_servers: name -> uid
  data,       \* certificate_data: uid -> PEM
  ocsp,       \* ocsp_response_cache: uid -> [of: the PEM it is for, stale]
  post,       \* the POST under way: [body, names, uids, purge, failed]
  posted,     \* the bodies POSTed so far
  config,     \* the last body, when it was answered 201
  conn,       \* handshakes
  fetching,   \* timers: fetch_and_cache_ocsp_response(uid, PEM)
  posts, failures

dicts == <<servers, data, ocsp>>
vars == <<dicts, post, posted, config, conn, fetching, posts, failures>>

NoPost == [body |-> None, names |-> {}, uids |-> {}, purge |-> {}, failed |-> FALSE]
NoConn == [pc |-> "idle", name |-> None, uid |-> None, pem |-> None,
           found |-> None, stapled |-> None]
Results == {"idle", "served", "fake", "error"}

\* configureCertificates gives a body the certificate of every uid it mentions.
ProperBody(body) ==
  /\ DOMAIN body.servers \subseteq Names
  /\ DOMAIN body.certificates \subseteq Uids
  /\ \A n \in DOMAIN body.servers : body.servers[n] \in DOMAIN body.certificates \cup {EmptyUid}
  /\ \A u \in DOMAIN body.certificates : body.certificates[u] \in Pems

CertAssumption ==
  /\ None \notin Uids /\ None \notin Pems /\ None \notin [of : Pems, stale : BOOLEAN]
  /\ Canon \in [Asked -> Names] /\ Wild \in [Names -> Names] /\ Default \in Names
  /\ \A x \in DOMAIN Setups :
       /\ None \notin Setups[x].bodies
       /\ \A body \in Setups[x].bodies : ProperBody(body)
       /\ Setups[x].posts \in Nat /\ Setups[x].failures \in Nat

TypeOK ==
  /\ setup \in DOMAIN Setups
  /\ servers \in [Names -> Uids \cup {None}]
  /\ data \in [Uids -> Pems \cup {None}]
  /\ ocsp \in [Uids -> [of : Pems, stale : BOOLEAN] \cup {None}]
  /\ post \in [body : Bodies \cup {None}, names : SUBSET Names, uids : SUBSET Uids,
               purge : SUBSET Uids, failed : BOOLEAN]
  /\ posted \subseteq Bodies /\ config \in Bodies \cup {None}
  /\ conn \in [Conns -> [pc : Results \cup {"exact", "wildcard", "default", "data", "staple"},
                         name : Names \cup {None}, uid : Uids \cup {None},
                         pem : Pems \cup {None}, found : Pems \cup {None},
                         stapled : Pems \cup {None}]]
  /\ \A c \in Conns :
       /\ conn[c].pc \notin {"idle", "fake"} => conn[c].name \in Names
       /\ conn[c].pc \in {"data", "staple"} => conn[c].uid \in Uids
       /\ conn[c].pc \in {"staple", "served"} => conn[c].pem \in Pems \ Broken
  /\ fetching \subseteq Uids \X Pems
  /\ posts \in 0..MaxPosts /\ failures \in 0..MaxFailures

Init ==
  /\ setup \in DOMAIN Setups
  /\ servers = [n \in Names |-> None]
  /\ data = [u \in Uids |-> None]
  /\ ocsp = [u \in Uids |-> None]
  /\ post = NoPost /\ posted = {} /\ config = None
  /\ conn = [c \in Conns |-> NoConn] /\ fetching = {}
  /\ posts = 0 /\ failures = 0

-----------------------------------------------------------------------------
(* configuration.lua: handle_servers *)

\* configureCertificates POSTs the servers with their certificates.
Post(body) ==
  /\ post = NoPost /\ posts < MaxPosts
  /\ Quiet => fetching = {} /\ \A c \in Conns : conn[c].pc \in Results
  /\ post' = [NoPost EXCEPT !.body = body, !.names = DOMAIN body.servers,
                            !.uids = DOMAIN body.certificates]
  /\ posted' = posted \cup {body}
  /\ config' = None
  /\ posts' = posts + 1
  /\ UNCHANGED <<dicts, conn, fetching, failures>>

\* Mutant: a name that has lost its certificate keeps its entry.
StoreServerKeeps(n) ==
  /\ n \in post.names
  /\ LET uid == post.body.servers[n]
     IN  servers' = [servers EXCEPT ![n] = IF uid = EmptyUid THEN @ ELSE uid]
  /\ post' = [post EXCEPT !.names = @ \ {n}]
  /\ UNCHANGED <<data, ocsp, posted, config, conn, fetching, posts, failures>>

\* One server of the first loop: delete the entry, or set it.
StoreServer(n) ==
  /\ n \in post.names
  /\ LET uid == post.body.servers[n]
     IN  servers' = [servers EXCEPT ![n] = IF uid = EmptyUid THEN None ELSE uid]
  /\ post' = [post EXCEPT !.names = @ \ {n}]
  /\ UNCHANGED <<data, ocsp, posted, config, conn, fetching, posts, failures>>

\* A set that fails may have removed the old value.
StoreServerFails(n) ==
  /\ n \in post.names
  /\ post.body.servers[n] # EmptyUid
  /\ failures < MaxFailures
  /\ failures' = failures + 1
  /\ \E old \in {servers[n], None} : servers' = [servers EXCEPT ![n] = old]
  /\ post' = [post EXCEPT !.names = @ \ {n}, !.failed = TRUE]
  /\ UNCHANGED <<data, ocsp, posted, config, conn, fetching, posts>>

\* One certificate of the second loop.
StoreAndKeep(u) ==
  /\ post.names = {} /\ post.purge = {}
  /\ u \in post.uids
  /\ data' = [data EXCEPT ![u] = post.body.certificates[u]]
  /\ post' = [post EXCEPT !.uids = @ \ {u}]
  /\ UNCHANGED <<servers, ocsp, posted, config, conn, fetching, posts, failures>>

StoreCertificate(u) ==
  /\ post.names = {} /\ post.purge = {}
  /\ u \in post.uids
  /\ LET isRenew == data[u] \notin {None, post.body.certificates[u]}
     IN  post' = [post EXCEPT !.uids = @ \ {u}, !.purge = IF isRenew THEN {u} ELSE {}]
  /\ data' = [data EXCEPT ![u] = post.body.certificates[u]]
  /\ UNCHANGED <<servers, ocsp, posted, config, conn, fetching, posts, failures>>

StoreCertificateFails(u) ==
  /\ post.names = {} /\ post.purge = {}
  /\ u \in post.uids
  /\ failures < MaxFailures
  /\ failures' = failures + 1
  /\ \E old \in {data[u], None} : data' = [data EXCEPT ![u] = old]
  /\ post' = [post EXCEPT !.uids = @ \ {u}, !.failed = TRUE]
  /\ UNCHANGED <<servers, ocsp, posted, config, conn, fetching, posts>>

\* ocsp_response_cache:delete(uid), after certificate_data:set
Purge(u) ==
  /\ u \in post.purge
  /\ ocsp' = [ocsp EXCEPT ![u] = None]
  /\ post' = [post EXCEPT !.purge = {}]
  /\ UNCHANGED <<servers, data, posted, config, conn, fetching, posts, failures>>

\* 201, or 500 when a write failed
Answer ==
  /\ post.body # None
  /\ post.names = {} /\ post.uids = {} /\ post.purge = {}
  /\ config' = IF post.failed THEN None ELSE post.body
  /\ post' = NoPost
  /\ UNCHANGED <<dicts, posted, conn, fetching, posts, failures>>

\* A full dictionary drops its least recently used entry for a new one (forcible).
Evict ==
  /\ failures < MaxFailures
  /\ failures' = failures + 1
  /\ \/ /\ \E n \in Names : servers[n] # None /\ servers' = [servers EXCEPT ![n] = None]
        /\ UNCHANGED <<data, ocsp>>
     \/ /\ \E u \in Uids : data[u] # None /\ data' = [data EXCEPT ![u] = None]
        /\ UNCHANGED <<servers, ocsp>>
     \/ /\ \E u \in Uids : ocsp[u] # None /\ ocsp' = [ocsp EXCEPT ![u] = None]
        /\ UNCHANGED <<servers, data>>
  /\ UNCHANGED <<post, posted, config, conn, fetching, posts>>

-----------------------------------------------------------------------------
(* certificate.lua: call *)

\* ssl.server_name(); without SNI the name is "_", which is in Asked too.
Begin(c, asked) ==
  /\ conn[c].pc \in Results
  /\ Quiet => post = NoPost
  /\ conn' = [conn EXCEPT ![c] = [NoConn EXCEPT !.pc = "exact", !.name = Canon[asked]]]
  /\ UNCHANGED <<dicts, post, posted, config, fetching, posts, failures>>

\* The name a step of get_pem_cert_uid looks up, and the step after it.
LookedUp(c) ==
  CASE conn[c].pc = "exact" -> conn[c].name
    [] conn[c].pc = "wildcard" -> Wild[conn[c].name]
    [] conn[c].pc = "default" -> Default

AfterMiss(pc) ==
  CASE pc = "exact" -> "wildcard" [] pc = "wildcard" -> "default" [] pc = "default" -> "fake"

\* get_pem_cert_uid(hostname), then get_pem_cert_uid("_")
Lookup(c) ==
  /\ conn[c].pc \in {"exact", "wildcard", "default"}
  /\ LET uid == servers[LookedUp(c)]
     IN  conn' = [conn EXCEPT ![c] =
           [@ EXCEPT !.uid = uid, !.pc = IF uid = None THEN AfterMiss(conn[c].pc) ELSE "data"]]
  /\ UNCHANGED <<dicts, post, posted, config, fetching, posts, failures>>

\* certificate_data:get; without it the fake certificate stays; then the
\* certificate and its key are converted and set.
GetPem(c) ==
  /\ conn[c].pc = "data"
  /\ LET pem == data[conn[c].uid]
     IN  conn' = [conn EXCEPT ![c] = [@ EXCEPT
           !.pem = pem,
           !.pc = IF pem = None THEN "fake" ELSE IF pem \in Broken THEN "error"
                  ELSE IF Stapling THEN "staple" ELSE "served"]]
  /\ UNCHANGED <<dicts, post, posted, config, fetching, posts, failures>>

\* ocsp_staple
OcspStaple(c) ==
  /\ conn[c].pc = "staple"
  /\ LET uid == conn[c].uid
         cached == ocsp[uid]
         usable == cached # None /\ ~ cached.stale
     IN  /\ conn' = [conn EXCEPT ![c] = [@ EXCEPT
               !.pc = "served",
               !.found = IF cached = None THEN None ELSE cached.of,
               !.stapled = IF usable THEN cached.of ELSE None]]
         /\ fetching' = IF usable THEN fetching ELSE fetching \cup {<<uid, conn[c].pem>>}
  /\ UNCHANGED <<dicts, post, posted, config, posts, failures>>

\* fetch_and_cache_ocsp_response, when the responder's answer is valid for the
\* certificate the handshake had.
CacheResponse(u, pem) ==
  /\ <<u, pem>> \in fetching
  /\ ocsp' = [ocsp EXCEPT ![u] = [of |-> pem, stale |-> FALSE]]
  /\ fetching' = fetching \ {<<u, pem>>}
  /\ UNCHANGED <<servers, data, post, posted, config, conn, posts, failures>>

\* It returns early: no responder, no answer, an empty or invalid one, no memory.
FetchFails(u, pem) ==
  /\ <<u, pem>> \in fetching
  /\ fetching' = fetching \ {<<u, pem>>}
  /\ UNCHANGED <<dicts, post, posted, config, conn, posts, failures>>

\* Three days later.
Expire(u) ==
  /\ ocsp[u] # None
  /\ ~ ocsp[u].stale
  /\ ocsp' = [ocsp EXCEPT ![u].stale = TRUE]
  /\ UNCHANGED <<servers, data, post, posted, config, conn, fetching, posts, failures>>

-----------------------------------------------------------------------------
HandleServers ==
  \/ \E n \in Names : StoreServer(n) \/ StoreServerFails(n)
  \/ \E u \in Uids : StoreCertificate(u) \/ StoreCertificateFails(u) \/ Purge(u)
  \/ Answer

Call(c) == Lookup(c) \/ GetPem(c) \/ OcspStaple(c)

Step ==
  \/ \E body \in Bodies : Post(body)
  \/ HandleServers
  \/ Evict
  \/ \E c \in Conns : (\E asked \in Asked : Begin(c, asked)) \/ Call(c)
  \/ \E u \in Uids : Expire(u)
  \/ \E u \in Uids, pem \in Pems : CacheResponse(u, pem) \/ FetchFails(u, pem)

Next == Step /\ UNCHANGED setup

Spec == Init /\ [][Next]_<<vars, setup>>

-----------------------------------------------------------------------------
(* Properties *)

\* The uid a body gives to a name, None when it gives none.
Assigned(body, n) ==
  IF n \in DOMAIN body.servers /\ body.servers[n] # EmptyUid THEN body.servers[n] ELSE None

\* The names whose certificates a handshake may use, in this order.
Candidates(n) == <<n, Wild[n], Default>>

(***************************************************************************)
(* A handshake never gets the certificate of a foreign host: its uid is    *)
(* one that some POSTed configuration gave to the name the client asked    *)
(* for, to its wildcard or to "_" (get_pem_cert_uid and call), whatever    *)
(* POSTs, failing writes and evictions happen meanwhile.                   *)
(***************************************************************************)
NoForeignCertificate ==
  \A c \in Conns : conn[c].pc = "served" =>
    \E body \in posted, i \in 1..3 :
      Assigned(body, Candidates(conn[c].name)[i]) = conn[c].uid

\* The certificate that the last body, as it was POSTed, gives to a name: the one of the
\* name, else of its wildcard, else of "_".
Expected(n) ==
  LET uids  == [i \in 1..3 |-> Assigned(config, Candidates(n)[i])]
      hits  == {i \in 1..3 : uids[i] # None}
      first == CHOOSE i \in hits : \A j \in hits : i <= j
  IN  IF hits = {} THEN None ELSE config.certificates[uids[first]]

EndsAsExpected(c) ==
  conn[c].pc \notin Results /\ conn'[c].pc \in Results => conn'[c].pem = Expected(conn[c].name)

\* The last body was answered 201, and it mentions every candidate of the name that a body
\* has given a certificate to: handle_servers never looks at the other entries.
Settled(n) ==
  /\ config # None
  /\ \A i \in 1..3 : LET m == Candidates(n)[i]
                     IN  \/ m \in DOMAIN config.servers
                         \/ \A body \in posted : Assigned(body, m) = None

\* Without a POST meanwhile, a handshake ends with the most specific certificate of the
\* last body, in its current version; only a name for which it has none gets the fake
\* certificate (certificate_test.lua:70-130).
EndsAsConfigured ==
  \A c \in Conns : conn[c].pc \notin Results /\ Settled(conn[c].name) => EndsAsExpected(c)

\* POSTs do not overlap handshakes, and the dictionaries keep what they are given.
Orderly == Quiet /\ MaxFailures = 0

(***************************************************************************)
(* A stapled OCSP response is one for the certificate it is stapled to:    *)
(* handle_servers drops the cached response when a certificate is renewed  *)
(* (configuration.lua:104-115).                                            *)
(***************************************************************************)
StapleMatches ==
  \A c \in Conns : conn[c].stapled # None => conn[c].stapled = conn[c].pem

\* Both, the second one while POSTs do not overlap handshakes and nothing fails.
Coherent == NoForeignCertificate /\ (Quiet /\ failures = 0 => StapleMatches)

\* "uses default certificate when there's none found for given hostname"
\* (certificate_test.lua:112): as long as "_" has its certificate, no handshake is left
\* with the fake one.
FakeIsLast ==
  \A c \in Conns :
    conn'[c].pc = "fake" /\ conn[c].pc # "fake"
      => servers[Default] = None \/ data[servers[Default]] = None

(***************************************************************************)
(* "Serving stale response ensures that we don't serve another request     *)
(* without OCSP response when the cache entry expires"                     *)
(* (certificate.lua:194-196): a handshake that finds a response, stale or  *)
(* not, is served with it.                                                 *)
(***************************************************************************)
StaleIsServed ==
  \A c \in Conns : conn[c].found # None => conn[c].stapled # None
=============================================================================
