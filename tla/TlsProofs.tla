------------------------------ MODULE TlsProofs ------------------------------
(***************************************************************************)
(* Proofs about TLS: the certificate and the OCSP response of a handshake  *)
(* (Certificates), and the connections of the passthrough proxy (Proxy),   *)
(* for every set of names, bodies, hosts, services and connections.        *)
(***************************************************************************)
EXTENDS Tls, FiniteSetTheorems, TLAPS

-----------------------------------------------------------------------------
(* Certificates *)

\* What the assumptions on the setups say of the one of this behaviour.
CertGiven ==
  /\ setup \in DOMAIN Setups
  /\ None \notin Uids /\ None \notin Pems /\ None \notin [of : Pems, stale : BOOLEAN]
  /\ Canon \in [Asked -> Names] /\ Wild \in [Names -> Names] /\ Default \in Names
  /\ None \notin Bodies /\ \A body \in Bodies : ProperBody(body)
  /\ MaxPosts \in Nat /\ MaxFailures \in Nat

LEMMA CertsAreGiven == OfCertificates => CertGiven
BY TlsAssumption DEF OfCertificates, CertGiven, CertAssumption, Bodies, MaxPosts, MaxFailures

\* The setup of a behaviour does not change.
SameCerts == UNCHANGED <<setup, Bodies, Quiet, MaxPosts, MaxFailures>>

LEMMA SetupStays == UNCHANGED setup => SameCerts
BY DEF SameCerts, Bodies, Quiet, MaxPosts, MaxFailures

\* One of these bodies gives uid u to name n.
Gave(bodies, u, n) == \E body \in bodies : Assigned(body, n) = u

\* A POST goes through its own servers and certificates.
PostOK ==
  /\ post.body = None => post = NoPost
  /\ \A u, v \in post.purge : u = v
  /\ post.body # None =>
       /\ post.body \in posted
       /\ post.names \subseteq DOMAIN post.body.servers
       /\ post.uids \subseteq DOMAIN post.body.certificates

\* A handshake has its uid from a POST for one of its names.
FromPost(c) ==
  conn[c].pc \in {"data", "staple", "served"} =>
    \E n \in {conn[c].name, Wild[conn[c].name], Default} : Gave(posted, conn[c].uid, n)

\* Every uid comes from a POST, in the dictionary and in a handshake.
UidsOK ==
  /\ \A n \in Names : servers[n] # None => Gave(posted, servers[n], n)
  /\ \A c \in Conns : FromPost(c)

\* Handshakes and fetches that do not overlap POSTs.
QuietOK ==
  Quiet => post = NoPost \/ (fetching = {} /\ \A c \in Conns : conn[c].pc \in Results)

\* While nothing has failed, nothing is reported to have.
NoneFailed == failures = 0 => ~ post.failed

\* What a handshake or a timer carries along is still what the dictionaries hold.
StapleOK ==
  Quiet /\ failures = 0 =>
    /\ \A u \in Uids, pem \in Pems : <<u, pem>> \in fetching => data[u] = pem
    /\ \A u \in Uids : ocsp[u] # None => ocsp[u].of = data[u] \/ u \in post.purge
    /\ \A c \in Conns :
         /\ conn[c].pc = "staple" => conn[c].pem = data[conn[c].uid]
         /\ conn[c].pc \notin Results => conn[c].stapled = None
         /\ conn[c].stapled # None => conn[c].stapled = conn[c].pem

CertInv == TypeOK /\ PostOK /\ UidsOK /\ QuietOK /\ NoneFailed /\ StapleOK

\* The dictionaries hold what a body says, but for the names and uids yet to come.
Holds(body, names, uids) ==
  /\ \A n \in DOMAIN body.servers \ names : servers[n] = Assigned(body, n)
  /\ \A u \in DOMAIN body.certificates \ uids : data[u] = body.certificates[u]

\* The uid get_pem_cert_uid finds for a name, then for "_".
Best(n) == IF servers[n] # None THEN servers[n]
           ELSE IF servers[Wild[n]] # None THEN servers[Wild[n]] ELSE servers[Default]

\* The configuration is in the dictionaries, and a lookup has missed what it has passed.
ConfigOK ==
  Quiet /\ failures = 0 =>
    /\ post.body # None => config = None /\ Holds(post.body, post.names, post.uids)
    /\ config # None => Holds(config, {}, {})
    /\ \A c \in Conns :
         /\ conn[c].pc \in {"wildcard", "default"} => servers[conn[c].name] = None
         /\ conn[c].pc = "default" => servers[Wild[conn[c].name]] = None
         /\ conn[c].pc \in {"data", "staple"} => conn[c].uid = Best(conn[c].name)
         /\ conn[c].pc \in {"exact", "wildcard", "default", "data"} => conn[c].pem = None

PostType == [body : Bodies \cup {None}, names : SUBSET Names, uids : SUBSET Uids,
             purge : SUBSET Uids, failed : BOOLEAN]

ConnType == [pc : Results \cup {"exact", "wildcard", "default", "data", "staple"},
             name : Names \cup {None}, uid : Uids \cup {None}, pem : Pems \cup {None},
             found : Pems \cup {None}, stapled : Pems \cup {None}]

LEMMA CertTypes ==
  ASSUME SameCerts, CertGiven, TypeOK, PostOK, [Step]_vars
  PROVE  TypeOK'
<1> USE DEF CertGiven, ProperBody, SameCerts, TypeOK, NoPost, NoConn, Results
<1> post \in PostType /\ conn \in [Conns -> ConnType]
  BY DEF PostType, ConnType
<1>1. ASSUME NEW body \in Bodies, Post(body)
  PROVE  TypeOK'
  <2>1. post' \in PostType
    BY <1>1 DEF Post, PostType
  <2>2. posted' \subseteq Bodies /\ config' \in Bodies \cup {None} /\ posts' \in 0..MaxPosts
    BY <1>1 DEF Post
  <2> QED
    BY <1>1, <2>1, <2>2 DEF Post, PostType, dicts
<1>2. ASSUME NEW n \in Names, StoreServer(n)
  PROVE  TypeOK'
  <2>1. post' \in PostType
    BY <1>2 DEF StoreServer, PostType
  <2>2. n \in DOMAIN post.body.servers /\ post.body \in Bodies
    BY <1>2 DEF StoreServer, PostOK
  <2>3. servers' \in [Names -> Uids \cup {None}]
    BY <1>2, <2>2 DEF StoreServer
  <2> QED
    BY <1>2, <2>1, <2>3 DEF StoreServer, PostType
<1>3. ASSUME NEW n \in Names, StoreServerFails(n)
  PROVE  TypeOK'
  <2>1. post' \in PostType
    BY <1>3 DEF StoreServerFails, PostType
  <2>2. servers' \in [Names -> Uids \cup {None}] /\ failures' \in 0..MaxFailures
    BY <1>3 DEF StoreServerFails
  <2> QED
    BY <1>3, <2>1, <2>2 DEF StoreServerFails, PostType
<1>4. ASSUME NEW u \in Uids, StoreCertificate(u)
  PROVE  TypeOK'
  <2>1. post' \in PostType
    BY <1>4 DEF StoreCertificate, PostType
  <2>2. u \in DOMAIN post.body.certificates /\ post.body \in Bodies
    BY <1>4 DEF StoreCertificate, PostOK
  <2>3. data' \in [Uids -> Pems \cup {None}]
    BY <1>4, <2>2 DEF StoreCertificate
  <2> QED
    BY <1>4, <2>1, <2>3 DEF StoreCertificate, PostType
<1>5. ASSUME NEW u \in Uids, StoreCertificateFails(u)
  PROVE  TypeOK'
  <2>1. post' \in PostType
    BY <1>5 DEF StoreCertificateFails, PostType
  <2>2. data' \in [Uids -> Pems \cup {None}] /\ failures' \in 0..MaxFailures
    BY <1>5 DEF StoreCertificateFails
  <2> QED
    BY <1>5, <2>1, <2>2 DEF StoreCertificateFails, PostType
<1>6. ASSUME NEW u \in Uids, Purge(u)
  PROVE  TypeOK'
  BY <1>6 DEF Purge
<1>7. ASSUME Answer
  PROVE  TypeOK'
  BY <1>7 DEF Answer, dicts
<1>8. ASSUME Evict
  PROVE  TypeOK'
  BY <1>8 DEF Evict
<1>9. ASSUME NEW c \in Conns, NEW asked \in Asked, Begin(c, asked)
  PROVE  TypeOK'
  BY <1>9 DEF Begin, dicts
<1>10. ASSUME NEW c \in Conns, Lookup(c)
  PROVE  TypeOK'
  <2> DEFINE uid == servers[LookedUp(c)]
             pc == IF uid = None THEN AfterMiss(conn[c].pc) ELSE "data"
  <2>1. uid \in Uids \cup {None}
    BY <1>10 DEF Lookup, LookedUp
  <2>2. /\ pc \in {"wildcard", "default", "data", "fake"}
        /\ pc = "data" => uid \in Uids
        /\ conn[c].name \in Names
    BY <1>10, <2>1 DEF Lookup, AfterMiss
  <2>3. conn' = [conn EXCEPT ![c] = [conn[c] EXCEPT !.uid = uid, !.pc = pc]]
    BY <1>10 DEF Lookup
  <2> HIDE DEF uid, pc
  <2>4. conn' \in [Conns -> ConnType]
    <3>1. [conn[c] EXCEPT !.uid = uid, !.pc = pc] \in ConnType
      <4>1. conn[c] \in ConnType
        OBVIOUS
      <4> QED
        BY ONLY <2>1, <2>2, <4>1 DEF ConnType, Results
    <3> QED
      BY ONLY <3>1, <2>3, conn \in [Conns -> ConnType]
  <2>5. \A d \in Conns :
           /\ conn'[d].pc \notin {"idle", "fake"} => conn'[d].name \in Names
           /\ conn'[d].pc \in {"data", "staple"} => conn'[d].uid \in Uids
           /\ conn'[d].pc \in {"staple", "served"} => conn'[d].pem \in Pems \ Broken
    BY <2>1, <2>2, <2>3 DEF ConnType
  <2> QED
    BY <1>10, <2>4, <2>5 DEF Lookup, dicts, ConnType
<1>11. ASSUME NEW c \in Conns, GetPem(c)
  PROVE  TypeOK'
  <2> DEFINE pem == data[conn[c].uid]
             pc == IF pem = None THEN "fake" ELSE IF pem \in Broken THEN "error"
                   ELSE IF Stapling THEN "staple" ELSE "served"
  <2>1. pem \in Pems \cup {None} /\ conn[c].name \in Names
    BY <1>11 DEF GetPem
  <2>2. /\ pc \in {"fake", "error", "staple", "served"}
        /\ pc \in {"staple", "served"} => pem \in Pems \ Broken
    BY <2>1
  <2>3. conn' = [conn EXCEPT ![c] = [conn[c] EXCEPT !.pem = pem, !.pc = pc]]
    BY <1>11 DEF GetPem
  <2> HIDE DEF pem, pc
  <2>4. conn' \in [Conns -> ConnType]
    <3>1. [conn[c] EXCEPT !.pem = pem, !.pc = pc] \in ConnType
      <4>1. conn[c] \in ConnType
        OBVIOUS
      <4> QED
        BY ONLY <2>1, <2>2, <4>1 DEF ConnType, Results
    <3> QED
      BY ONLY <3>1, <2>3, conn \in [Conns -> ConnType]
  <2>5. \A d \in Conns :
           /\ conn'[d].pc \notin {"idle", "fake"} => conn'[d].name \in Names
           /\ conn'[d].pc \in {"data", "staple"} => conn'[d].uid \in Uids
           /\ conn'[d].pc \in {"staple", "served"} => conn'[d].pem \in Pems \ Broken
    <3>1. conn[c].uid \in Uids
      BY <1>11 DEF GetPem
    <3> QED
      BY <2>1, <2>2, <2>3, <3>1 DEF ConnType
  <2> QED
    BY <1>11, <2>4, <2>5 DEF GetPem, dicts, ConnType
<1>12. ASSUME NEW c \in Conns, OcspStaple(c)
  PROVE  TypeOK'
  <2>1. conn[c].uid \in Uids /\ conn[c].pem \in Pems \ Broken /\ conn[c].name \in Names
    BY <1>12 DEF OcspStaple
  <2>2. ocsp[conn[c].uid] # None => ocsp[conn[c].uid].of \in Pems
    BY <2>1
  <2> DEFINE cached == ocsp[conn[c].uid]
             found == IF cached = None THEN None ELSE cached.of
             stapled == IF cached # None /\ ~ cached.stale THEN cached.of ELSE None
             new == [conn[c] EXCEPT !.pc = "served", !.found = found, !.stapled = stapled]
  <2>3. conn' = [conn EXCEPT ![c] = new]
    BY <1>12 DEF OcspStaple
  <2>4. conn' \in [Conns -> ConnType]
    <3>1. found \in Pems \cup {None} /\ stapled \in Pems \cup {None} /\ conn[c] \in ConnType
      BY <2>2
    <3> HIDE DEF found, stapled
    <3>2. new \in ConnType
      BY ONLY <3>1 DEF ConnType, Results
    <3> HIDE DEF new
    <3> QED
      BY ONLY <3>2, <2>3, conn \in [Conns -> ConnType]
  <2>5. \A d \in Conns :
           /\ conn'[d].pc \notin {"idle", "fake"} => conn'[d].name \in Names
           /\ conn'[d].pc \in {"data", "staple"} => conn'[d].uid \in Uids
           /\ conn'[d].pc \in {"staple", "served"} => conn'[d].pem \in Pems \ Broken
    BY <2>1, <2>3 DEF ConnType
  <2>6. fetching' \subseteq Uids \X Pems
    BY <1>12, <2>1 DEF OcspStaple
  <2> QED
    BY <1>12, <2>4, <2>5, <2>6 DEF OcspStaple, dicts, ConnType
<1>13. ASSUME NEW u \in Uids, Expire(u)
  PROVE  TypeOK'
  <2>1. ocsp' \in [Uids -> [of : Pems, stale : BOOLEAN] \cup {None}]
    <3>1. ocsp[u] \in [of : Pems, stale : BOOLEAN]
      BY <1>13 DEF Expire
    <3>2. [ocsp[u] EXCEPT !.stale = TRUE] \in [of : Pems, stale : BOOLEAN]
      BY ONLY <3>1
    <3> QED
      BY <1>13, <3>2 DEF Expire
  <2> QED
    BY <1>13, <2>1 DEF Expire
<1>14. ASSUME NEW u \in Uids, NEW pem \in Pems, CacheResponse(u, pem)
  PROVE  TypeOK'
  BY <1>14 DEF CacheResponse
<1>15. ASSUME NEW u \in Uids, NEW pem \in Pems, FetchFails(u, pem)
  PROVE  TypeOK'
  BY <1>15 DEF FetchFails, dicts
<1>16. ASSUME UNCHANGED vars
  PROVE  TypeOK'
  BY <1>16 DEF vars, dicts
<1> QED
  BY <1>1, <1>2, <1>3, <1>4, <1>5, <1>6, <1>7, <1>8, <1>9, <1>10, <1>11, <1>12, <1>13, <1>14,
     <1>15, <1>16 DEF Step, HandleServers, Call

\* What a step of a handshake does to the handshakes.
LEMMA BeginEffect ==
  ASSUME TypeOK, NEW c \in Conns, NEW asked \in Asked, Begin(c, asked)
  PROVE  /\ \A d \in Conns \ {c} : conn'[d] = conn[d]
         /\ conn'[c].pc = "exact" /\ conn'[c].name = Canon[asked]
         /\ conn'[c].uid = None /\ conn'[c].pem = None /\ conn'[c].stapled = None
BY DEF TypeOK, Begin, NoConn

LEMMA LookupEffect ==
  ASSUME TypeOK, NEW c \in Conns, Lookup(c)
  PROVE  /\ \A d \in Conns \ {c} : conn'[d] = conn[d]
         /\ conn[c].pc \in {"exact", "wildcard", "default"}
         /\ conn'[c].uid = servers[LookedUp(c)]
         /\ conn'[c].pc = IF servers[LookedUp(c)] = None THEN AfterMiss(conn[c].pc) ELSE "data"
         /\ conn'[c].name = conn[c].name /\ conn'[c].pem = conn[c].pem
         /\ conn'[c].stapled = conn[c].stapled
BY DEF TypeOK, Lookup

LEMMA GetPemEffect ==
  ASSUME TypeOK, NEW c \in Conns, GetPem(c)
  PROVE  /\ \A d \in Conns \ {c} : conn'[d] = conn[d]
         /\ conn[c].pc = "data"
         /\ conn'[c].pem = data[conn[c].uid]
         /\ conn'[c].pc \in {"fake", "error", "staple", "served"}
         /\ conn'[c].pc = "fake" <=> data[conn[c].uid] = None
         /\ conn'[c].name = conn[c].name /\ conn'[c].uid = conn[c].uid
         /\ conn'[c].stapled = conn[c].stapled
BY DEF TypeOK, GetPem

LEMMA OcspStapleEffect ==
  ASSUME TypeOK, NEW c \in Conns, OcspStaple(c)
  PROVE  /\ \A d \in Conns \ {c} : conn'[d] = conn[d]
         /\ conn[c].pc = "staple" /\ conn'[c].pc = "served"
         /\ conn'[c].name = conn[c].name /\ conn'[c].uid = conn[c].uid
         /\ conn'[c].pem = conn[c].pem
         /\ conn'[c].stapled # None =>
              ocsp[conn[c].uid] # None /\ conn'[c].stapled = ocsp[conn[c].uid].of
         /\ fetching' \subseteq fetching \cup {<<conn[c].uid, conn[c].pem>>}
<1>1. \A d \in Conns \ {c} : conn'[d] = conn[d]
  BY DEF TypeOK, OcspStaple
<1>2. /\ conn'[c].pc = "served" /\ conn'[c].name = conn[c].name /\ conn'[c].uid = conn[c].uid
      /\ conn'[c].pem = conn[c].pem
  BY DEF TypeOK, OcspStaple
<1>3. conn'[c].stapled = IF ocsp[conn[c].uid] # None /\ ~ ocsp[conn[c].uid].stale
                         THEN ocsp[conn[c].uid].of ELSE None
  BY DEF TypeOK, OcspStaple
<1>4. conn[c].pc = "staple" /\ fetching' \subseteq fetching \cup {<<conn[c].uid, conn[c].pem>>}
  BY DEF OcspStaple
<1> QED
  BY <1>1, <1>2, <1>3, <1>4

\* The names a lookup asks the dictionary for.
LEMMA LookedUpNames ==
  ASSUME CertGiven, TypeOK, NEW c \in Conns, Lookup(c)
  PROVE  /\ LookedUp(c) \in {conn[c].name, Wild[conn[c].name], Default} \cap Names
         /\ AfterMiss(conn[c].pc) \in {"wildcard", "default", "fake"}
BY LookupEffect DEF CertGiven, TypeOK, LookedUp, AfterMiss

LEMMA CertPosts ==
  ASSUME SameCerts, CertGiven, TypeOK, PostOK, [Step]_vars
  PROVE  PostOK'
<1> USE DEF CertGiven, ProperBody, SameCerts, TypeOK, PostOK, NoPost
<1>1. ASSUME NEW body \in Bodies, Post(body)
  PROVE  PostOK'
  BY <1>1 DEF Post, NoPost, dicts
<1>2. ASSUME NEW n \in Names, StoreServer(n)
  PROVE  PostOK'
  BY <1>2 DEF StoreServer, dicts
<1>3. ASSUME NEW n \in Names, StoreServerFails(n)
  PROVE  PostOK'
  BY <1>3 DEF StoreServerFails, dicts
<1>4. ASSUME NEW u \in Uids, StoreCertificate(u)
  PROVE  PostOK'
  BY <1>4 DEF StoreCertificate, dicts
<1>5. ASSUME NEW u \in Uids, StoreCertificateFails(u)
  PROVE  PostOK'
  BY <1>5 DEF StoreCertificateFails, dicts
<1>6. ASSUME NEW u \in Uids, Purge(u)
  PROVE  PostOK'
  BY <1>6 DEF Purge, dicts
<1>7. ASSUME Answer
  PROVE  PostOK'
  BY <1>7 DEF Answer, NoPost, dicts
<1>8. ASSUME Evict
  PROVE  PostOK'
  BY <1>8 DEF Evict, dicts
<1>9. ASSUME NEW c \in Conns, NEW asked \in Asked, Begin(c, asked)
  PROVE  PostOK'
  BY <1>9 DEF Begin, NoConn, Results, NoPost, dicts
<1>10. ASSUME NEW c \in Conns, Lookup(c)
  PROVE  PostOK'
  BY <1>10 DEF Lookup, LookedUp, AfterMiss, Results, dicts
<1>11. ASSUME NEW c \in Conns, GetPem(c)
  PROVE  PostOK'
  BY <1>11 DEF GetPem, Results, dicts
<1>12. ASSUME NEW c \in Conns, OcspStaple(c)
  PROVE  PostOK'
  BY <1>12 DEF OcspStaple, Results, dicts
<1>13. ASSUME NEW u \in Uids, Expire(u)
  PROVE  PostOK'
  BY <1>13 DEF Expire, dicts
<1>14. ASSUME NEW u \in Uids, NEW pem \in Pems, CacheResponse(u, pem)
  PROVE  PostOK'
  BY <1>14 DEF CacheResponse, dicts
<1>15. ASSUME NEW u \in Uids, NEW pem \in Pems, FetchFails(u, pem)
  PROVE  PostOK'
  BY <1>15 DEF FetchFails, dicts
<1>16. ASSUME UNCHANGED vars
  PROVE  PostOK'
  BY <1>16 DEF vars, dicts
<1> QED
  BY <1>1, <1>2, <1>3, <1>4, <1>5, <1>6, <1>7, <1>8, <1>9, <1>10, <1>11, <1>12, <1>13, <1>14,
     <1>15, <1>16 DEF Step, HandleServers, Call

LEMMA CertUids ==
  ASSUME SameCerts, CertGiven, TypeOK, PostOK, UidsOK, [Step]_vars
  PROVE  UidsOK'
<1>1. \A u, n : Gave(posted, u, n) => Gave(posted', u, n)
  BY DEF Step, HandleServers, Call, vars, Gave, Post, StoreServer, StoreServerFails,
         StoreCertificate, StoreCertificateFails, Purge, Answer, Evict, Begin, Lookup, GetPem,
         OcspStaple, Expire, CacheResponse, FetchFails
<1>2. ASSUME UNCHANGED servers
      PROVE  \A n \in Names : servers'[n] # None => Gave(posted', servers'[n], n)
  BY <1>1, <1>2 DEF UidsOK
<1>3. ASSUME UNCHANGED conn
      PROVE  \A c \in Conns : FromPost(c)'
  BY <1>1, <1>3 DEF UidsOK, FromPost
<1>4. ASSUME NEW n \in Names, StoreServer(n)
      PROVE  UidsOK'
  <2>1. post.body \in posted /\ n \in DOMAIN post.body.servers /\ posted' = posted
    BY <1>4 DEF StoreServer, PostOK, NoPost, CertGiven, ProperBody, TypeOK
  <2>2. servers' = [servers EXCEPT ![n] = Assigned(post.body, n)]
    BY <1>4, <2>1 DEF StoreServer, Assigned
  <2>3. Gave(posted', servers'[n], n)
    BY <2>1, <2>2 DEF Gave, TypeOK
  <2>4. ASSUME NEW m \in Names, servers'[m] # None
        PROVE  Gave(posted', servers'[m], m)
    BY <1>1, <2>2, <2>3, <2>4 DEF UidsOK, TypeOK
  <2> QED
    BY <1>3, <1>4, <2>4 DEF UidsOK, StoreServer
<1>5. ASSUME NEW n \in Names, StoreServerFails(n)
      PROVE  UidsOK'
  <2>1. \A m \in Names : servers'[m] \in {servers[m], None}
    BY <1>5 DEF StoreServerFails, TypeOK
  <2> QED
    BY <1>1, <1>3, <1>5, <2>1 DEF UidsOK, StoreServerFails
<1>6. ASSUME Evict
      PROVE  UidsOK'
  <2>1. \A m \in Names : servers'[m] \in {servers[m], None}
    BY <1>6 DEF Evict, TypeOK
  <2> QED
    BY <1>1, <1>3, <1>6, <2>1 DEF UidsOK, Evict
<1>7. ASSUME NEW c \in Conns, NEW asked \in Asked, Begin(c, asked)
      PROVE  UidsOK'
  <2>1. ASSUME NEW d \in Conns
        PROVE  FromPost(d)'
    BY <1>1, <1>7, BeginEffect DEF FromPost, UidsOK
  <2> QED
    BY <1>2, <1>7, <2>1 DEF UidsOK, Begin, dicts
<1>8. ASSUME NEW c \in Conns, Lookup(c)
      PROVE  UidsOK'
  <2>1. FromPost(c)'
    <3> SUFFICES ASSUME conn'[c].pc \in {"data", "staple", "served"}
                 PROVE  \E n \in {conn'[c].name, Wild[conn'[c].name], Default} :
                          Gave(posted', conn'[c].uid, n)
      BY DEF FromPost
    <3>1. servers[LookedUp(c)] # None
      BY <1>8, LookupEffect, LookedUpNames
    <3> QED
      BY <1>1, <1>8, <3>1, LookupEffect, LookedUpNames DEF UidsOK
  <2>2. ASSUME NEW d \in Conns \ {c}
        PROVE  FromPost(d)'
    BY <1>1, <1>8, LookupEffect DEF FromPost, UidsOK
  <2> QED
    BY <1>2, <1>8, <2>1, <2>2 DEF UidsOK, Lookup, dicts
<1>9. ASSUME NEW c \in Conns, GetPem(c)
      PROVE  UidsOK'
  <2>1. ASSUME NEW d \in Conns
        PROVE  FromPost(d)'
    BY <1>1, <1>9, GetPemEffect DEF FromPost, UidsOK
  <2> QED
    BY <1>2, <1>9, <2>1 DEF UidsOK, GetPem, dicts
<1>10. ASSUME NEW c \in Conns, OcspStaple(c)
       PROVE  UidsOK'
  <2>1. ASSUME NEW d \in Conns
        PROVE  FromPost(d)'
    BY <1>1, <1>10, OcspStapleEffect DEF FromPost, UidsOK
  <2> QED
    BY <1>2, <1>10, <2>1 DEF UidsOK, OcspStaple, dicts
<1>11. ASSUME UNCHANGED <<servers, conn>>
       PROVE  UidsOK'
  BY <1>2, <1>3, <1>11 DEF UidsOK
<1> QED
  BY <1>4, <1>5, <1>6, <1>7, <1>8, <1>9, <1>10, <1>11
  DEF Step, HandleServers, Call, vars, dicts, Post, StoreCertificate, StoreCertificateFails,
      Purge, Answer, Expire, CacheResponse, FetchFails

LEMMA CertQuiet ==
  ASSUME SameCerts, CertGiven, TypeOK, PostOK, QuietOK, [Step]_vars
  PROVE  QuietOK'
<1> USE DEF CertGiven, ProperBody, SameCerts, TypeOK, PostOK, QuietOK, Results
<1>1. ASSUME NEW body \in Bodies, Post(body)
  PROVE  QuietOK'
  BY <1>1 DEF Post, NoPost, dicts
<1>2. ASSUME NEW n \in Names, StoreServer(n)
  PROVE  QuietOK'
  BY <1>2 DEF StoreServer, NoPost
<1>3. ASSUME NEW n \in Names, StoreServerFails(n)
  PROVE  QuietOK'
  BY <1>3 DEF StoreServerFails, NoPost
<1>4. ASSUME NEW u \in Uids, StoreCertificate(u)
  PROVE  QuietOK'
  BY <1>4 DEF StoreCertificate, NoPost
<1>5. ASSUME NEW u \in Uids, StoreCertificateFails(u)
  PROVE  QuietOK'
  BY <1>5 DEF StoreCertificateFails, NoPost
<1>6. ASSUME NEW u \in Uids, Purge(u)
  PROVE  QuietOK'
  BY <1>6 DEF Purge, NoPost
<1>7. ASSUME Answer
  PROVE  QuietOK'
  BY <1>7 DEF Answer, NoPost, dicts
<1>8. ASSUME Evict
  PROVE  QuietOK'
  BY <1>8 DEF Evict, dicts
<1>9. ASSUME NEW c \in Conns, NEW asked \in Asked, Begin(c, asked)
  PROVE  QuietOK'
  BY <1>9 DEF Begin, NoConn, Results, NoPost, dicts
<1>10. ASSUME NEW c \in Conns, Lookup(c)
  PROVE  QuietOK'
  BY <1>10 DEF Lookup, LookedUp, AfterMiss, Results, dicts
<1>11. ASSUME NEW c \in Conns, GetPem(c)
  PROVE  QuietOK'
  BY <1>11 DEF GetPem, Results, dicts
<1>12. ASSUME NEW c \in Conns, OcspStaple(c)
  PROVE  QuietOK'
  BY <1>12 DEF OcspStaple, Results, dicts
<1>13. ASSUME NEW u \in Uids, Expire(u)
  PROVE  QuietOK'
  BY <1>13 DEF Expire, dicts
<1>14. ASSUME NEW u \in Uids, NEW pem \in Pems, CacheResponse(u, pem)
  PROVE  QuietOK'
  BY <1>14 DEF CacheResponse, dicts
<1>15. ASSUME NEW u \in Uids, NEW pem \in Pems, FetchFails(u, pem)
  PROVE  QuietOK'
  BY <1>15 DEF FetchFails, dicts
<1>16. ASSUME UNCHANGED vars
  PROVE  QuietOK'
  BY <1>16 DEF vars, dicts
<1> QED
  BY <1>1, <1>2, <1>3, <1>4, <1>5, <1>6, <1>7, <1>8, <1>9, <1>10, <1>11, <1>12, <1>13, <1>14,
     <1>15, <1>16 DEF Step, HandleServers, Call

LEMMA CertFailed ==
  ASSUME SameCerts, CertGiven, TypeOK, NoneFailed, [Step]_vars
  PROVE  NoneFailed'
<1> USE DEF CertGiven, ProperBody, SameCerts, TypeOK, NoneFailed
<1>1. ASSUME NEW body \in Bodies, Post(body)
  PROVE  NoneFailed'
  BY <1>1 DEF Post, NoPost, dicts
<1>2. ASSUME NEW n \in Names, StoreServer(n)
  PROVE  NoneFailed'
  BY <1>2 DEF StoreServer, dicts
<1>3. ASSUME NEW n \in Names, StoreServerFails(n)
  PROVE  NoneFailed'
  BY <1>3 DEF StoreServerFails, dicts
<1>4. ASSUME NEW u \in Uids, StoreCertificate(u)
  PROVE  NoneFailed'
  BY <1>4 DEF StoreCertificate, dicts
<1>5. ASSUME NEW u \in Uids, StoreCertificateFails(u)
  PROVE  NoneFailed'
  BY <1>5 DEF StoreCertificateFails, dicts
<1>6. ASSUME NEW u \in Uids, Purge(u)
  PROVE  NoneFailed'
  BY <1>6 DEF Purge, dicts
<1>7. ASSUME Answer
  PROVE  NoneFailed'
  BY <1>7 DEF Answer, NoPost, dicts
<1>8. ASSUME Evict
  PROVE  NoneFailed'
  BY <1>8 DEF Evict, dicts
<1>9. ASSUME NEW c \in Conns, NEW asked \in Asked, Begin(c, asked)
  PROVE  NoneFailed'
  BY <1>9 DEF Begin, NoConn, Results, NoPost, dicts
<1>10. ASSUME NEW c \in Conns, Lookup(c)
  PROVE  NoneFailed'
  BY <1>10 DEF Lookup, LookedUp, AfterMiss, Results, dicts
<1>11. ASSUME NEW c \in Conns, GetPem(c)
  PROVE  NoneFailed'
  BY <1>11 DEF GetPem, Results, dicts
<1>12. ASSUME NEW c \in Conns, OcspStaple(c)
  PROVE  NoneFailed'
  BY <1>12 DEF OcspStaple, Results, dicts
<1>13. ASSUME NEW u \in Uids, Expire(u)
  PROVE  NoneFailed'
  BY <1>13 DEF Expire, dicts
<1>14. ASSUME NEW u \in Uids, NEW pem \in Pems, CacheResponse(u, pem)
  PROVE  NoneFailed'
  BY <1>14 DEF CacheResponse, dicts
<1>15. ASSUME NEW u \in Uids, NEW pem \in Pems, FetchFails(u, pem)
  PROVE  NoneFailed'
  BY <1>15 DEF FetchFails, dicts
<1>16. ASSUME UNCHANGED vars
  PROVE  NoneFailed'
  BY <1>16 DEF vars, dicts
<1> QED
  BY <1>1, <1>2, <1>3, <1>4, <1>5, <1>6, <1>7, <1>8, <1>9, <1>10, <1>11, <1>12, <1>13, <1>14,
     <1>15, <1>16 DEF Step, HandleServers, Call

LEMMA CertStaples ==
  ASSUME SameCerts, CertGiven, TypeOK, PostOK, QuietOK, StapleOK, [Step]_vars
  PROVE  StapleOK'
<1> USE DEF CertGiven, ProperBody, SameCerts, TypeOK, PostOK, QuietOK, StapleOK, Results
<1>1. ASSUME NEW body \in Bodies, Post(body)
  PROVE  StapleOK'
  BY <1>1 DEF Post, NoPost, dicts
<1>2. ASSUME NEW n \in Names, StoreServer(n)
  PROVE  StapleOK'
  BY <1>2 DEF StoreServer, dicts
<1>3. ASSUME NEW n \in Names, StoreServerFails(n)
  PROVE  StapleOK'
  BY <1>3 DEF StoreServerFails, dicts
<1>4. ASSUME NEW u \in Uids, StoreCertificate(u)
  PROVE  StapleOK'
  <2> SUFFICES ASSUME Quiet, failures = 0
               PROVE  StapleOK'
    BY <1>4 DEF StoreCertificate
  <2>1. post # NoPost
    BY <1>4 DEF StoreCertificate, NoPost
  <2>2. fetching' = {} /\ conn' = conn /\ ocsp' = ocsp /\ \A c \in Conns : conn[c].pc \in Results
    BY <1>4, <2>1 DEF StoreCertificate
  <2>3. ASSUME NEW v \in Uids, ocsp[v] # None
        PROVE  ocsp[v].of = data'[v] \/ v \in post'.purge
    <3>1. ocsp[v].of = data[v] /\ data[v] # None
      BY <1>4, <2>3 DEF StoreCertificate
    <3>2. CASE v # u
      BY <1>4, <3>1, <3>2 DEF StoreCertificate
    <3>3. CASE v = u /\ data[u] = post.body.certificates[u]
      BY <1>4, <3>1, <3>3 DEF StoreCertificate
    <3>4. CASE v = u /\ data[u] # post.body.certificates[u]
      BY <1>4, <3>1, <3>4 DEF StoreCertificate
    <3> QED
      BY <3>2, <3>3, <3>4
  <2> QED
    BY <2>2, <2>3
<1>5. ASSUME NEW u \in Uids, StoreCertificateFails(u)
  PROVE  StapleOK'
  BY <1>5 DEF StoreCertificateFails, dicts
<1>6. ASSUME NEW u \in Uids, Purge(u)
  PROVE  StapleOK'
  <2> SUFFICES ASSUME Quiet, failures = 0
               PROVE  StapleOK'
    BY <1>6 DEF Purge
  <2>1. post # NoPost
    BY <1>6 DEF Purge, NoPost
  <2>2. fetching' = {} /\ conn' = conn /\ data' = data /\ \A c \in Conns : conn[c].pc \in Results
    BY <1>6, <2>1 DEF Purge
  <2>3. ASSUME NEW v \in Uids, ocsp'[v] # None
        PROVE  ocsp'[v].of = data'[v]
    BY <1>6, <2>3, <2>2 DEF Purge
  <2> QED
    BY <2>2, <2>3
<1>7. ASSUME Answer
  PROVE  StapleOK'
  BY <1>7 DEF Answer, NoPost, dicts
<1>8. ASSUME Evict
  PROVE  StapleOK'
  BY <1>8 DEF Evict, dicts
<1>9. ASSUME NEW c \in Conns, NEW asked \in Asked, Begin(c, asked)
  PROVE  StapleOK'
  BY <1>9 DEF Begin, NoConn, Results, NoPost, dicts
<1>10. ASSUME NEW c \in Conns, Lookup(c)
  PROVE  StapleOK'
  <2>1. data' = data /\ ocsp' = ocsp /\ post' = post /\ failures' = failures /\ fetching' = fetching
    BY <1>10 DEF Lookup, dicts
  <2> QED
    BY <1>10, <2>1, LookupEffect, LookedUpNames
<1>11. ASSUME NEW c \in Conns, GetPem(c)
  PROVE  StapleOK'
  <2>1. data' = data /\ ocsp' = ocsp /\ post' = post /\ failures' = failures /\ fetching' = fetching
    BY <1>11 DEF GetPem, dicts
  <2> QED
    BY <1>11, <2>1, GetPemEffect
<1>12. ASSUME NEW c \in Conns, OcspStaple(c)
  PROVE  StapleOK'
  <2>1. data' = data /\ ocsp' = ocsp /\ post' = post /\ failures' = failures
    BY <1>12 DEF OcspStaple, dicts
  <2> QED
    BY <1>12, <2>1, OcspStapleEffect DEF NoPost
<1>13. ASSUME NEW u \in Uids, Expire(u)
  PROVE  StapleOK'
  BY <1>13 DEF Expire, dicts
<1>14. ASSUME NEW u \in Uids, NEW pem \in Pems, CacheResponse(u, pem)
  PROVE  StapleOK'
  BY <1>14 DEF CacheResponse, dicts
<1>15. ASSUME NEW u \in Uids, NEW pem \in Pems, FetchFails(u, pem)
  PROVE  StapleOK'
  BY <1>15 DEF FetchFails, dicts
<1>16. ASSUME UNCHANGED vars
  PROVE  StapleOK'
  BY <1>16 DEF vars, dicts
<1> QED
  BY <1>1, <1>2, <1>3, <1>4, <1>5, <1>6, <1>7, <1>8, <1>9, <1>10, <1>11, <1>12, <1>13, <1>14,
     <1>15, <1>16 DEF Step, HandleServers, Call

LEMMA CertConfig ==
  ASSUME SameCerts, CertGiven, TypeOK, PostOK, QuietOK, NoneFailed, ConfigOK, [Step]_vars
  PROVE  ConfigOK'
<1> USE DEF CertGiven, ProperBody, SameCerts, TypeOK, PostOK, QuietOK, NoneFailed, ConfigOK,
            Holds, Assigned, Best, Results
<1>1. ASSUME NEW body \in Bodies, Post(body)
  PROVE  ConfigOK'
  BY <1>1 DEF Post, NoPost, dicts
<1>2. ASSUME NEW n \in Names, StoreServer(n)
  PROVE  ConfigOK'
  <2> SUFFICES ASSUME Quiet, failures = 0
               PROVE  ConfigOK'
    BY <1>2 DEF StoreServer
  <2>1. post.body # None /\ post # NoPost
    BY <1>2 DEF StoreServer, NoPost
  <2>2. conn' = conn /\ config' = None /\ \A c \in Conns : conn[c].pc \in Results
    BY <1>2, <2>1 DEF StoreServer
  <2>3. Holds(post.body, post.names, post.uids)'
    BY <1>2, <2>1 DEF StoreServer
  <2> QED
    BY <2>1, <2>2, <2>3
<1>3. ASSUME NEW n \in Names, StoreServerFails(n)
  PROVE  ConfigOK'
  BY <1>3 DEF StoreServerFails, dicts
<1>4. ASSUME NEW u \in Uids, StoreCertificate(u)
  PROVE  ConfigOK'
  <2> SUFFICES ASSUME Quiet, failures = 0
               PROVE  ConfigOK'
    BY <1>4 DEF StoreCertificate
  <2>1. post.body # None /\ post # NoPost
    BY <1>4 DEF StoreCertificate, NoPost
  <2>2. conn' = conn /\ config' = None /\ \A c \in Conns : conn[c].pc \in Results
    BY <1>4, <2>1 DEF StoreCertificate
  <2>3. Holds(post.body, post.names, post.uids)'
    BY <1>4, <2>1 DEF StoreCertificate
  <2> QED
    BY <2>1, <2>2, <2>3
<1>5. ASSUME NEW u \in Uids, StoreCertificateFails(u)
  PROVE  ConfigOK'
  BY <1>5 DEF StoreCertificateFails, dicts
<1>6. ASSUME NEW u \in Uids, Purge(u)
  PROVE  ConfigOK'
  <2> SUFFICES ASSUME Quiet, failures = 0
               PROVE  ConfigOK'
    BY <1>6 DEF Purge
  <2>1. post.body # None /\ post # NoPost
    BY <1>6 DEF Purge, NoPost
  <2>2. conn' = conn /\ config' = None /\ \A c \in Conns : conn[c].pc \in Results
    BY <1>6, <2>1 DEF Purge
  <2>3. Holds(post.body, post.names, post.uids)'
    BY <1>6, <2>1 DEF Purge
  <2> QED
    BY <2>1, <2>2, <2>3
<1>7. ASSUME Answer
  PROVE  ConfigOK'
  BY <1>7 DEF Answer, NoPost, dicts
<1>8. ASSUME Evict
  PROVE  ConfigOK'
  BY <1>8 DEF Evict, dicts
<1>9. ASSUME NEW c \in Conns, NEW asked \in Asked, Begin(c, asked)
  PROVE  ConfigOK'
  <2>1. UNCHANGED <<servers, data, post, config, failures>>
    BY <1>9 DEF Begin, dicts
  <2> QED
    BY <1>9, <2>1, BeginEffect
<1>10. ASSUME NEW c \in Conns, Lookup(c)
  PROVE  ConfigOK'
  <2>1. UNCHANGED <<servers, data, post, config, failures>>
    BY <1>10 DEF Lookup, dicts
  <2> QED
    BY <1>10, <2>1, LookupEffect, LookedUpNames DEF LookedUp, AfterMiss
<1>11. ASSUME NEW c \in Conns, GetPem(c)
  PROVE  ConfigOK'
  <2>1. UNCHANGED <<servers, data, post, config, failures>>
    BY <1>11 DEF GetPem, dicts
  <2> QED
    BY <1>11, <2>1, GetPemEffect
<1>12. ASSUME NEW c \in Conns, OcspStaple(c)
  PROVE  ConfigOK'
  <2>1. UNCHANGED <<servers, data, post, config, failures>>
    BY <1>12 DEF OcspStaple, dicts
  <2> QED
    BY <1>12, <2>1, OcspStapleEffect
<1>13. ASSUME NEW u \in Uids, Expire(u)
  PROVE  ConfigOK'
  BY <1>13 DEF Expire, dicts
<1>14. ASSUME NEW u \in Uids, NEW pem \in Pems, CacheResponse(u, pem)
  PROVE  ConfigOK'
  BY <1>14 DEF CacheResponse, dicts
<1>15. ASSUME NEW u \in Uids, NEW pem \in Pems, FetchFails(u, pem)
  PROVE  ConfigOK'
  BY <1>15 DEF FetchFails, dicts
<1>16. ASSUME UNCHANGED vars
  PROVE  ConfigOK'
  BY <1>16 DEF vars, dicts
<1> QED
  BY <1>1, <1>2, <1>3, <1>4, <1>5, <1>6, <1>7, <1>8, <1>9, <1>10, <1>11, <1>12, <1>13, <1>14,
     <1>15, <1>16 DEF Step, HandleServers, Call

LEMMA CertInit ==
  ASSUME CertGiven, Init
  PROVE  CertInv /\ ConfigOK
<1>1. TypeOK
  BY DEF CertGiven, ProperBody, Init, TypeOK, NoPost, NoConn, Results
<1>2. \A c \in Conns : conn[c] = NoConn
  BY DEF Init
<1>3. PostOK /\ QuietOK /\ NoneFailed
  BY DEF Init, PostOK, QuietOK, NoneFailed, NoPost
<1>4. UidsOK /\ StapleOK /\ ConfigOK
  BY <1>2 DEF Init, UidsOK, FromPost, StapleOK, ConfigOK, NoPost, NoConn, Results
<1> QED
  BY <1>1, <1>3, <1>4 DEF CertInv

LEMMA CertStep ==
  ASSUME SameCerts, CertGiven, CertInv, [Step]_vars
  PROVE  CertInv'
BY CertTypes, CertPosts, CertUids, CertQuiet, CertFailed, CertStaples DEF CertInv

\* A behaviour of the certificates stays one, and its steps are those of Certificates.
LEMMA TlsStep ==
  ASSUME [TlsNext]_allVars, OfCertificates \/ OfCertificates'
  PROVE  OfCertificates /\ SameCerts /\ [Step]_vars
<1>1. UNCHANGED setup
  BY DEF TlsNext, allVars, Next, Proxy!Next
<1>2. OfCertificates /\ ~ OfProxy
  BY <1>1, TlsAssumption DEF OfCertificates, OfProxy
<1>3. [Step]_vars
  BY <1>2 DEF TlsNext, allVars, Next
<1> QED
  BY <1>1, <1>2, <1>3, SetupStays

\* Whatever is POSTed and fails, a handshake is served a certificate that some POST gave to
\* its name, its wildcard or "_"; without overlaps and failures, its staple is one for it
\* (get_pem_cert_uid and ocsp_staple of certificate.lua, handle_servers of configuration.lua).
THEOREM HandshakesAreCoherent == TlsSpec => []HandshakeIsCoherent
<1> DEFINE Inv == OfCertificates => CertInv
<1>1. TlsInit => Inv
  BY CertInit, CertsAreGiven, TlsAssumption DEF TlsInit, OfCertificates, OfProxy
<1>2. Inv /\ [TlsNext]_allVars => Inv'
  BY CertStep, TlsStep, CertsAreGiven
<1>3. CertInv => Coherent
  <2> SUFFICES ASSUME CertInv
               PROVE  Coherent
    OBVIOUS
  <2>1. ASSUME NEW c \in Conns, conn[c].pc = "served"
        PROVE  \E body \in posted, i \in 1..3 :
                 Assigned(body, Candidates(conn[c].name)[i]) = conn[c].uid
    <3>1. PICK n \in {conn[c].name, Wild[conn[c].name], Default} : Gave(posted, conn[c].uid, n)
      BY <2>1 DEF CertInv, UidsOK, FromPost
    <3>2. \E i \in 1..3 : Candidates(conn[c].name)[i] = n
      BY DEF Candidates
    <3> QED
      BY <3>1, <3>2 DEF Gave
  <2>2. Quiet /\ failures = 0 => StapleMatches
    BY DEF CertInv, StapleOK, StapleMatches
  <2> QED
    BY <2>1, <2>2 DEF Coherent, NoForeignCertificate
<1>4. Inv => HandshakeIsCoherent
  BY <1>3 DEF HandshakeIsCoherent
<1> QED
  BY <1>1, <1>2, <1>4, PTL DEF TlsSpec

\* What the dictionary has for the candidates of a settled name is what the last body says.
LEMMA SettledIsHeld ==
  ASSUME CertGiven, CertInv, Quiet, failures = 0, ConfigOK, NEW n \in Names, Settled(n)
  PROVE  /\ config \in Bodies /\ n \in Names /\ Wild[n] \in Names /\ Default \in Names
         /\ \A m \in {n, Wild[n], Default} : servers[m] = Assigned(config, m)
<1>1. config # None /\ config \in Bodies /\ Wild[n] \in Names /\ Default \in Names
  BY DEF Settled, CertInv, TypeOK, CertGiven
<1>2. ASSUME NEW m \in {n, Wild[n], Default}
      PROVE  \/ m \in DOMAIN config.servers
             \/ \A body \in posted : Assigned(body, m) = None
  <2>1. PICK i \in 1..3 : Candidates(n)[i] = m
    BY DEF Candidates
  <2> QED
    BY <2>1 DEF Settled
<1>3. ASSUME NEW m \in {n, Wild[n], Default}
      PROVE  servers[m] = Assigned(config, m)
  <2>1. CASE m \in DOMAIN config.servers
    BY <1>1, <2>1 DEF ConfigOK, Holds
  <2>2. CASE m \notin DOMAIN config.servers
    <3>1. Assigned(config, m) = None
      BY <2>2 DEF Assigned
    <3>2. servers[m] = None
      <4>1. m \in Names
        BY <1>1
      <4> QED
        BY <1>2, <2>2, <4>1 DEF CertInv, UidsOK, Gave
    <3> QED
      BY <3>1, <3>2
  <2> QED
    BY <2>1, <2>2
<1> QED
  BY <1>1, <1>3

\* The candidates of a name in their order: what Expected chooses is what the lookups find.
LEMMA ExpectedIsBest ==
  ASSUME CertGiven, CertInv, Quiet, failures = 0, ConfigOK, NEW n \in Names, Settled(n)
  PROVE  Expected(n) = IF Best(n) = None THEN None ELSE config.certificates[Best(n)]
<1> DEFINE cand  == Candidates(n)
           uids  == [i \in 1..3 |-> Assigned(config, cand[i])]
           hits  == {i \in 1..3 : uids[i] # None}
           first == CHOOSE i \in hits : \A j \in hits : i <= j
<1>1. uids[1] = servers[n] /\ uids[2] = servers[Wild[n]] /\ uids[3] = servers[Default]
  <2>1. cand[1] = n /\ cand[2] = Wild[n] /\ cand[3] = Default
    BY DEF Candidates
  <2> QED
    BY <2>1, SettledIsHeld
<1>2. ASSUME NEW i \in hits, \A j \in hits : i <= j
      PROVE  first = i
  <2>1. first \in hits /\ \A j \in hits : first <= j
    BY <1>2
  <2>2. first <= i /\ i <= first /\ first \in 1..3 /\ i \in 1..3
    BY <1>2, <2>1
  <2> HIDE DEF first
  <2> QED
    BY <2>2
<1>3. Expected(n) = IF hits = {} THEN None ELSE config.certificates[uids[first]]
  BY DEF Expected
<1> HIDE DEF first, uids
<1>4. CASE servers[n] # None
  <2>1. 1 \in hits /\ \A j \in hits : 1 <= j
    BY <1>1, <1>4
  <2> QED
    BY <1>1, <1>2, <1>3, <1>4, <2>1 DEF Best
<1>5. CASE servers[n] = None /\ servers[Wild[n]] # None
  <2>1. 2 \in hits /\ \A j \in hits : 2 <= j
    BY <1>1, <1>5
  <2> QED
    BY <1>1, <1>2, <1>3, <1>5, <2>1 DEF Best
<1>6. CASE servers[n] = None /\ servers[Wild[n]] = None /\ servers[Default] # None
  <2>1. 3 \in hits /\ \A j \in hits : 3 <= j
    BY <1>1, <1>6
  <2> QED
    BY <1>1, <1>2, <1>3, <1>6, <2>1 DEF Best
<1>7. CASE servers[n] = None /\ servers[Wild[n]] = None /\ servers[Default] = None
  <2>1. hits = {}
    BY <1>1, <1>7
  <2> QED
    BY <1>3, <1>7, <2>1 DEF Best
<1> QED
  BY <1>4, <1>5, <1>6, <1>7

\* The certificate of the uid found is in the dictionary, as the last body has it.
LEMMA BestIsHeld ==
  ASSUME CertGiven, CertInv, Quiet, failures = 0, ConfigOK, NEW n \in Names, Settled(n),
         Best(n) # None
  PROVE  /\ config.certificates[Best(n)] = data[Best(n)]
         /\ data[Best(n)] # None
<1>1. config \in Bodies /\ \A u \in DOMAIN config.certificates : data[u] = config.certificates[u]
  BY SettledIsHeld DEF Settled, ConfigOK, Holds
<1>2. PICK m \in {n, Wild[n], Default} : Best(n) = servers[m]
  BY DEF Best
<1>3. Best(n) = Assigned(config, m)
  BY <1>2, SettledIsHeld
<1>4. Best(n) \in DOMAIN config.certificates
  BY <1>1, <1>3 DEF Assigned, CertGiven, ProperBody
<1> QED
  BY <1>1, <1>4 DEF CertGiven, ProperBody

\* Orderly steps keep to the configuration in the dictionaries.
LEMMA OrderlyEnds ==
  ASSUME CertGiven, CertInv, ConfigOK, Orderly, [Step]_vars
  PROVE  EndsAsConfigured
<1> USE DEF Orderly
<1> SUFFICES ASSUME NEW c \in Conns, Settled(conn[c].name),
                    conn[c].pc \notin Results, conn'[c].pc \in Results
             PROVE  conn'[c].pem = Expected(conn[c].name)
  BY DEF EndsAsConfigured, EndsAsExpected
<1> DEFINE n == conn[c].name
<1>1. /\ failures = 0 /\ n \in Names
      /\ Expected(n) = IF Best(n) = None THEN None ELSE config.certificates[Best(n)]
      /\ Best(n) # None => config.certificates[Best(n)] = data[Best(n)] /\ data[Best(n)] # None
  <2>1. failures = 0 /\ n \in Names
    BY DEF CertInv, TypeOK, Results
  <2> QED
    BY <2>1, ExpectedIsBest, BestIsHeld DEF CertInv
<1>2. ASSUME NEW d \in Conns, Lookup(d)
      PROVE  conn'[c].pem = Expected(n)
  <2>1. c = d /\ conn'[c].pem = conn[c].pem
    BY <1>2, LookupEffect DEF CertInv
  <2>2. conn[c].pc = "default" /\ servers[Default] = None
    BY <1>2, <2>1, LookupEffect DEF CertInv, AfterMiss, LookedUp, Results
  <2> QED
    BY <1>1, <2>1, <2>2 DEF ConfigOK, Best
<1>3. ASSUME NEW d \in Conns, GetPem(d)
      PROVE  conn'[c].pem = Expected(n)
  <2>1. c = d /\ conn[c].pc = "data" /\ conn'[c].pem = data[conn[c].uid]
    BY <1>3, GetPemEffect DEF CertInv
  <2>2. conn[c].uid = Best(n) /\ conn[c].uid # None
    BY <1>1, <2>1 DEF ConfigOK, CertInv, TypeOK, CertGiven
  <2> QED
    BY <1>1, <2>1, <2>2
<1>4. ASSUME NEW d \in Conns, OcspStaple(d)
      PROVE  conn'[c].pem = Expected(n)
  <2>1. c = d /\ conn[c].pc = "staple" /\ conn'[c].pem = data[conn[c].uid]
    BY <1>1, <1>4, OcspStapleEffect DEF CertInv, StapleOK
  <2>2. conn[c].uid = Best(n) /\ conn[c].uid # None
    BY <1>1, <2>1 DEF ConfigOK, CertInv, TypeOK, CertGiven
  <2> QED
    BY <1>1, <2>1, <2>2
<1>5. ASSUME NEW d \in Conns, NEW asked \in Asked, Begin(d, asked)
      PROVE  FALSE
  BY <1>5, BeginEffect DEF CertInv, Results
<1>6. conn' # conn
  OBVIOUS
<1> QED
  BY <1>2, <1>3, <1>4, <1>5, <1>6
  DEF Step, HandleServers, Call, vars, Post, StoreServer, StoreServerFails, StoreCertificate,
      StoreCertificateFails, Purge, Answer, Evict, Expire, CacheResponse, FetchFails

\* With POSTs that do not overlap handshakes, in dictionaries that keep what they are given,
\* a handshake ends with the most specific certificate that the last body answered 201 gives
\* its name, in its current version, if that body mentions every candidate of the name that
\* an earlier one gave a certificate to (handle_servers of configuration.lua, call of
\* certificate.lua).
THEOREM HandshakesEndAsConfigured == TlsSpec => ConfiguredCertificate
<1> DEFINE Inv == OfCertificates => CertInv /\ ConfigOK
<1>1. TlsInit => Inv
  BY CertInit, CertsAreGiven, TlsAssumption DEF TlsInit, OfCertificates, OfProxy
<1>2. Inv /\ [TlsNext]_allVars => Inv'
  BY CertStep, CertConfig, TlsStep, CertsAreGiven DEF CertInv
<1>3. Inv /\ [TlsNext]_allVars => [OfCertificates /\ Orderly => EndsAsConfigured]_vars
  BY OrderlyEnds, TlsStep, CertsAreGiven
<1> QED
  BY <1>1, <1>2, <1>3, PTL DEF TlsSpec, ConfiguredCertificate


-----------------------------------------------------------------------------
(* The passthrough proxy *)

allProxy == <<Proxy!vars, setup>>

ClientType == [st : {"new", "backlog", "held", "handled", "piped", "closed"},
               host : Hosts \cup {None}, said : BOOLEAN,
               server : Proxy!Addrs \cup {None, NginxServer, Behind}]

\* No connection was accepted under an old setting, or one was and the loop has gone on;
\* the connection whose header the loop waits for has no handler yet.
AcceptsOK ==
  /\ wrong \in {0, 1}
  /\ holding # None => clients[holding].st = "held"
  /\ mode # None /\ holding = None /\ mode # proxied => wrong = 0

\* The pairs of a list.
Entries(list) == {<<h, list[h]>> : h \in DOMAIN list}

\* An ingress has had the service for the host, the service has had the address.
Real == {x \in Hosts \X Proxy!Addrs : <<x[1], x[2][1]>> \in wanted /\ x[2] \in had}

\* What was listed and looked up was in the store, each at its time.
Seen(w, a) ==
  /\ \A h \in Hosts : w[h] # None => <<h, w[h]>> \in wanted
  /\ \A s \in Services : a[s] # None => a[s] \in had /\ a[s][1] = s

\* Without reviews, what is listed, written, read and served was stored.
StoredOK ==
  "reviews" \notin Proxy!Faults =>
    /\ Seen(want, addr)
    /\ reading["review"] = None /\ writer["review"] = None
    /\ reading["sync"] # None => Seen(reading["sync"].want, reading["sync"].addr)
    /\ writer["sync"] # None => Entries(writer["sync"].servers) \subseteq Real
    /\ Entries(arr) \subseteq Real
    /\ \A c \in Clients : clients[c].server \in Proxy!Addrs =>
         /\ clients[c].st \in {"piped", "closed"}
         /\ <<clients[c].host, clients[c].server>> \in Real

ProxyInv == Proxy!TypeOK /\ AcceptsOK /\ StoredOK

ReadType == [want : [Hosts -> Services \cup {None}],
             addr : [Services -> Proxy!Addrs \cup {None}], todo : SUBSET Services]

ListType == [backends : Proxy!BackendLists, servers : Proxy!Lists, written : SUBSET {"len", "arr"}]

\* The list of well-typed backends is a list, with the pairs of the backends.
LEMMA ListOfServers ==
  ASSUME Proxy!ProxyAssumption,
         NEW w \in [Hosts -> Services \cup {None}],
         NEW a \in [Services -> Proxy!Addrs \cup {None}]
  PROVE  /\ Proxy!Generate(Proxy!Backends(w, a)) \in ListType
         /\ Entries(Proxy!Generate(Proxy!Backends(w, a)).servers)
              \subseteq Proxy!Pairs(Proxy!Backends(w, a))
<1> DEFINE b == Proxy!Backends(w, a)
           on == {x \in Hosts : b[x] # None /\ b[x].svc # None}
<1>1. Proxy!Servers(b) = [h \in on |-> b[h].ip]
  BY DEF Proxy!Servers
<1>2. ASSUME NEW h \in Hosts, w[h] # None
      PROVE  /\ b[h] = [svc |-> IF a[w[h]] = None THEN None ELSE w[h], ip |-> a[w[h]]]
             /\ a[w[h]] \in Proxy!Addrs \cup {None} /\ w[h] \in Services
  BY <1>2 DEF Proxy!Backends
<1>3. ASSUME NEW h \in Hosts, w[h] = None
      PROVE  b[h] = None
  BY <1>3 DEF Proxy!Backends
<1>4. DOMAIN b = Hosts /\ b = [h \in Hosts |-> b[h]]
  BY DEF Proxy!Backends
<1> HIDE DEF b
<1>5. b \in Proxy!BackendLists
  <2>1. ASSUME NEW h \in Hosts
        PROVE  b[h] \in [svc : Services \cup {None}, ip : Proxy!Addrs \cup {None}] \cup {None}
    <3>1. CASE w[h] = None
      BY <1>3, <3>1
    <3>2. CASE w[h] # None
      <4> DEFINE svc == IF a[w[h]] = None THEN None ELSE w[h]
                 ip == a[w[h]]
      <4>1. b[h] = [svc |-> svc, ip |-> ip]
        BY <1>2, <3>2
      <4>2. svc \in Services \cup {None} /\ ip \in Proxy!Addrs \cup {None}
        BY <1>2, <3>2
      <4> HIDE DEF svc, ip
      <4> QED
        BY ONLY <4>1, <4>2
    <3> QED
      BY <3>1, <3>2
  <2> QED
    BY <1>4, <2>1 DEF Proxy!BackendLists
<1>6. Proxy!Servers(b) \in Proxy!Lists
  <2>1. ASSUME NEW h \in on
        PROVE  b[h].ip \in Proxy!Addrs
    <3>1. w[h] # None
      BY <1>3, <2>1
    <3>2. /\ b[h].svc # None /\ b[h].svc = IF a[w[h]] = None THEN None ELSE w[h]
          /\ b[h].ip = a[w[h]] /\ a[w[h]] \in Proxy!Addrs \cup {None}
      <4> DEFINE svc == IF a[w[h]] = None THEN None ELSE w[h]
      <4>1. b[h] = [svc |-> svc, ip |-> a[w[h]]] /\ a[w[h]] \in Proxy!Addrs \cup {None}
        BY <1>2, <3>1
      <4>2. b[h].svc # None
        BY <2>1
      <4>3. b[h].svc = svc /\ b[h].ip = a[w[h]]
        <5> HIDE DEF svc
        <5> QED
          BY ONLY <4>1
      <4> QED
        BY <4>1, <4>2, <4>3
    <3> QED
      BY <3>2
  <2>2. Proxy!Servers(b) \in [on -> Proxy!Addrs] /\ on \in SUBSET Hosts
    BY <1>1, <2>1
  <2> QED
    BY <2>2 DEF Proxy!Lists
<1>7. Proxy!Generate(b) \in ListType
  BY <1>5, <1>6 DEF Proxy!Generate, ListType
<1>8. Entries(Proxy!Servers(b)) \subseteq Proxy!Pairs(b)
  BY <1>1 DEF Entries, Proxy!Pairs
<1> QED
  BY <1>7, <1>8 DEF b, Proxy!Generate

\* The pairs of what was seen are real.
LEMMA SeenIsReal ==
  ASSUME Proxy!ProxyAssumption,
         NEW w \in [Hosts -> Services \cup {None}],
         NEW a \in [Services -> Proxy!Addrs \cup {None}], Seen(w, a)
  PROVE  Proxy!Pairs(Proxy!Backends(w, a)) \subseteq Real
<1> DEFINE b == Proxy!Backends(w, a)
<1>1. ASSUME NEW h \in Hosts, b[h] # None, b[h].svc # None
      PROVE  <<h, b[h].ip>> \in Real
  <2>1. w[h] # None
    BY <1>1 DEF Proxy!Backends
  <2> DEFINE svc == IF a[w[h]] = None THEN None ELSE w[h]
  <2>2. b[h] = [svc |-> svc, ip |-> a[w[h]]]
    BY <2>1 DEF Proxy!Backends
  <2>3. b[h].svc = svc /\ b[h].ip = a[w[h]]
    <3> HIDE DEF svc, b
    <3> QED  BY ONLY <2>2
  <2>4. w[h] \in Services /\ a[w[h]] # None /\ a[w[h]] \in Proxy!Addrs
    BY <1>1, <2>1, <2>3
  <2>5. <<h, w[h]>> \in wanted /\ a[w[h]] \in had /\ a[w[h]][1] = w[h]
    BY <2>1, <2>4 DEF Seen
  <2> HIDE DEF b
  <2> QED  BY <2>3, <2>4, <2>5 DEF Real
<1> HIDE DEF b
<1>2. Proxy!Pairs(b) \subseteq Real
  BY <1>1 DEF Proxy!Pairs
<1> QED  BY <1>2 DEF b

\* A host is never forgotten, nor an address.
LEMMA RealStays ==
  ASSUME wanted \subseteq wanted', had \subseteq had'
  PROVE  /\ Real \subseteq Real'
         /\ \A w, a : Seen(w, a) => Seen(w, a)'
BY DEF Real, Seen

\* INSTANCE brings its own copy of the operators of FiniteSets.
LEMMA SameCardinality ==
  /\ \A S : Proxy!Cardinality(S) = Cardinality(S)
  /\ \A S : Proxy!IsFiniteSet(S) <=> IsFiniteSet(S)
BY DEF Proxy!Cardinality, Cardinality, Proxy!IsFiniteSet, IsFiniteSet

\* A list is not longer than there are hosts.
LEMMA ListLength ==
  ASSUME Proxy!ProxyAssumption, NEW l \in Proxy!Lists
  PROVE  Proxy!Length(l) \in 0 .. Proxy!Cardinality(Hosts)
<1>1. IsFiniteSet(Hosts) /\ DOMAIN l \subseteq Hosts
  BY SameCardinality DEF Proxy!ProxyAssumption, Proxy!Lists
<1>2. /\ IsFiniteSet(DOMAIN l) /\ Cardinality(DOMAIN l) <= Cardinality(Hosts)
      /\ Cardinality(DOMAIN l) \in Nat /\ Cardinality(Hosts) \in Nat
  BY <1>1, FS_Subset, FS_CardinalityType
<1> QED
  BY <1>2, SameCardinality DEF Proxy!Length

\* What a handler finds is an address, the default, or what lies behind the array.
LEMMA GetTyped ==
  ASSUME Proxy!TypeOK, NEW h
  PROVE  Proxy!Get(h) \subseteq Proxy!Addrs \cup {NginxServer, Behind}
<1>1. PICK hs \in SUBSET Hosts : arr \in [hs -> Proxy!Addrs]
  BY DEF Proxy!TypeOK, Proxy!Lists
<1> QED
  BY <1>1 DEF Proxy!Get, Proxy!Listed

LEMMA ProxyTyped ==
  ASSUME Proxy!ProxyAssumption, Proxy!TypeOK, [Proxy!Next]_allProxy
  PROVE  Proxy!TypeOK'
<1> USE DEF Proxy!ProxyAssumption, Proxy!Writers, Proxy!TypeOK, Proxy!Passed, Proxy!Used,
            Proxy!MaxChanges
<1>0. UNCHANGED setup
  BY DEF Proxy!Next, allProxy
<1>1. ASSUME NEW h \in Proxy!Passed, NEW s \in Proxy!Used \cup {None}, Proxy!IngressEvent(h, s)
  PROVE  Proxy!TypeOK'
  BY <1>0, <1>1 DEF Proxy!IngressEvent, Proxy!store, Proxy!syncing, Proxy!past, Proxy!list,
     Proxy!loop, Proxy!Changed
<1>2. ASSUME NEW s \in Proxy!Used, NEW a \in Proxy!Addrs \cup {None}, Proxy!ServiceEvent(s, a)
  PROVE  Proxy!TypeOK'
  BY <1>0, <1>2 DEF Proxy!ServiceEvent, Proxy!store, Proxy!syncing, Proxy!past, Proxy!list,
     Proxy!loop, Proxy!Changed
<1>3. ASSUME NEW h \in Proxy!Passed, NEW s \in Proxy!Used, Proxy!CheckIngress(h, s)
  PROVE  Proxy!TypeOK'
  <2> DEFINE w == [x \in Hosts |-> IF x = h THEN s ELSE IF Proxy!FullTest THEN want[x] ELSE None]
  <2>1. w \in [Hosts -> Services \cup {None}]
    OBVIOUS
  <2>2. /\ reading' = [reading EXCEPT !["review"] = Proxy!List(w)]
        /\ UNCHANGED <<want, addr, running, writer, arr, len, proxied, mode, holding, clients>>
        /\ changes' = changes + 1 /\ changes < Proxy!MaxChanges
    BY <1>3 DEF Proxy!CheckIngress, Proxy!store, Proxy!list, Proxy!loop, Proxy!Changed
  <2> HIDE DEF w
  <2>3. Proxy!List(w) \in ReadType
    BY <2>1 DEF Proxy!List, ReadType
  <2>4. reading' \in [Proxy!Writers -> ReadType \cup {None}]
    BY <2>2, <2>3 DEF ReadType
  <2> QED
    BY <1>0, <2>2, <2>4 DEF ReadType
<1>4. ASSUME Proxy!syncIngress
  PROVE  Proxy!TypeOK'
  <2>1. /\ reading' = [reading EXCEPT !["sync"] = Proxy!List(want)]
        /\ UNCHANGED <<want, addr, running, writer, arr, len, proxied, mode, holding, clients, changes>>
    BY <1>4 DEF Proxy!syncIngress, Proxy!store, Proxy!list, Proxy!loop
  <2>2. Proxy!List(want) \in ReadType
    BY DEF Proxy!List, ReadType
  <2>3. reading' \in [Proxy!Writers -> ReadType \cup {None}]
    BY <2>1, <2>2 DEF ReadType
  <2> QED
    BY <1>0, <2>1, <2>3 DEF ReadType
<1>5. ASSUME Proxy!Reloaded
  PROVE  Proxy!TypeOK'
  <2>1. writer["sync"] \in ListType
    BY <1>5 DEF Proxy!Reloaded, Proxy!Written, ListType
  <2>2. running' \in Proxy!BackendLists
    BY <1>5, <2>1 DEF Proxy!Reloaded, ListType
  <2> QED
    BY <1>0, <1>5, <2>2 DEF Proxy!Reloaded, Proxy!store, Proxy!syncing, Proxy!past, Proxy!list,
       Proxy!loop
<1>6. ASSUME Proxy!Rejected
  PROVE  Proxy!TypeOK'
  BY <1>0, <1>6 DEF Proxy!Rejected, Proxy!store, Proxy!syncing, Proxy!past, Proxy!list,
     Proxy!loop, Proxy!Changed
<1>7. ASSUME Proxy!Reviewed
  PROVE  Proxy!TypeOK'
  BY <1>0, <1>7 DEF Proxy!Reviewed, Proxy!store, Proxy!syncing, Proxy!past, Proxy!list,
     Proxy!loop, Proxy!Changed
<1>8. ASSUME NEW g \in Proxy!Writers, Proxy!WriteLen(g)
  PROVE  Proxy!TypeOK'
  <2>1. writer[g] \in ListType
    BY <1>8 DEF Proxy!WriteLen, ListType
  <2>2. len' \in 0 .. Proxy!Cardinality(Hosts)
    BY <1>8, <2>1, ListLength DEF Proxy!WriteLen, ListType
  <2>3. [writer[g] EXCEPT !.written = @ \cup {"len"}] \in ListType
    BY <2>1 DEF ListType
  <2>4. writer' = [writer EXCEPT ![g] = [writer[g] EXCEPT !.written = @ \cup {"len"}]]
    BY <1>8 DEF Proxy!WriteLen
  <2>5. writer' \in [Proxy!Writers -> ListType \cup {None}]
    BY <2>3, <2>4 DEF ListType
  <2> QED
    BY <1>0, <1>8, <2>2, <2>5 DEF Proxy!WriteLen, Proxy!store, Proxy!syncing, Proxy!past,
       Proxy!list, Proxy!loop, ListType
<1>9. ASSUME NEW g \in Proxy!Writers, Proxy!WriteArr(g)
  PROVE  Proxy!TypeOK'
  <2>1. writer[g] \in ListType
    BY <1>9 DEF Proxy!WriteArr, ListType
  <2>2. arr' \in Proxy!Lists
    BY <1>9, <2>1 DEF Proxy!WriteArr, ListType
  <2>3. [writer[g] EXCEPT !.written = @ \cup {"arr"}] \in ListType
    BY <2>1 DEF ListType
  <2>4. writer' = [writer EXCEPT ![g] = [writer[g] EXCEPT !.written = @ \cup {"arr"}]]
    BY <1>9 DEF Proxy!WriteArr
  <2>5. writer' \in [Proxy!Writers -> ListType \cup {None}]
    BY <2>3, <2>4 DEF ListType
  <2> QED
    BY <1>0, <1>9, <2>2, <2>5 DEF Proxy!WriteArr, Proxy!store, Proxy!syncing, Proxy!past,
       Proxy!list, Proxy!loop, ListType
<1>10. ASSUME Proxy!SetProxyProtocol
  PROVE  Proxy!TypeOK'
  BY <1>0, <1>10 DEF Proxy!SetProxyProtocol, Proxy!store, Proxy!syncing, Proxy!past, Proxy!list,
     Proxy!loop, Proxy!Changed
<1>11. ASSUME Proxy!ReadSetting
  PROVE  Proxy!TypeOK'
  BY <1>0, <1>11 DEF Proxy!ReadSetting, Proxy!store, Proxy!syncing, Proxy!past, Proxy!list,
     Proxy!loop, Proxy!Changed
<1>12. ASSUME NEW c \in Clients, Proxy!Accept(c)
  PROVE  Proxy!TypeOK'
  BY <1>0, <1>12 DEF Proxy!Accept, Proxy!store, Proxy!syncing, Proxy!past, Proxy!list, Proxy!loop,
     Proxy!Changed,
     Proxy!NextRound
<1>13. ASSUME NEW c \in Clients, Proxy!GoHandle(c)
  PROVE  Proxy!TypeOK'
  BY <1>0, <1>13 DEF Proxy!GoHandle, Proxy!store, Proxy!syncing, Proxy!past, Proxy!list,
     Proxy!loop, Proxy!Changed,
     Proxy!NextRound
<1>14. ASSUME NEW c \in Clients, NEW h \in Proxy!Passed, Proxy!Connect(c, h)
  PROVE  Proxy!TypeOK'
  BY <1>0, <1>14 DEF Proxy!Connect, Proxy!store, Proxy!syncing, Proxy!past, Proxy!list,
     Proxy!loop, Proxy!Changed
<1>15. ASSUME NEW c \in Clients, Proxy!Speak(c)
  PROVE  Proxy!TypeOK'
  BY <1>0, <1>15 DEF Proxy!Speak, Proxy!store, Proxy!syncing, Proxy!past, Proxy!list, Proxy!loop,
     Proxy!Changed
<1>16. ASSUME NEW c \in Clients, Proxy!Handle(c)
  PROVE  Proxy!TypeOK'
  <2>1. PICK srv \in Proxy!Get(clients[c].host) \cup {NginxServer}, st \in {"piped", "closed"} :
          clients' = [clients EXCEPT ![c] = [clients[c] EXCEPT !.server = srv, !.st = st]]
    BY <1>16 DEF Proxy!Handle
  <2>2. srv \in Proxy!Addrs \cup {None, NginxServer, Behind}
    BY GetTyped
  <2>3. [clients[c] EXCEPT !.server = srv, !.st = st] \in ClientType
    <3>1. clients[c] \in ClientType
      BY DEF ClientType
    <3> QED
      BY ONLY <2>2, <3>1, st \in {"piped", "closed"} DEF ClientType
  <2>4. clients' \in [Clients -> ClientType]
    BY <2>1, <2>3 DEF ClientType
  <2> QED
    BY <1>0, <1>16, <2>4 DEF Proxy!Handle, Proxy!store, Proxy!syncing, Proxy!past, Proxy!list,
       Proxy!loop, ClientType
<1>17. ASSUME NEW c \in Clients, Proxy!Hangup(c)
  PROVE  Proxy!TypeOK'
  BY <1>0, <1>17 DEF Proxy!Hangup, Proxy!store, Proxy!syncing, Proxy!past, Proxy!list, Proxy!loop,
     Proxy!Changed
<1>19. ASSUME NEW g \in Proxy!Writers, NEW s \in Services, Proxy!ReadService(g, s)
  PROVE  Proxy!TypeOK'
  <2>1. reading[g] \in ReadType
    BY <1>19 DEF Proxy!ReadService, ReadType
  <2> DEFINE r == [want |-> reading[g].want, addr |-> [reading[g].addr EXCEPT ![s] = addr[s]],
                   todo |-> reading[g].todo \ {s}]
  <2>2. r \in ReadType
    BY <2>1 DEF ReadType
  <2>3. reading' = [reading EXCEPT ![g] = r]
    BY <1>19 DEF Proxy!ReadService
  <2> HIDE DEF r
  <2>4. reading' \in [Proxy!Writers -> ReadType \cup {None}]
    BY <2>2, <2>3 DEF ReadType
  <2> QED
    BY <1>0, <1>19, <2>4 DEF Proxy!ReadService, Proxy!store, Proxy!list, Proxy!loop, ReadType
<1>20. ASSUME NEW g \in Proxy!Writers, Proxy!Configured(g)
  PROVE  Proxy!TypeOK'
  <2> DEFINE b == Proxy!Backends(reading[g].want, reading[g].addr)
  <2>1. reading[g] \in ReadType
    BY <1>20 DEF Proxy!Configured, ReadType
  <2>2. Proxy!Generate(b) \in ListType
    BY <2>1, ListOfServers DEF ReadType
  <2>3. writer' \in {writer, [writer EXCEPT ![g] = Proxy!Generate(b)]}
    BY <1>20 DEF Proxy!Configured
  <2> HIDE DEF b
  <2>4. writer' \in [Proxy!Writers -> ListType \cup {None}]
    BY <2>2, <2>3 DEF ListType
  <2>5. reading' \in [Proxy!Writers -> ReadType \cup {None}]
    BY <1>20 DEF Proxy!Configured, ReadType
  <2> QED
    BY <1>0, <1>20, <2>4, <2>5
    DEF Proxy!Configured, Proxy!store, Proxy!list, Proxy!loop, ListType, ReadType
<1>18. ASSUME UNCHANGED allProxy
  PROVE  Proxy!TypeOK'
  BY <1>0, <1>18 DEF allProxy, Proxy!vars
<1> QED
  BY <1>1, <1>2, <1>3, <1>4, <1>5, <1>6, <1>7, <1>8, <1>9, <1>10, <1>11, <1>12, <1>13, <1>14,
     <1>15, <1>16, <1>17, <1>18, <1>19, <1>20
  DEF Proxy!Next, Proxy!Step, Proxy!Accepting, Proxy!Holding, Proxy!Opened, Proxy!ProxyAssumption

LEMMA ProxyAccepts ==
  ASSUME Proxy!ProxyAssumption, Proxy!TypeOK, AcceptsOK, [Proxy!Next]_allProxy
  PROVE  AcceptsOK'
<1> USE DEF AcceptsOK, Proxy!TypeOK
<1>0. UNCHANGED setup
  BY DEF Proxy!Next, allProxy
<1>1. ASSUME NEW h \in Proxy!Passed, NEW s \in Proxy!Used \cup {None}, Proxy!IngressEvent(h, s)
  PROVE  AcceptsOK'
  BY <1>0, <1>1 DEF Proxy!IngressEvent, Proxy!store, Proxy!syncing, Proxy!past, Proxy!list,
     Proxy!loop, Proxy!Changed
<1>2. ASSUME NEW s \in Proxy!Used, NEW a \in Proxy!Addrs \cup {None}, Proxy!ServiceEvent(s, a)
  PROVE  AcceptsOK'
  BY <1>0, <1>2 DEF Proxy!ServiceEvent, Proxy!store, Proxy!syncing, Proxy!past, Proxy!list,
     Proxy!loop, Proxy!Changed
<1>3. ASSUME NEW h \in Proxy!Passed, NEW s \in Proxy!Used, Proxy!CheckIngress(h, s)
  PROVE  AcceptsOK'
  BY <1>0, <1>3 DEF Proxy!CheckIngress, Proxy!store, Proxy!syncing, Proxy!past, Proxy!list,
     Proxy!loop, Proxy!Changed
<1>4. ASSUME Proxy!syncIngress
  PROVE  AcceptsOK'
  BY <1>0, <1>4 DEF Proxy!syncIngress, Proxy!store, Proxy!syncing, Proxy!past, Proxy!list,
     Proxy!loop, Proxy!Changed
<1>5. ASSUME Proxy!Reloaded
  PROVE  AcceptsOK'
  BY <1>0, <1>5 DEF Proxy!Reloaded, Proxy!store, Proxy!syncing, Proxy!past, Proxy!list,
     Proxy!loop, Proxy!Changed
<1>6. ASSUME Proxy!Rejected
  PROVE  AcceptsOK'
  BY <1>0, <1>6 DEF Proxy!Rejected, Proxy!store, Proxy!syncing, Proxy!past, Proxy!list,
     Proxy!loop, Proxy!Changed
<1>7. ASSUME Proxy!Reviewed
  PROVE  AcceptsOK'
  BY <1>0, <1>7 DEF Proxy!Reviewed, Proxy!store, Proxy!syncing, Proxy!past, Proxy!list,
     Proxy!loop, Proxy!Changed
<1>8. ASSUME NEW g \in Proxy!Writers, Proxy!WriteLen(g)
  PROVE  AcceptsOK'
  BY <1>0, <1>8 DEF Proxy!WriteLen, Proxy!store, Proxy!syncing, Proxy!past, Proxy!list,
     Proxy!loop, Proxy!Changed
<1>9. ASSUME NEW g \in Proxy!Writers, Proxy!WriteArr(g)
  PROVE  AcceptsOK'
  BY <1>0, <1>9 DEF Proxy!WriteArr, Proxy!store, Proxy!syncing, Proxy!past, Proxy!list,
     Proxy!loop, Proxy!Changed
<1>10. ASSUME Proxy!SetProxyProtocol
  PROVE  AcceptsOK'
  BY <1>0, <1>10 DEF Proxy!SetProxyProtocol, Proxy!store, Proxy!syncing, Proxy!past, Proxy!list,
     Proxy!loop, Proxy!Changed
<1>11. ASSUME Proxy!ReadSetting
  PROVE  AcceptsOK'
  BY <1>0, <1>11 DEF Proxy!ReadSetting, Proxy!store, Proxy!syncing, Proxy!past, Proxy!list,
     Proxy!loop, Proxy!Changed
<1>12. ASSUME NEW c \in Clients, Proxy!Accept(c)
  PROVE  AcceptsOK'
  <2>1. /\ mode \in BOOLEAN /\ holding = None /\ proxied' = proxied
        /\ holding' = IF mode THEN c ELSE None
        /\ mode' = IF mode THEN mode ELSE None
        /\ wrong' = IF mode # proxied THEN wrong + 1 ELSE wrong
    BY <1>12 DEF Proxy!Accept, Proxy!NextRound
  <2>2. wrong' \in {0, 1}
    BY <1>12, <2>1 DEF Proxy!Accept
  <2>3. mode' = None \/ holding' # None
    BY <2>1 DEF Proxy!ProxyAssumption
  <2>4. clients' = [clients EXCEPT ![c].st = IF mode THEN "held" ELSE "handled"]
    BY <1>12 DEF Proxy!Accept
  <2>5. mode => clients'[c].st = "held"
    BY <2>4
  <2>6. holding' # None => clients'[holding'].st = "held"
    BY <2>1, <2>5
  <2> QED
    BY <2>2, <2>3, <2>6
<1>13. ASSUME NEW c \in Clients, Proxy!GoHandle(c)
  PROVE  AcceptsOK'
  BY <1>0, <1>13 DEF Proxy!GoHandle, Proxy!store, Proxy!syncing, Proxy!past, Proxy!list,
     Proxy!loop, Proxy!Changed,
     Proxy!NextRound
<1>14. ASSUME NEW c \in Clients, NEW h \in Proxy!Passed, Proxy!Connect(c, h)
  PROVE  AcceptsOK'
  BY <1>0, <1>14 DEF Proxy!Connect, Proxy!store, Proxy!syncing, Proxy!past, Proxy!list,
     Proxy!loop, Proxy!Changed
<1>15. ASSUME NEW c \in Clients, Proxy!Speak(c)
  PROVE  AcceptsOK'
  BY <1>0, <1>15 DEF Proxy!Speak, Proxy!store, Proxy!syncing, Proxy!past, Proxy!list, Proxy!loop,
     Proxy!Changed
<1>16. ASSUME NEW c \in Clients, Proxy!Handle(c)
  PROVE  AcceptsOK'
  BY <1>0, <1>16 DEF Proxy!Handle, Proxy!store, Proxy!syncing, Proxy!past, Proxy!list, Proxy!loop,
     Proxy!Changed
<1>17. ASSUME NEW c \in Clients, Proxy!Hangup(c)
  PROVE  AcceptsOK'
  BY <1>0, <1>17 DEF Proxy!Hangup, Proxy!store, Proxy!syncing, Proxy!past, Proxy!list, Proxy!loop,
     Proxy!Changed
<1>19. ASSUME NEW g \in Proxy!Writers, NEW s \in Services, Proxy!ReadService(g, s)
  PROVE  AcceptsOK'
  BY <1>0, <1>19 DEF Proxy!ReadService, Proxy!loop
<1>20. ASSUME NEW g \in Proxy!Writers, Proxy!Configured(g)
  PROVE  AcceptsOK'
  BY <1>0, <1>20 DEF Proxy!Configured, Proxy!loop
<1>18. ASSUME UNCHANGED allProxy
  PROVE  AcceptsOK'
  BY <1>0, <1>18 DEF allProxy, Proxy!vars
<1> QED
  BY <1>1, <1>2, <1>3, <1>4, <1>5, <1>6, <1>7, <1>8, <1>9, <1>10, <1>11, <1>12, <1>13, <1>14,
     <1>15, <1>16, <1>17, <1>18, <1>19, <1>20
  DEF Proxy!Next, Proxy!Step, Proxy!Accepting, Proxy!Holding, Proxy!Opened, Proxy!ProxyAssumption

\* A step of the clients and the accept loop.
LEMMA ClientsStored ==
  ASSUME StoredOK, UNCHANGED <<setup, want, addr, reading, writer, arr, Proxy!past>>,
         "reviews" \notin Proxy!Faults => \A c \in Clients : clients'[c].server \in Proxy!Addrs =>
            /\ clients'[c].st \in {"piped", "closed"}
            /\ <<clients'[c].host, clients'[c].server>> \in Real
  PROVE  StoredOK'
<1>1. Real' = Real
  BY DEF Real, Proxy!past
<1>2. \A w, a : Seen(w, a) => Seen(w, a)'
  BY DEF Seen, Proxy!past
<1>3. (Proxy!Faults)' = Proxy!Faults
  BY DEF Proxy!Faults
<1> QED
  BY <1>1, <1>2, <1>3 DEF StoredOK

LEMMA ProxyStored ==
  ASSUME Proxy!ProxyAssumption, Proxy!TypeOK, AcceptsOK, StoredOK, [Proxy!Next]_allProxy
  PROVE  StoredOK'
<1> USE DEF Proxy!ProxyAssumption, Proxy!TypeOK, Proxy!Writers, StoredOK, Proxy!Faults
<1>0. UNCHANGED setup
  BY DEF Proxy!Next, allProxy
<1>1. ASSUME NEW h \in Proxy!Passed, NEW s \in Proxy!Used \cup {None}, Proxy!IngressEvent(h, s)
  PROVE  StoredOK'
  <2>1. /\ want' = [want EXCEPT ![h] = s] /\ wanted' = wanted \cup ({h} \X ({s} \ {None}))
        /\ UNCHANGED <<addr, reading, writer, arr, clients, had>>
    BY <1>1 DEF Proxy!IngressEvent, Proxy!list
  <2>2. \A w, a : Seen(w, a) => Seen(w, a)'
    BY <2>1, RealStays
  <2>3. Real \subseteq Real'
    BY <2>1, RealStays
  <2>4. ASSUME Seen(want, addr)
        PROVE  Seen(want, addr)'
    BY <2>1, <2>4 DEF Seen
  <2> QED
    BY <1>0, <2>1, <2>2, <2>3, <2>4
<1>2. ASSUME NEW s \in Proxy!Used, NEW a \in Proxy!Addrs \cup {None}, Proxy!ServiceEvent(s, a)
  PROVE  StoredOK'
  <2>1. /\ addr' = [addr EXCEPT ![s] = a] /\ had' = had \cup ({a} \ {None})
        /\ a # None => a[1] = s
        /\ UNCHANGED <<want, reading, writer, arr, clients, wanted>>
    BY <1>2 DEF Proxy!ServiceEvent, Proxy!list
  <2>2. \A w, b : Seen(w, b) => Seen(w, b)'
    BY <2>1, RealStays
  <2>3. Real \subseteq Real'
    BY <2>1, RealStays
  <2>4. ASSUME Seen(want, addr)
        PROVE  Seen(want, addr)'
    BY <2>1, <2>4 DEF Seen
  <2> QED
    BY <1>0, <2>1, <2>2, <2>3, <2>4
<1>3. ASSUME NEW h \in Proxy!Passed, NEW s \in Proxy!Used, Proxy!CheckIngress(h, s)
  PROVE  StoredOK'
  BY <1>0, <1>3 DEF Proxy!CheckIngress
<1>4. ASSUME Proxy!syncIngress
  PROVE  StoredOK'
  <2>1. /\ reading' = [reading EXCEPT !["sync"] = Proxy!List(want)]
        /\ UNCHANGED <<want, addr, writer, arr, clients, Proxy!past>>
    BY <1>4 DEF Proxy!syncIngress, Proxy!store, Proxy!list
  <2>2. reading'["sync"] = Proxy!List(want) /\ reading'["review"] = reading["review"]
    BY <2>1
  <2>3. ASSUME Seen(want, addr)
        PROVE  Seen(reading'["sync"].want, reading'["sync"].addr)
    BY <2>2, <2>3 DEF Seen, Proxy!List
  <2> QED
    BY <1>0, <2>1, <2>2, <2>3 DEF Seen, Real, Proxy!past
<1>5. ASSUME Proxy!Reloaded
  PROVE  StoredOK'
  BY <1>0, <1>5 DEF Seen, Real, Proxy!Reloaded, Proxy!store, Proxy!syncing, Proxy!past,
     Proxy!list, Proxy!loop, Proxy!Changed
<1>6. ASSUME Proxy!Rejected
  PROVE  StoredOK'
  BY <1>0, <1>6 DEF Seen, Real, Proxy!Rejected, Proxy!store, Proxy!syncing, Proxy!past,
     Proxy!list, Proxy!loop, Proxy!Changed
<1>7. ASSUME Proxy!Reviewed
  PROVE  StoredOK'
  BY <1>0, <1>7 DEF Seen, Real, Proxy!Reviewed, Proxy!store, Proxy!syncing, Proxy!past,
     Proxy!list, Proxy!loop, Proxy!Changed
<1>8. ASSUME NEW g \in Proxy!Writers, Proxy!WriteLen(g)
  PROVE  StoredOK'
  BY <1>0, <1>8 DEF Seen, Real, Proxy!WriteLen, Proxy!store, Proxy!syncing, Proxy!past,
     Proxy!list, Proxy!loop, Proxy!Changed
<1>9. ASSUME NEW g \in Proxy!Writers, Proxy!WriteArr(g)
  PROVE  StoredOK'
  BY <1>0, <1>9 DEF Seen, Real, Proxy!WriteArr, Proxy!store, Proxy!syncing, Proxy!past,
     Proxy!list, Proxy!loop, Proxy!Changed
<1>10. ASSUME Proxy!SetProxyProtocol
  PROVE  StoredOK'
  BY <1>0, <1>10, ClientsStored DEF Proxy!SetProxyProtocol, Proxy!store, Proxy!syncing, Proxy!list
<1>11. ASSUME Proxy!ReadSetting
  PROVE  StoredOK'
  BY <1>0, <1>11, ClientsStored DEF Proxy!ReadSetting, Proxy!store, Proxy!syncing, Proxy!list
<1>12. ASSUME NEW c \in Clients, Proxy!Accept(c)
  PROVE  StoredOK'
  <2>1. /\ UNCHANGED <<want, addr, reading, writer, arr, Proxy!past>> /\ clients[c].st = "backlog"
        /\ clients' = [clients EXCEPT ![c].st = IF mode THEN "held" ELSE "handled"]
    BY <1>12 DEF Proxy!Accept, Proxy!store, Proxy!syncing, Proxy!list
  <2>2. \A d \in Clients : /\ clients'[d].server = clients[d].server
                           /\ clients'[d].host = clients[d].host
                           /\ d # c => clients'[d].st = clients[d].st
    BY <2>1
  <2> QED
    BY <1>0, <2>1, <2>2, ClientsStored
<1>13. ASSUME NEW c \in Clients, Proxy!GoHandle(c)
  PROVE  StoredOK'
  <2>1. /\ UNCHANGED <<want, addr, reading, writer, arr, Proxy!past>>
        /\ clients' = [clients EXCEPT ![c].st = "handled"] /\ clients[c].st = "held"
    BY <1>13 DEF Proxy!GoHandle, Proxy!store, Proxy!syncing, Proxy!list, AcceptsOK
  <2>2. \A d \in Clients : /\ clients'[d].server = clients[d].server
                           /\ clients'[d].host = clients[d].host
                           /\ d # c => clients'[d].st = clients[d].st
    BY <2>1
  <2> QED
    BY <1>0, <2>1, <2>2, ClientsStored
<1>14. ASSUME NEW c \in Clients, NEW h \in Proxy!Passed, Proxy!Connect(c, h)
  PROVE  StoredOK'
  <2>1. /\ UNCHANGED <<want, addr, reading, writer, arr, Proxy!past>>
        /\ clients' = [clients EXCEPT ![c] = [clients[c] EXCEPT !.st = "backlog", !.host = h]]
        /\ clients[c].st = "new"
    BY <1>14 DEF Proxy!Connect, Proxy!store, Proxy!syncing, Proxy!list
  <2>2. /\ clients'[c].server = clients[c].server
        /\ \A d \in Clients \ {c} : clients'[d] = clients[d]
    BY <2>1
  <2> QED
    BY <1>0, <2>1, <2>2, ClientsStored
<1>15. ASSUME NEW c \in Clients, Proxy!Speak(c)
  PROVE  StoredOK'
  BY <1>0, <1>15, ClientsStored DEF Proxy!Speak, Proxy!store, Proxy!syncing, Proxy!list
<1>16. ASSUME NEW c \in Clients, Proxy!Handle(c)
  PROVE  StoredOK'
  <2>1. PICK srv \in Proxy!Get(clients[c].host) \cup {NginxServer}, st \in {"piped", "closed"} :
          clients' = [clients EXCEPT ![c] = [clients[c] EXCEPT !.server = srv, !.st = st]]
    BY <1>16 DEF Proxy!Handle
  <2>2. srv \in Proxy!Addrs => <<clients[c].host, srv>> \in Entries(arr)
    BY DEF Proxy!Get, Proxy!Listed, Entries
  <2>3. /\ clients'[c].server = srv /\ clients'[c].st = st /\ clients'[c].host = clients[c].host
        /\ \A d \in Clients \ {c} : clients'[d] = clients[d]
    BY <2>1
  <2>4. UNCHANGED <<want, addr, reading, writer, arr, Proxy!past>>
    BY <1>16 DEF Proxy!Handle, Proxy!store, Proxy!syncing, Proxy!list
  <2> QED
    BY <1>0, <2>2, <2>3, <2>4, ClientsStored
<1>17. ASSUME NEW c \in Clients, Proxy!Hangup(c)
  PROVE  StoredOK'
  BY <1>0, <1>17, ClientsStored DEF Proxy!Hangup, Proxy!store, Proxy!syncing, Proxy!list
<1>19. ASSUME NEW g \in Proxy!Writers, NEW s \in Services, Proxy!ReadService(g, s)
  PROVE  StoredOK'
  <2>0. SUFFICES ASSUME "reviews" \notin Proxy!Faults
                 PROVE  StoredOK'
    BY <1>0
  <2>1. g = "sync"
    BY <1>19, <2>0 DEF Proxy!ReadService
  <2> DEFINE r == [want |-> reading[g].want, addr |-> [reading[g].addr EXCEPT ![s] = addr[s]],
                   todo |-> reading[g].todo \ {s}]
  <2>2. /\ reading' = [reading EXCEPT ![g] = r] /\ reading[g] # None
        /\ UNCHANGED <<want, addr, writer, arr, clients, Proxy!past>>
    BY <1>19 DEF Proxy!ReadService, Proxy!store, Proxy!list
  <2>3. reading[g] \in ReadType
    BY <2>2 DEF ReadType
  <2>4. r.want = reading[g].want /\ r.addr = [reading[g].addr EXCEPT ![s] = addr[s]]
    BY <2>3 DEF ReadType
  <2>5. Seen(r.want, r.addr)
    <3>1. Seen(reading[g].want, reading[g].addr) /\ Seen(want, addr)
      BY <2>0, <2>1, <2>2
    <3>2. DOMAIN reading[g].addr = Services
      BY <2>3 DEF ReadType
    <3> HIDE DEF r
    <3> QED
      BY <2>4, <3>1, <3>2 DEF Seen
  <2> HIDE DEF r
  <2>6. reading'["sync"] = r /\ reading'["review"] = reading["review"]
    BY <2>1, <2>2
  <2> QED
    BY <1>0, <2>0, <2>2, <2>5, <2>6 DEF Seen, Real, Proxy!past
<1>20. ASSUME NEW g \in Proxy!Writers, Proxy!Configured(g)
  PROVE  StoredOK'
  <2>0. SUFFICES ASSUME "reviews" \notin Proxy!Faults
                 PROVE  StoredOK'
    BY <1>0
  <2>1. g = "sync"
    BY <1>20, <2>0 DEF Proxy!Configured
  <2> DEFINE b == Proxy!Backends(reading[g].want, reading[g].addr)
  <2>2. /\ writer' \in {writer, [writer EXCEPT ![g] = Proxy!Generate(b)]}
        /\ reading' = [reading EXCEPT ![g] = None] /\ reading[g] # None
        /\ UNCHANGED <<want, addr, arr, clients, Proxy!past>>
    BY <1>20 DEF Proxy!Configured, Proxy!store, Proxy!list
  <2>3. reading[g].want \in [Hosts -> Services \cup {None}]
        /\ reading[g].addr \in [Services -> Proxy!Addrs \cup {None}]
    BY <2>2
  <2>4. Seen(reading[g].want, reading[g].addr)
    BY <2>0, <2>1, <2>2
  <2>5. Entries(Proxy!Generate(b).servers) \subseteq Real
    BY <2>3, <2>4, ListOfServers, SeenIsReal
  <2> HIDE DEF b
  <2>6. reading'["sync"] = None /\ reading'["review"] = None /\ writer'["review"] = None
    BY <2>0, <2>1, <2>2
  <2>7. writer'["sync"] \in {writer["sync"], Proxy!Generate(b)}
    BY <2>1, <2>2
  <2> QED
    BY <1>0, <2>0, <2>2, <2>5, <2>6, <2>7 DEF Seen, Real, Proxy!past
<1>18. ASSUME UNCHANGED allProxy
  PROVE  StoredOK'
  BY <1>0, <1>18, ClientsStored DEF allProxy, Proxy!vars, Proxy!past
<1> QED
  BY <1>1, <1>2, <1>3, <1>4, <1>5, <1>6, <1>7, <1>8, <1>9, <1>10, <1>11, <1>12, <1>13, <1>14,
     <1>15, <1>16, <1>17, <1>18, <1>19, <1>20
  DEF Proxy!Next, Proxy!Step, Proxy!Accepting, Proxy!Holding, Proxy!Opened, Proxy!ProxyAssumption

LEMMA ProxyInit ==
  ASSUME Proxy!ProxyAssumption, Proxy!Init
  PROVE  ProxyInv
<1>1. Proxy!TypeOK
  <2>1. arr \in Proxy!Lists
    <3>1. arr \in [{} -> Proxy!Addrs] /\ {} \in SUBSET Hosts
      BY DEF Proxy!Init
    <3> QED
      BY <3>1 DEF Proxy!Lists
  <2>2. Proxy!Cardinality(Hosts) \in Nat
    BY SameCardinality, FS_CardinalityType DEF Proxy!ProxyAssumption
  <2>3. addr \in [Services -> Proxy!Addrs \cup {None}] /\ running \in Proxy!BackendLists
    BY DEF Proxy!Init, Proxy!Addrs, Proxy!Home, Proxy!BackendLists
  <2>4. proxied \in BOOLEAN
    BY DEF Proxy!Init
  <2> QED
    BY <2>1, <2>2, <2>3, <2>4
    DEF Proxy!Init, Proxy!TypeOK, Proxy!Writers, Proxy!ProxyAssumption, Proxy!MaxChanges
<1>2. AcceptsOK
  BY DEF Proxy!Init, AcceptsOK
<1>3. StoredOK
  <2>1. Seen(want, addr)
    BY DEF Proxy!Init, Seen, Proxy!Home
  <2>2. Entries(arr) = {}
    BY DEF Proxy!Init, Entries
  <2>3. \A c \in Clients : clients[c].server = None
    BY DEF Proxy!Init
  <2> QED
    BY <2>1, <2>2, <2>3 DEF Proxy!Init, StoredOK, Proxy!Writers, Proxy!ProxyAssumption
<1> QED
  BY <1>1, <1>2, <1>3 DEF ProxyInv

\* A change of use-proxy-protocol misses one connection at most, and unless reviews write the
\* list as well, a connection is passed only to an address the store has had for its host,
\* also by a lookup that reads one word of the old list and one of the new (setupSSLProxy
\* and generateTemplate of nginx.go, Get of tcp.go).
THEOREM PassesFaithfully == TlsSpec => []ProxyIsFaithful
<1> DEFINE Inv == OfProxy => ProxyInv
<1>1. TlsInit => Inv
  BY ProxyInit, TlsAssumption DEF TlsInit, OfCertificates, OfProxy
<1>2. Inv /\ [TlsNext]_allVars => Inv'
  <2> SUFFICES ASSUME Inv, [TlsNext]_allVars, OfProxy'
               PROVE  ProxyInv'
    OBVIOUS
  <2>1. UNCHANGED setup
    BY DEF TlsNext, allVars, Next, Proxy!Next
  <2>2. OfProxy /\ ~ OfCertificates
    BY <2>1, TlsAssumption DEF OfCertificates, OfProxy
  <2>3. [Proxy!Next]_allProxy
    BY <2>2 DEF TlsNext, allVars, allProxy, proxyVars, Proxy!vars, Proxy!store, Proxy!list,
                Proxy!loop
  <2> QED
    BY <2>2, <2>3, ProxyTyped, ProxyAccepts, ProxyStored, TlsAssumption DEF ProxyInv
<1>3. ProxyInv => Proxy!ProxyIsFaithful
  <2>1. ProxyInv => Proxy!OneStaleAccept
    BY DEF ProxyInv, AcceptsOK, Proxy!OneStaleAccept
  <2>2. \A c \in Clients : <<clients[c].host, clients[c].server>> \in Real =>
          <<clients[c].host, clients[c].server[1]>> \in wanted /\ clients[c].server \in had
    BY DEF Real
  <2>3. ProxyInv /\ "reviews" \notin Proxy!Faults => Proxy!OnlyStored
    BY <2>2 DEF ProxyInv, StoredOK, Proxy!OnlyStored
  <2> QED
    BY <2>1, <2>3 DEF Proxy!ProxyIsFaithful
<1>4. Inv => ProxyIsFaithful
  BY <1>3 DEF ProxyIsFaithful
<1> QED
  BY <1>1, <1>2, <1>4, PTL DEF TlsSpec
==============================================================================
