----------------------------- MODULE StoreProofs -----------------------------
(***************************************************************************)
(* Proofs about the object store and the annotations: no change of what    *)
(* syncIngress reads is left without an event, but for the two that no     *)
(* handler announces, for every set of ingresses and secrets, every setup  *)
(* and every interleaving of the informers' handlers; and annotations that *)
(* ask for protection protect or deny.                                     *)
(***************************************************************************)
EXTENDS Objects, Integers, TLAPS

Versions == Store!Shapes \cup {None}

\* An informer tells its handler of changes only.
Notes == {n \in [key : Ings, old : Versions, cur : Versions] : n.old # n.cur}

CachesOK ==
  /\ DOMAIN cache = {"ing", "sec", "conf", "extra", "cls", "svc", "ep"}
  /\ cache.ing \in [Ings -> Versions]
  /\ DOMAIN queue = Store!Threads \cup {"class"}
  /\ queue["ingress"] \in Seq(Notes)

LocalOK ==
  /\ DOMAIN withAnn = Ings
  /\ ssl = [s \in Secs |-> ssl[s]]
  /\ \A i \in Ings : withAnn[i] # None => withAnn[i].obj.cm # "bare"

\* The handler of ingresses has one ingress, and an event at the end of both plans.
IngressOK(x) ==
  /\ x.at \in {"idle", "extract", "update", "refs", "secrets", "certs", "put", "event",
               "delete", "unref"}
  /\ x.at \in {"extract", "update", "refs", "secrets", "certs", "put"} => x.plan = "store"
  /\ x.at \in {"extract", "update"} => x.obj.cm # "bare"
  /\ ~x.fin

\* The handler of secrets is to send an event as soon as it has found an ingress to
\* work on.
SecretOK(x) ==
  /\ x.at \in {"idle", "uncert", "references", "loop", "extract", "update", "secrets",
               "certs", "put"}
  /\ x.at # "idle" => /\ x.each \in {"added", "parse", "certified"}
                      /\ x.plan \in {"default", "added", "parse", "certified"}
  /\ x.at \in {"extract", "update", "secrets"} => x.plan # "default"
  /\ x.at \in {"extract", "update", "secrets", "certs", "put"} /\ x.plan # "default" =>
       x.fin /\ x.obj.cm # "bare"
  /\ x.at = "loop" /\ x.ings # {} => x.fin
  /\ x.at \in {"idle", "uncert", "references"} => ~x.fin
  /\ x.at \in {"certs", "put"} /\ x.plan = "default" => ~x.fin

\* The handler of ConfigMaps parses an ingress only if it is to send an event.
ConfigMapOK(x) ==
  /\ x.at \in {"idle", "list", "loop", "extract", "update"}
  /\ x.at # "idle" => x.each = "parse"
  /\ x.at \in {"extract", "update"} => x.plan = "parse" /\ x.fin /\ x.obj.cm # "bare"
  /\ x.at = "idle" => ~x.fin

Fields == {"plan", "at", "key", "ing", "obj", "parsed", "cert", "secs", "ings", "each", "fin"}

HandlerOK(t, x) ==
  /\ DOMAIN x = Fields
  /\ t = "ingress"   => IngressOK(x)
  /\ t = "secret"    => SecretOK(x)
  /\ t = "configmap" => ConfigMapOK(x)

HandlersOK == DOMAIN th = Store!Threads /\ \A t \in Store!Threads : HandlerOK(t, th[t])

\* A handler is going to send an event.  That of secrets does not know it yet while it
\* has dropped a certificate and has not asked for the ingresses that refer to it.
PendingAt(t) ==
  \/ t = "ingress" /\ th[t].at # "idle"
  \/ t # "ingress" /\ th[t].fin
  \/ t = "secret" /\ th[t].at = "references" /\ Store!Reference(th[t].key) # {}

Pending == \E t \in Store!Threads : PendingAt(t)

\* Nothing that is announced at all is missing in the last event.
Covered == Store!Covers(announced, Store!View)

Told == Covered \/ Pending

StoreInv == setup \in DOMAIN StoreSetups /\ CachesOK /\ LocalOK /\ HandlersOK /\ Told

-----------------------------------------------------------------------------
(* Lemmas about the steps *)

LEMMA InitOK ==
  ASSUME Store!Init
  PROVE  StoreInv
<1>1. CachesOK
  <2>1. /\ DOMAIN cache = {"ing", "sec", "conf", "extra", "cls", "svc", "ep"}
        /\ cache.ing = [i \in Ings |-> None] /\ None \in Versions
    BY DEF Store!Init, Versions
  <2>2. DOMAIN queue = Store!Threads \cup {"class"} /\ queue["ingress"] = <<>>
    BY DEF Store!Init, Store!Threads
  <2>3. <<>> \in Seq(Notes)
    OBVIOUS
  <2> QED  BY <2>1, <2>2, <2>3 DEF CachesOK
<1>2. LocalOK
  BY DEF Store!Init, LocalOK
<1>3. HandlersOK
  BY DEF Store!Init, HandlersOK, HandlerOK, Fields, IngressOK, SecretOK, ConfigMapOK,
     Store!Idle, Store!Threads
<1>4. announced = Store!View
  BY DEF Store!Init
<1>5. Covered
  BY <1>4 DEF Covered, Store!Covers
<1> QED  BY <1>1, <1>2, <1>3, <1>5 DEF Store!Init, StoreInv, Told

\* A step that changes nothing that is announced: the certificates that ingresses refer
\* to stay, the default one stays or goes, no ExternalName Service comes or goes.
LEMMA CoveredStays ==
  ASSUME Covered, UNCHANGED <<setup, withAnn, refs, conf, announced>>, cache'.ep = cache.ep,
         cache'.svc = cache.svc \/ "external" \notin {cache.svc, cache'.svc},
         \A s \in Secs : Store!Reference(s) # {} => ssl'[s] = ssl[s],
         Store!DefaultSecret \in Secs \cup {None},
         \A s \in Secs : ssl'[s] \in {ssl[s], None}
  PROVE  Covered'
<1>1. \A s : Store!Reference(s)' = Store!Reference(s)
  BY DEF Store!Reference
<1>2. [s \in {s \in Secs : Store!Reference(s) # {}} |-> ssl[s]]'
        = [s \in {s \in Secs : Store!Reference(s) # {}} |-> ssl[s]]
  BY <1>1
<1>3. Store!DefaultSecret' = Store!DefaultSecret
  BY DEF Store!DefaultSecret
<1>4. /\ Store!View.ing = withAnn /\ Store!View.conf = conf
      /\ Store!View.ep = cache.ep /\ Store!View.svc = cache.svc
      /\ Store!View.cert = [s \in {s \in Secs : Store!Reference(s) # {}} |-> ssl[s]]
      /\ Store!View.default = IF Store!DefaultSecret = None THEN None
                              ELSE ssl[Store!DefaultSecret]
  BY DEF Store!View, Store!ViewWith
<1>5. /\ Store!View'.ing = withAnn' /\ Store!View'.conf = conf'
      /\ Store!View'.ep = cache'.ep /\ Store!View'.svc = cache'.svc
      /\ Store!View'.cert = [s \in {s \in Secs : Store!Reference(s) # {}} |-> ssl[s]]'
      /\ Store!View'.default = IF Store!DefaultSecret = None THEN None
                               ELSE ssl'[Store!DefaultSecret]
  BY <1>3 DEF Store!View, Store!ViewWith
<1> QED  BY <1>2, <1>4, <1>5 DEF Covered, Store!Covers

\* The view is the same if what it is made of is.
LEMMA SameView ==
  ASSUME UNCHANGED <<setup, withAnn, refs, conf, ssl>>, cache'.ep = cache.ep,
         cache'.svc = cache.svc
  PROVE  Store!View' = Store!View
<1>1. \A s : Store!Reference(s)' = Store!Reference(s)
  BY DEF Store!Reference
<1>2. [s \in {s \in Secs : Store!Reference(s) # {}} |-> ssl[s]]'
        = [s \in {s \in Secs : Store!Reference(s) # {}} |-> ssl[s]]
  BY <1>1
<1> QED  BY <1>2 DEF Store!View, Store!ViewWith, Store!DefaultSecret

\* An event for the view covers it.
LEMMA ViewCovered ==
  ASSUME announced' = Store!View'
  PROVE  Covered'
BY DEF Covered, Store!Covers

\* A step of one handler leaves the others where they are.
Moves(t) == DOMAIN th' = Store!Threads /\ \A u \in Store!Threads \ {t} : th'[u] = th[u]

\* What a step of a handler has to keep.
LEMMA StepKeeps ==
  ASSUME StoreInv, UNCHANGED setup, CachesOK', LocalOK',
         NEW t \in Store!Threads, Moves(t), HandlerOK(t, th'[t]),
         \/ announced' = Store!View'
         \/ PendingAt(t)'
         \/ /\ (Covered => Covered') /\ UNCHANGED refs
            /\ PendingAt(t) => PendingAt(t)'
  PROVE  StoreInv'
<1>1. HandlersOK'
  BY DEF StoreInv, HandlersOK, Moves
<1>2. Told'
  <2>1. CASE announced' = Store!View' \/ PendingAt(t)'
    BY <2>1, ViewCovered DEF Told, Pending
  <2>2. CASE /\ (Covered => Covered') /\ UNCHANGED refs
             /\ PendingAt(t) => PendingAt(t)'
    <3>1. CASE Covered
      BY <2>2, <3>1 DEF Told
    <3>2. CASE Pending
      <4>1. PICK u \in Store!Threads : PendingAt(u)
        BY <3>2 DEF Pending
      <4>2. CASE u = t
        BY <2>2, <4>1, <4>2 DEF Told, Pending
      <4>3. CASE u # t
        <5>1. th'[u] = th[u]
          BY <4>3 DEF Moves
        <5>2. PendingAt(u)'
          BY <2>2, <4>1, <5>1 DEF PendingAt, Store!Reference
        <5> QED  BY <5>2 DEF Told, Pending
      <4> QED  BY <4>2, <4>3
    <3> QED  BY <3>1, <3>2 DEF StoreInv, Told
  <2> QED  BY <2>1, <2>2
<1> QED  BY <1>1, <1>2 DEF StoreInv

\* A step that changes nothing of what syncIngress reads.
LEMMA SilentKeeps ==
  ASSUME StoreInv, UNCHANGED <<setup, cache, withAnn, refs, ssl, conf>>, CachesOK',
         NEW t \in Store!Threads, Moves(t), HandlerOK(t, th'[t]),
         announced' = Store!View \/ (announced' = announced /\ (PendingAt(t) => PendingAt(t)'))
  PROVE  StoreInv'
<1>1. Store!View' = Store!View
  BY SameView
<1>2. LocalOK'
  BY DEF StoreInv, LocalOK
<1>3. announced' = announced => (Covered => Covered')
  BY <1>1 DEF Covered
<1> QED  BY <1>1, <1>2, <1>3, StepKeeps

LEMMA CachesKept ==
  ASSUME StoreInv, UNCHANGED <<setup, cache, queue>>
  PROVE  CachesOK'
<1>1. Notes' = Notes /\ Versions' = Versions
  BY DEF Notes, Versions, Store!Shapes
<1> QED  BY <1>1 DEF StoreInv, CachesOK

\* The next step of a plan is one of the handler's.
LEMMA AfterOK ==
  ASSUME NEW t \in Store!Threads, NEW x, HandlerOK(t, x), NEW step,
         x.at \in {"extract", "update", "refs", "secrets", "put", "certs", "delete", "unref",
                   "uncert"},
         step = x.at \/ (x.at = "extract" /\ step = "update"),
         NEW y, y.at = Store!After(x.plan, step), y.plan = x.plan, y.obj = x.obj, y.each = x.each,
         y.ings = x.ings, y.fin = x.fin, DOMAIN y = DOMAIN x
  PROVE  HandlerOK(t, y)
<1>1. CASE t = "ingress"
  <2>1. IngressOK(x)
    BY <1>1 DEF HandlerOK
  <2>2. IngressOK(y)
    BY <2>1 DEF IngressOK, Store!After
  <2> QED  BY <1>1, <2>2 DEF HandlerOK
<1>2. CASE t = "secret"
  <2>1. SecretOK(x)
    BY <1>2 DEF HandlerOK
  <2>2. SecretOK(y)
    BY <2>1 DEF SecretOK, Store!After
  <2> QED  BY <1>2, <2>2 DEF HandlerOK
<1>3. CASE t = "configmap"
  <2>1. ConfigMapOK(x)
    BY <1>3 DEF HandlerOK
  <2>2. ConfigMapOK(y)
    BY <2>1 DEF ConfigMapOK, Store!After
  <2> QED  BY <1>3, <2>2 DEF HandlerOK
<1> QED  BY <1>1, <1>2, <1>3 DEF Store!Threads
-----------------------------------------------------------------------------
(* The cluster *)

\* What the handlers and the local store know does not change.
Still == UNCHANGED <<withAnn, refs, ssl, conf, th, setup>>

\* The cluster changes a cache; unless endpoints or a service that matters changed,
\* the view is the same.
LEMMA CacheKeeps ==
  ASSUME StoreInv, Still, CachesOK',
         announced' = Store!View' \/ (Covered => Covered')
  PROVE  StoreInv'
<1>1. LocalOK' /\ HandlersOK'
  BY DEF Still, StoreInv, LocalOK, HandlersOK
<1>2. Pending' <=> Pending
  BY DEF Still, Pending, PendingAt, Store!Reference
<1>3. Told'
  BY <1>2, ViewCovered DEF StoreInv, Told
<1> QED  BY <1>1, <1>3 DEF StoreInv, Still

\* Notifications go to the end of a queue.
LEMMA NotifyOK ==
  ASSUME CachesOK, UNCHANGED setup, NEW t \in Store!Threads \cup {"class"}, NEW n,
         Store!Notify(t, n),
         DOMAIN cache' = DOMAIN cache,
         cache'.ing \in [Ings -> Versions],
         t = "ingress" => n \in Notes
  PROVE  CachesOK'
<1>1. Versions' = Versions /\ Notes' = Notes
  BY DEF Versions, Notes, Store!Shapes
<1>2. /\ DOMAIN queue' = Store!Threads \cup {"class"}
      /\ queue'["ingress"] = IF t = "ingress" THEN Append(queue["ingress"], n)
                             ELSE queue["ingress"]
  BY DEF Store!Notify, CachesOK, Store!Threads
<1>3. queue'["ingress"] \in Seq(Notes)
  BY <1>2 DEF CachesOK
<1> QED  BY <1>1, <1>2, <1>3 DEF CachesOK

LEMMA ClusterKeeps ==
  ASSUME Store!StoreAssumption, StoreInv, Store!Cluster, UNCHANGED setup
  PROVE  StoreInv'
<1>0. CachesOK /\ Versions' = Versions /\ Notes' = Notes
  BY DEF StoreInv, Versions, Notes, Store!Shapes
<1>1. CASE Store!InformerRun
  <2>1. UNCHANGED <<cache, queue, withAnn, refs, ssl, conf, th, announced>>
    BY <1>1 DEF Store!InformerRun
  <2>2. CachesOK'
    BY <1>0, <2>1 DEF CachesOK
  <2>3. Store!View' = Store!View
    BY <2>1, SameView
  <2> QED  BY <2>1, <2>2, <2>3, CacheKeeps DEF Still, Covered
<1>2. ASSUME NEW i \in Ings, NEW o \in Versions, Store!ChangeIngress(i, o)
      PROVE  StoreInv'
  <2>1. /\ UNCHANGED <<withAnn, refs, ssl, conf, th, announced>> /\ cache.ing[i] # o
        /\ cache' = [cache EXCEPT !.ing = [cache.ing EXCEPT ![i] = o]]
    BY <1>2 DEF Store!ChangeIngress, Store!Local
  <2>2. /\ DOMAIN cache' = DOMAIN cache /\ cache'.ep = cache.ep /\ cache'.svc = cache.svc
        /\ cache'.ing = [cache.ing EXCEPT ![i] = o]
    BY <1>0, <2>1 DEF CachesOK
  <2>3. Store!View' = Store!View
    BY <2>1, <2>2, SameView
  <2>4. cache'.ing \in [Ings -> Versions] /\ cache.ing[i] \in Versions
    BY <1>0, <2>2 DEF CachesOK
  <2>5. [key |-> i, old |-> cache.ing[i], cur |-> o] \in Notes
    BY <2>1, <2>4 DEF Notes
  <2>6. CachesOK'
    BY <1>0, <1>2, <2>2, <2>4, <2>5, NotifyOK DEF Store!ChangeIngress, Store!Threads
  <2> QED  BY <2>1, <2>3, <2>6, CacheKeeps DEF Still, Covered
<1>3. ASSUME NEW s \in Secs, NEW c, Store!ChangeSecret(s, c)
      PROVE  StoreInv'
  <2>1. /\ UNCHANGED <<withAnn, refs, ssl, conf, th, announced>>
        /\ cache' = [cache EXCEPT !.sec = [cache.sec EXCEPT ![s] = c]]
    BY <1>3 DEF Store!ChangeSecret, Store!Local
  <2>2. /\ DOMAIN cache' = DOMAIN cache
        /\ cache'.ep = cache.ep /\ cache'.svc = cache.svc /\ cache'.ing = cache.ing
    BY <1>0, <2>1 DEF CachesOK
  <2>3. Store!View' = Store!View
    BY <2>1, <2>2, SameView
  <2>4. CachesOK'
    <3>1. cache'.ing \in [Ings -> Versions]
      BY <1>0, <2>2 DEF CachesOK
    <3>2. PICK n : n = [key |-> s, old |-> cache.sec[s], cur |-> c]
      OBVIOUS
    <3>3. Store!Notify("secret", n) /\ "secret" \in Store!Threads
      BY <1>3, <3>2 DEF Store!ChangeSecret, Store!Threads
    <3> QED  BY <1>0, <2>2, <3>1, <3>3, NotifyOK
  <2> QED  BY <2>1, <2>3, <2>4, CacheKeeps DEF Still, Covered
<1>4. ASSUME NEW k \in {"conf", "extra"}, NEW v, Store!ChangeConfigMap(k, v)
      PROVE  StoreInv'
  <2>1. /\ UNCHANGED <<withAnn, refs, ssl, conf, th, announced>>
        /\ cache' = IF k = "conf" THEN [cache EXCEPT !.conf = v] ELSE [cache EXCEPT !.extra = v]
    BY <1>4 DEF Store!ChangeConfigMap, Store!Local
  <2>2. /\ DOMAIN cache' = DOMAIN cache
        /\ cache'.ep = cache.ep /\ cache'.svc = cache.svc /\ cache'.ing = cache.ing
    BY <1>0, <2>1 DEF CachesOK
  <2>3. Store!View' = Store!View
    BY <2>1, <2>2, SameView
  <2>4. CachesOK'
    <3>1. cache'.ing \in [Ings -> Versions]
      BY <1>0, <2>2 DEF CachesOK
    <3>2. PICK n : n = [key |-> k, cur |-> v]
      OBVIOUS
    <3>3. Store!Notify("configmap", n) /\ "configmap" \in Store!Threads
      BY <1>4, <3>2 DEF Store!ChangeConfigMap, Store!Threads
    <3> QED  BY <1>0, <2>2, <3>1, <3>3, NotifyOK
  <2> QED  BY <2>1, <2>3, <2>4, CacheKeeps DEF Still, Covered
<1>5. ASSUME NEW v, Store!ChangeClass(v)
      PROVE  StoreInv'
  <2>1. /\ UNCHANGED <<withAnn, refs, ssl, conf, th, announced>>
        /\ cache' = [cache EXCEPT !.cls = v]
    BY <1>5 DEF Store!ChangeClass, Store!Local
  <2>2. /\ DOMAIN cache' = DOMAIN cache
        /\ cache'.ep = cache.ep /\ cache'.svc = cache.svc /\ cache'.ing = cache.ing
    BY <1>0, <2>1 DEF CachesOK
  <2>3. Store!View' = Store!View
    BY <2>1, <2>2, SameView
  <2>4. CachesOK'
    <3>1. cache'.ing \in [Ings -> Versions]
      BY <1>0, <2>2 DEF CachesOK
    <3>2. PICK n : n = [old |-> cache.cls, cur |-> v]
      OBVIOUS
    <3>3. Store!Notify("class", n) /\ "class" # "ingress"
      BY <1>5, <3>2 DEF Store!ChangeClass
    <3> QED  BY <1>0, <2>2, <3>1, <3>3, NotifyOK
  <2> QED  BY <2>1, <2>3, <2>4, CacheKeeps DEF Still, Covered
<1>6. ASSUME NEW v, Store!ChangeEndpoints(v)
      PROVE  StoreInv'
  <2>1. /\ UNCHANGED <<queue, withAnn, refs, ssl, conf, th>>
        /\ cache' = [cache EXCEPT !.ep = v] /\ announced' = Store!ViewWith(ssl, cache')
    BY <1>6 DEF Store!ChangeEndpoints, Store!Local, Store!EndpointsEvent
  <2>2. announced' = Store!View'
    BY <2>1 DEF Store!View, Store!ViewWith, Store!Reference, Store!DefaultSecret
  <2>3. CachesOK'
    BY <1>0, <2>1 DEF CachesOK
  <2> QED  BY <2>1, <2>2, <2>3, CacheKeeps DEF Still
<1>7. ASSUME NEW v, Store!ChangeService(v)
      PROVE  StoreInv'
  <2>1. /\ UNCHANGED <<queue, withAnn, refs, ssl, conf, th>> /\ cache.svc # v
        /\ cache' = [cache EXCEPT !.svc = v]
        /\ announced' = IF Store!ServiceEvent(cache.svc, v) THEN Store!ViewWith(ssl, cache')
                        ELSE announced
    BY <1>7 DEF Store!ChangeService, Store!Local
  <2>2. /\ DOMAIN cache' = DOMAIN cache
        /\ cache'.ep = cache.ep /\ cache'.ing = cache.ing /\ cache'.svc = v
    BY <1>0, <2>1 DEF CachesOK
  <2>3. CASE Store!ServiceEvent(cache.svc, v)
    <3>1. announced' = Store!View'
      BY <2>1, <2>3 DEF Store!View, Store!ViewWith, Store!Reference, Store!DefaultSecret
    <3>2. CachesOK'
      BY <1>0, <2>1, <2>2 DEF CachesOK
    <3> QED  BY <2>1, <3>1, <3>2, CacheKeeps DEF Still
  <2>4. CASE ~Store!ServiceEvent(cache.svc, v)
    <3>1. Store!DefaultSecret \in Secs \cup {None}
      BY DEF Store!StoreAssumption, StoreInv, Store!DefaultSecret
    <3>2. "external" \notin {cache.svc, cache'.svc}
      BY <2>1, <2>2, <2>4 DEF Store!ServiceEvent, Store!StoreAssumption
    <3>3. Covered => Covered'
      BY <2>1, <2>2, <2>4, <3>1, <3>2, CoveredStays
    <3>4. CachesOK'
      BY <1>0, <2>1, <2>2 DEF CachesOK
    <3> QED  BY <2>1, <3>3, <3>4, CacheKeeps DEF Still
  <2> QED  BY <2>3, <2>4
<1> QED  BY <1>1, <1>2, <1>3, <1>4, <1>5, <1>6, <1>7 DEF Store!Cluster, Versions

-----------------------------------------------------------------------------
(* The handlers take a notification *)

LEMMA IngressHandlerKeeps ==
  ASSUME Store!Documented, StoreInv, Store!IngressHandler, UNCHANGED setup
  PROVE  StoreInv'
<1>1. /\ queue["ingress"] # <<>> /\ queue' = [queue EXCEPT !["ingress"] = Tail(@)]
      /\ UNCHANGED <<cache, withAnn, refs, ssl, conf, announced>>
      /\ th["ingress"] = Store!Idle
  BY DEF Store!IngressHandler, Store!Take, Store!Drop
<1>2. PICK n \in Notes : n = Head(queue["ingress"])
  BY <1>1 DEF StoreInv, CachesOK
<1>3. PICK plan : plan = IF n.old = None THEN Store!AddPlan(n.cur)
                         ELSE IF n.cur = None THEN Store!DelPlan(n.old)
                         ELSE Store!UpdatePlan(n.old, n.cur)
  OBVIOUS
<1>4. plan \in {None, "store", "delete"} /\ (plan = "store" => n.cur # None \/ plan = None)
  <2>1. n.old # n.cur
    BY <1>2 DEF Notes
  <2> QED  BY <1>3, <2>1 DEF Store!AddPlan, Store!DelPlan, Store!UpdatePlan
<1>5. th' = [th EXCEPT !["ingress"] =
               IF plan = None THEN Store!Idle
               ELSE [Store!Idle EXCEPT !.plan = plan, !.at = Store!First(plan),
                                !.ing = n.key, !.obj = n.cur]]
  BY <1>2, <1>3 DEF Store!IngressHandler, Store!Take
<1>6. Moves("ingress") /\ "ingress" \in Store!Threads
  BY <1>5 DEF StoreInv, HandlersOK, Moves, Store!Threads
<1>7. th'["ingress"] =
        IF plan = None THEN Store!Idle
        ELSE [Store!Idle EXCEPT !.plan = plan, !.at = Store!First(plan),
                         !.ing = n.key, !.obj = n.cur]
  BY <1>5, <1>6 DEF StoreInv, HandlersOK
<1>8. HandlerOK("ingress", th'["ingress"])
  <2>1. CASE plan = None
    BY <1>7, <2>1 DEF HandlerOK, IngressOK, Store!Idle, Fields
  <2>2. CASE plan = "delete" /\ plan # None
    BY <1>7, <2>2 DEF HandlerOK, IngressOK, Store!Idle, Store!First, Fields
  <2>3. CASE plan = "store" /\ plan # None
    <3>1. n.cur \in Store!Shapes
      BY <1>2, <1>4, <2>3 DEF Notes, Versions
    <3>2. n.cur.cm # "bare"
      BY <3>1 DEF Store!Documented
    <3> QED  BY <1>7, <2>3, <3>2 DEF HandlerOK, IngressOK, Store!Idle, Store!First, Fields
  <2> QED  BY <1>4, <2>1, <2>2, <2>3
<1>9. CachesOK'
  <2>1. Notes' = Notes /\ Versions' = Versions
    BY DEF Notes, Versions, Store!Shapes
  <2>2. queue'["ingress"] = Tail(queue["ingress"]) /\ DOMAIN queue' = DOMAIN queue
    BY <1>1 DEF StoreInv, CachesOK, Store!Threads
  <2>3. Tail(queue["ingress"]) \in Seq(Notes)
    BY <1>1 DEF StoreInv, CachesOK
  <2> QED  BY <1>1, <2>1, <2>2, <2>3 DEF StoreInv, CachesOK
<1>10. ~PendingAt("ingress")
  BY <1>1 DEF PendingAt, Store!Idle
<1> QED  BY <1>1, <1>6, <1>8, <1>9, <1>10, SilentKeeps

\* Taking from another queue.
LEMMA DropKeeps ==
  ASSUME StoreInv, UNCHANGED <<setup, cache>>, NEW t, t # "ingress", Store!Drop(t)
  PROVE  CachesOK'
<1>1. Notes' = Notes /\ Versions' = Versions
  BY DEF Notes, Versions, Store!Shapes
<1>2. queue'["ingress"] = queue["ingress"] /\ DOMAIN queue' = DOMAIN queue
  BY DEF Store!Drop, StoreInv, CachesOK
<1> QED  BY <1>1, <1>2 DEF StoreInv, CachesOK

LEMMA SecretHandlerKeeps ==
  ASSUME StoreInv, Store!SecretHandler, UNCHANGED setup
  PROVE  StoreInv'
<1>1. /\ Store!Drop("secret") /\ th["secret"] = Store!Idle
      /\ UNCHANGED <<cache, withAnn, refs, ssl, conf, announced>>
  BY DEF Store!SecretHandler, Store!Take
<1>2. PICK n : n = Head(queue["secret"])
  OBVIOUS
<1>3. PICK step : step = IF n.cur = None THEN "uncert"
                         ELSE IF n.key = Store!DefaultSecret THEN Store!First("default")
                         ELSE "references"
  OBVIOUS
<1>4. PICK each : each = Store!EachIngress(n)
  OBVIOUS
<1>5. th' = [th EXCEPT !["secret"] =
               [Store!Idle EXCEPT !.plan = "default", !.at = step, !.key = n.key,
                            !.secs = {n.key}, !.each = each]]
  BY <1>2, <1>3, <1>4 DEF Store!SecretHandler, Store!Take
<1>6. Moves("secret") /\ "secret" \in Store!Threads
  BY <1>5 DEF StoreInv, HandlersOK, Moves, Store!Threads
<1>7. th'["secret"] = [Store!Idle EXCEPT !.plan = "default", !.at = step, !.key = n.key,
                                   !.secs = {n.key}, !.each = each]
  BY <1>5, <1>6 DEF StoreInv, HandlersOK
<1>8. step \in {"uncert", "certs", "references"} /\ each \in {"added", "parse", "certified"}
  BY <1>3, <1>4 DEF Store!First, Store!EachIngress
<1>9. HandlerOK("secret", th'["secret"])
  BY <1>7, <1>8 DEF HandlerOK, SecretOK, Store!Idle, Fields
<1>10. ~PendingAt("secret")
  BY <1>1 DEF PendingAt, Store!Idle
<1>11. CachesOK'
  BY <1>1, DropKeeps
<1> QED  BY <1>1, <1>6, <1>9, <1>10, <1>11, SilentKeeps

\* A change of the settings is announced at the end of the loop.
LEMMA ConfigMapHandlerKeeps ==
  ASSUME StoreInv, Store!ConfigMapHandler, UNCHANGED setup
  PROVE  StoreInv'
<1>1. /\ Store!Drop("configmap") /\ th["configmap"] = Store!Idle
      /\ UNCHANGED <<cache, withAnn, refs, ssl, announced>>
  BY DEF Store!ConfigMapHandler
<1>2. PICK n : n = Head(queue["configmap"])
  OBVIOUS
<1>3. /\ conf' = IF n.key = "conf" THEN n.cur ELSE conf
      /\ th' = [th EXCEPT !["configmap"] =
                  [Store!Idle EXCEPT !.at = "list", !.fin = (n.key = "conf"), !.each = "parse"]]
  BY <1>2 DEF Store!ConfigMapHandler
<1>4. Moves("configmap") /\ "configmap" \in Store!Threads
  BY <1>3 DEF StoreInv, HandlersOK, Moves, Store!Threads
<1>5. th'["configmap"] =
        [Store!Idle EXCEPT !.at = "list", !.fin = (n.key = "conf"), !.each = "parse"]
  BY <1>3, <1>4 DEF StoreInv, HandlersOK
<1>6. HandlerOK("configmap", th'["configmap"])
  BY <1>5 DEF HandlerOK, ConfigMapOK, Store!Idle, Fields
<1>7. CachesOK'
  BY <1>1, DropKeeps
<1>8. LocalOK'
  BY <1>1 DEF StoreInv, LocalOK
<1>9. CASE n.key = "conf"
  <2>1. PendingAt("configmap")'
    BY <1>5, <1>9 DEF PendingAt, Store!Idle
  <2> QED  BY <1>4, <1>6, <1>7, <1>8, <2>1, StepKeeps
<1>10. CASE n.key # "conf"
  <2>1. ~PendingAt("configmap")
    BY <1>1 DEF PendingAt, Store!Idle
  <2> QED  BY <1>1, <1>3, <1>4, <1>6, <1>7, <1>10, <2>1, SilentKeeps
<1> QED  BY <1>9, <1>10

LEMMA ClassHandlerKeeps ==
  ASSUME StoreInv, Store!ClassHandler, UNCHANGED setup
  PROVE  StoreInv'
<1>1. /\ Store!Drop("class") /\ UNCHANGED <<cache, withAnn, refs, ssl, conf, th>>
      /\ announced' \in {Store!View, announced}
  BY DEF Store!ClassHandler
<1>2. CachesOK'
  BY <1>1, DropKeeps
<1>3. Store!View' = Store!View
  BY <1>1, SameView
<1> QED  BY <1>1, <1>2, <1>3, CacheKeeps DEF Still, Covered

-----------------------------------------------------------------------------
(* The steps of the handlers *)

\* What a step that advances handler t does to the goroutines.
LEMMA Advanced ==
  ASSUME StoreInv, NEW t \in Store!Threads, NEW new, Store!Advance(t, new)
  PROVE  Moves(t) /\ th'[t] = new
BY DEF StoreInv, HandlersOK, Store!Advance, Moves

LEMMA AnyOK ==
  ASSUME StoreInv, NEW t \in Store!Threads
  PROVE  HandlerOK(t, th[t])
BY DEF StoreInv, HandlersOK

LEMMA ExtractKeeps ==
  ASSUME StoreInv, NEW t \in Store!Threads, Store!SyncIngressExtract(t), UNCHANGED setup
  PROVE  StoreInv'
<1>1. th[t].at = "extract" /\ UNCHANGED <<cache, queue, withAnn, refs, conf>>
  BY DEF Store!SyncIngressExtract, Store!AtStep
<1>2. HandlerOK(t, th[t]) /\ CachesOK' /\ DOMAIN th[t] = Fields
  BY <1>1, AnyOK, CachesKept DEF HandlerOK
<1>3. CASE Store!BadAnnotationValue(th[t].obj, conf)
  <2>1. PICK new : new = [th[t] EXCEPT !.at = Store!After(th[t].plan, "update")]
    OBVIOUS
  <2>2. Store!Advance(t, new) /\ UNCHANGED <<ssl, announced>>
    BY <1>3, <2>1 DEF Store!SyncIngressExtract
  <2>3. Moves(t) /\ th'[t] = new
    BY <2>2, Advanced
  <2>4. /\ new.at = Store!After(th[t].plan, "update") /\ new.plan = th[t].plan
        /\ new.obj = th[t].obj /\ new.each = th[t].each /\ new.ings = th[t].ings
        /\ new.fin = th[t].fin /\ DOMAIN new = DOMAIN th[t]
    BY <1>2, <2>1 DEF Fields
  <2>5. HandlerOK(t, th'[t])
    BY <1>1, <1>2, <2>3, <2>4, AfterOK
  <2>6. PendingAt(t) => PendingAt(t)'
    BY <1>1, <1>2, <2>3, <2>4 DEF PendingAt, HandlerOK, IngressOK, Store!After
  <2> QED  BY <1>1, <1>2, <2>2, <2>3, <2>5, <2>6, SilentKeeps
<1>4. CASE ~Store!BadAnnotationValue(th[t].obj, conf)
  <2>1. PICK missing :
          missing = {s \in th[t].obj.mtls : ssl[s] = None /\ Store!GetPemCertificate(s) # None}
    OBVIOUS
  <2>2. PICK new : new = [Store!Rest(t) EXCEPT !.parsed = Store!Extract(th[t].obj)]
    OBVIOUS
  <2>3. /\ ssl' = [s \in Secs |-> IF s \in missing THEN Store!GetPemCertificate(s) ELSE ssl[s]]
        /\ announced' = IF missing # {} THEN Store!ViewWith(ssl', cache) ELSE announced
        /\ Store!Advance(t, new)
    BY <1>4, <2>1, <2>2 DEF Store!SyncIngressExtract
  <2>4. Moves(t) /\ th'[t] = new
    BY <2>3, Advanced
  <2>5. /\ new.at = Store!After(th[t].plan, "extract") /\ new.plan = th[t].plan
        /\ new.obj = th[t].obj /\ new.each = th[t].each /\ new.ings = th[t].ings
        /\ new.fin = th[t].fin /\ DOMAIN new = DOMAIN th[t]
    BY <1>1, <1>2, <2>2 DEF Store!Rest, Fields
  <2>6. HandlerOK(t, th'[t])
    BY <1>1, <1>2, <2>4, <2>5, AfterOK
  <2>7. PendingAt(t) => PendingAt(t)'
    BY <1>1, <1>2, <2>4, <2>5 DEF PendingAt, HandlerOK, IngressOK, Store!After
  <2>8. LocalOK'
    BY <1>1, <2>3 DEF StoreInv, LocalOK
  <2>9. CASE missing # {}
    <3>1. announced' = Store!View'
      BY <1>1, <2>3, <2>9 DEF Store!View, Store!ViewWith, Store!Reference, Store!DefaultSecret
    <3> QED  BY <1>2, <2>4, <2>6, <2>8, <3>1, StepKeeps
  <2>10. CASE missing = {}
    <3>1. ssl' = ssl /\ announced' = announced
      BY <2>3, <2>10 DEF StoreInv, LocalOK
    <3>2. Covered => Covered'
      BY <1>1, <3>1, SameView DEF Covered
    <3> QED  BY <1>1, <1>2, <2>4, <2>6, <2>7, <2>8, <3>2, StepKeeps
  <2> QED  BY <2>9, <2>10
<1> QED  BY <1>3, <1>4

\* An ingress is parsed anew only by a handler that sends an event afterwards.
LEMMA UpdateKeeps ==
  ASSUME StoreInv, NEW t \in Store!Threads, Store!SyncIngressUpdate(t), UNCHANGED setup
  PROVE  StoreInv'
<1>1. /\ th[t].at = "update" /\ UNCHANGED <<cache, queue, refs, ssl, conf, announced>>
      /\ withAnn' = [withAnn EXCEPT ![th[t].ing] = Store!Parsed(th[t].obj, th[t].parsed)]
  BY DEF Store!SyncIngressUpdate, Store!AtStep
<1>2. HandlerOK(t, th[t]) /\ CachesOK' /\ DOMAIN th[t] = Fields
  BY <1>1, AnyOK, CachesKept DEF HandlerOK
<1>3. PICK new : new = Store!Rest(t)
  OBVIOUS
<1>4. Moves(t) /\ th'[t] = new
  BY <1>3, Advanced DEF Store!SyncIngressUpdate
<1>5. /\ new.at = Store!After(th[t].plan, "update") /\ new.plan = th[t].plan
      /\ new.obj = th[t].obj /\ new.each = th[t].each /\ new.ings = th[t].ings
      /\ new.fin = th[t].fin /\ DOMAIN new = DOMAIN th[t]
  BY <1>1, <1>2, <1>3 DEF Store!Rest, Fields
<1>6. HandlerOK(t, th'[t])
  BY <1>1, <1>2, <1>4, <1>5, AfterOK
<1>7. th[t].obj.cm # "bare"
  BY <1>1, <1>2 DEF HandlerOK, IngressOK, SecretOK, ConfigMapOK, Store!Threads
<1>8. LocalOK'
  BY <1>1, <1>7 DEF StoreInv, LocalOK, Store!Parsed
<1>9. PendingAt(t)'
  <2>1. t = "ingress" => new.at = "refs"
    BY <1>1, <1>2, <1>5 DEF HandlerOK, IngressOK, Store!After
  <2>2. t # "ingress" => new.fin
    BY <1>1, <1>2, <1>5 DEF HandlerOK, SecretOK, ConfigMapOK, Store!Threads
  <2> QED  BY <1>4, <2>1, <2>2 DEF PendingAt
<1> QED  BY <1>2, <1>4, <1>6, <1>8, <1>9, StepKeeps

\* The handler of ingresses changes what it likes until it sends its event.
LEMMA IngressStepKeeps ==
  ASSUME StoreInv, UNCHANGED <<setup, cache, queue, ssl, conf>>, LocalOK',
         Store!Advance("ingress", Store!Rest("ingress")),
         th["ingress"].at \in {"refs", "delete", "unref"}
  PROVE  StoreInv'
<1>1. HandlerOK("ingress", th["ingress"]) /\ CachesOK' /\ DOMAIN th["ingress"] = Fields
  BY AnyOK, CachesKept DEF HandlerOK, Store!Threads
<1>2. PICK new : new = Store!Rest("ingress")
  OBVIOUS
<1>3. Moves("ingress") /\ th'["ingress"] = new /\ "ingress" \in Store!Threads
  BY <1>2, Advanced DEF Store!Threads
<1>4. /\ new.at = Store!After(th["ingress"].plan, th["ingress"].at)
      /\ new.plan = th["ingress"].plan /\ new.obj = th["ingress"].obj
      /\ new.each = th["ingress"].each /\ new.ings = th["ingress"].ings
      /\ new.fin = th["ingress"].fin /\ DOMAIN new = DOMAIN th["ingress"]
  BY <1>1, <1>2 DEF Store!Rest, Fields
<1>5. HandlerOK("ingress", th'["ingress"])
  BY <1>1, <1>3, <1>4, AfterOK
<1>6. PendingAt("ingress")'
  BY <1>3, <1>4 DEF PendingAt, Store!After
<1> QED  BY <1>1, <1>3, <1>5, <1>6, StepKeeps

LEMMA RefsKeeps ==
  ASSUME StoreInv, NEW t \in Store!Threads, Store!UpdateSecretIngressMap(t), UNCHANGED setup
  PROVE  StoreInv'
<1>1. /\ th[t].at = "refs" /\ UNCHANGED <<cache, queue, withAnn, ssl, conf>>
      /\ Store!Advance(t, Store!Rest(t))
  BY DEF Store!UpdateSecretIngressMap, Store!AtStep
<1>2. t = "ingress"
  BY <1>1, AnyOK DEF HandlerOK, SecretOK, ConfigMapOK, Store!Threads
<1>3. LocalOK'
  BY <1>1 DEF StoreInv, LocalOK
<1> QED  BY <1>1, <1>2, <1>3, IngressStepKeeps

LEMMA DeleteIngressKeeps ==
  ASSUME StoreInv, Store!DeleteIngress \/ Store!DeleteReferences, UNCHANGED setup
  PROVE  StoreInv'
<1>1. CASE Store!DeleteIngress
  <2>1. /\ th["ingress"].at = "delete" /\ UNCHANGED <<cache, queue, ssl, conf>>
        /\ Store!Advance("ingress", Store!Rest("ingress"))
        /\ withAnn' = [withAnn EXCEPT ![th["ingress"].ing] = None]
    BY <1>1 DEF Store!DeleteIngress, Store!AtStep
  <2>2. LocalOK'
    BY <2>1 DEF StoreInv, LocalOK
  <2> QED  BY <2>1, <2>2, IngressStepKeeps
<1>2. CASE Store!DeleteReferences
  <2>1. /\ th["ingress"].at = "unref" /\ UNCHANGED <<cache, queue, withAnn, ssl, conf>>
        /\ Store!Advance("ingress", Store!Rest("ingress"))
    BY <1>2 DEF Store!DeleteReferences, Store!AtStep
  <2>2. LocalOK'
    BY <2>1 DEF StoreInv, LocalOK
  <2> QED  BY <2>1, <2>2, IngressStepKeeps
<1> QED  BY <1>1, <1>2

LEMMA SecretsKeeps ==
  ASSUME StoreInv, NEW t \in Store!Threads, UNCHANGED setup,
         Store!SyncSecrets(t) \/ Store!SyncSecretsDone(t)
           \/ \E s \in Secs : Store!SyncSecretRead(t, s)
  PROVE  StoreInv'
<1>1. /\ UNCHANGED <<cache, queue, withAnn, refs, ssl, conf, announced>>
      /\ th[t].at \in {"secrets", "certs"}
  BY DEF Store!SyncSecrets, Store!SyncSecretsDone, Store!SyncSecretRead, Store!AtStep
<1>2. HandlerOK(t, th[t]) /\ CachesOK' /\ DOMAIN th[t] = Fields
  BY <1>1, AnyOK, CachesKept DEF HandlerOK
<1>3. ASSUME NEW secs, Store!Advance(t, [Store!Rest(t) EXCEPT !.secs = secs])
      PROVE  HandlerOK(t, th'[t]) /\ Moves(t) /\ (PendingAt(t) => PendingAt(t)')
  <2>1. PICK new : new = [Store!Rest(t) EXCEPT !.secs = secs]
    OBVIOUS
  <2>2. Moves(t) /\ th'[t] = new
    BY <1>3, <2>1, Advanced
  <2>3. /\ new.at = Store!After(th[t].plan, th[t].at) /\ new.plan = th[t].plan
        /\ new.obj = th[t].obj /\ new.each = th[t].each /\ new.ings = th[t].ings
        /\ new.fin = th[t].fin /\ DOMAIN new = DOMAIN th[t]
    BY <1>1, <1>2, <2>1 DEF Store!Rest, Fields
  <2>4. HandlerOK(t, th'[t])
    BY <1>1, <1>2, <2>2, <2>3, AfterOK
  <2>5. PendingAt(t) => PendingAt(t)'
    BY <1>1, <1>2, <2>2, <2>3 DEF PendingAt, HandlerOK, IngressOK, Store!After
  <2> QED  BY <2>2, <2>4, <2>5
<1>4. CASE Store!SyncSecrets(t)
  <2>1. Store!Advance(t, [Store!Rest(t) EXCEPT !.secs = Store!ReferencedBy(th[t].ing)])
    BY <1>4 DEF Store!SyncSecrets
  <2> QED  BY <1>1, <1>2, <1>3, <2>1, SilentKeeps
<1>5. CASE Store!SyncSecretsDone(t)
  <2>1. [Store!Rest(t) EXCEPT !.secs = Store!Rest(t).secs] = Store!Rest(t)
    BY <1>2 DEF Store!Rest, Fields
  <2>2. Store!Advance(t, [Store!Rest(t) EXCEPT !.secs = Store!Rest(t).secs])
    BY <1>5, <2>1 DEF Store!SyncSecretsDone
  <2> QED  BY <1>1, <1>2, <1>3, <2>2, SilentKeeps
<1>6. ASSUME NEW s \in Secs, Store!SyncSecretRead(t, s)
      PROVE  StoreInv'
  <2>1. th[t].at = "certs"
    BY <1>6 DEF Store!SyncSecretRead, Store!AtStep
  <2>2. PICK cert : cert = <<s, Store!GetPemCertificate(s)>>
    OBVIOUS
  <2>3. PICK new : /\ Store!Advance(t, new)
                   /\ \/ new = [th[t] EXCEPT !.secs = @ \ {s}]
                      \/ new = [th[t] EXCEPT !.at = "put", !.secs = @ \ {s}, !.cert = cert]
    BY <1>6, <2>2 DEF Store!SyncSecretRead
  <2>4. Moves(t) /\ th'[t] = new
    BY <2>3, Advanced
  <2>5. /\ new.at \in {"certs", "put"} /\ new.plan = th[t].plan
        /\ new.obj = th[t].obj /\ new.each = th[t].each /\ new.ings = th[t].ings
        /\ new.fin = th[t].fin /\ DOMAIN new = DOMAIN th[t]
    BY <1>2, <2>1, <2>3 DEF Fields
  <2>6. HandlerOK(t, th'[t])
    BY <1>2, <2>1, <2>4, <2>5 DEF HandlerOK, IngressOK, SecretOK, ConfigMapOK
  <2>7. PendingAt(t) => PendingAt(t)'
    BY <2>1, <2>4, <2>5 DEF PendingAt
  <2> QED  BY <1>1, <1>2, <2>4, <2>6, <2>7, SilentKeeps
<1> QED  BY <1>4, <1>5, <1>6

\* A certificate that changes sends an event of its own, whoever stores it.
LEMMA WriteKeeps ==
  ASSUME StoreInv, NEW t \in Store!Threads, Store!SyncSecretWrite(t), UNCHANGED setup
  PROVE  StoreInv'
<1>1. /\ th[t].at = "put" /\ UNCHANGED <<cache, queue, withAnn, refs, conf>>
      /\ ssl' = [ssl EXCEPT ![th[t].cert[1]] = th[t].cert[2]]
      /\ announced' = IF ssl' # ssl THEN Store!ViewWith(ssl', cache') ELSE announced
      /\ Store!Advance(t, Store!Rest(t))
  BY DEF Store!SyncSecretWrite, Store!AtStep
<1>2. HandlerOK(t, th[t]) /\ CachesOK' /\ DOMAIN th[t] = Fields
  BY <1>1, AnyOK, CachesKept DEF HandlerOK
<1>3. PICK new : new = Store!Rest(t)
  OBVIOUS
<1>4. Moves(t) /\ th'[t] = new
  BY <1>1, <1>3, Advanced
<1>5. /\ new.at = Store!After(th[t].plan, "put") /\ new.plan = th[t].plan
      /\ new.obj = th[t].obj /\ new.each = th[t].each /\ new.ings = th[t].ings
      /\ new.fin = th[t].fin /\ DOMAIN new = DOMAIN th[t]
  BY <1>1, <1>2, <1>3 DEF Store!Rest, Fields
<1>6. HandlerOK(t, th'[t])
  BY <1>1, <1>2, <1>4, <1>5, AfterOK
<1>7. PendingAt(t) => PendingAt(t)'
  BY <1>1, <1>4, <1>5 DEF PendingAt, Store!After
<1>8. LocalOK'
  BY <1>1 DEF StoreInv, LocalOK
<1>9. CASE ssl' # ssl
  <2>1. announced' = Store!View'
    BY <1>1, <1>9 DEF Store!View, Store!ViewWith, Store!Reference, Store!DefaultSecret
  <2> QED  BY <1>2, <1>4, <1>6, <1>8, <2>1, StepKeeps
<1>10. CASE ssl' = ssl
  <2>1. Covered => Covered'
    BY <1>1, <1>10, SameView DEF Covered
  <2> QED  BY <1>1, <1>2, <1>4, <1>6, <1>7, <1>8, <1>10, <2>1, StepKeeps
<1> QED  BY <1>9, <1>10

\* A dropped certificate sends none: the event comes when the handler has found an
\* ingress that refers to it, and without one nobody misses it.
LEMMA DeleteCertKeeps ==
  ASSUME Store!StoreAssumption, StoreInv, Store!DeleteCert, UNCHANGED setup
  PROVE  StoreInv'
<1>0. "secret" \in Store!Threads
  BY DEF Store!Threads
<1>1. /\ th["secret"].at = "uncert"
      /\ UNCHANGED <<cache, queue, withAnn, refs, conf, announced>>
      /\ ssl' = [ssl EXCEPT ![th["secret"].key] = None]
      /\ Store!Advance("secret", Store!Rest("secret"))
  BY DEF Store!DeleteCert, Store!AtStep
<1>2. HandlerOK("secret", th["secret"]) /\ CachesOK' /\ DOMAIN th["secret"] = Fields
  BY <1>0, <1>1, AnyOK, CachesKept DEF HandlerOK
<1>3. PICK new : new = Store!Rest("secret")
  OBVIOUS
<1>4. Moves("secret") /\ th'["secret"] = new
  BY <1>0, <1>1, <1>3, Advanced
<1>5. /\ new.at = Store!After(th["secret"].plan, "uncert") /\ new.plan = th["secret"].plan
      /\ new.obj = th["secret"].obj /\ new.each = th["secret"].each
      /\ new.ings = th["secret"].ings /\ new.fin = th["secret"].fin
      /\ new.key = th["secret"].key /\ DOMAIN new = DOMAIN th["secret"]
  BY <1>1, <1>2, <1>3 DEF Store!Rest, Fields
<1>6. HandlerOK("secret", th'["secret"])
  BY <1>0, <1>1, <1>2, <1>4, <1>5, AfterOK
<1>7. LocalOK'
  BY <1>1 DEF StoreInv, LocalOK
<1>8. CASE Store!Reference(th["secret"].key) # {}
  <2>1. PendingAt("secret")'
    BY <1>1, <1>4, <1>5, <1>8 DEF PendingAt, Store!After, Store!Reference
  <2> QED  BY <1>0, <1>2, <1>4, <1>6, <1>7, <2>1, StepKeeps
<1>9. CASE Store!Reference(th["secret"].key) = {}
  <2>1. /\ \A s \in Secs : Store!Reference(s) # {} => ssl'[s] = ssl[s]
        /\ \A s \in Secs : ssl'[s] \in {ssl[s], None}
    BY <1>1, <1>9 DEF StoreInv, LocalOK
  <2>2. Store!DefaultSecret \in Secs \cup {None}
    BY DEF Store!StoreAssumption, StoreInv, Store!DefaultSecret
  <2>3. Covered => Covered'
    BY <1>1, <2>1, <2>2, CoveredStays
  <2>4. ~PendingAt("secret")
    BY <1>0, <1>1, <1>2 DEF PendingAt, HandlerOK, SecretOK
  <2> QED  BY <1>0, <1>1, <1>2, <1>4, <1>6, <1>7, <2>3, <2>4, StepKeeps
<1> QED  BY <1>8, <1>9

LEMMA FindKeeps ==
  ASSUME StoreInv, Store!FindReferences, UNCHANGED setup
  PROVE  StoreInv'
<1>0. "secret" \in Store!Threads
  BY DEF Store!Threads
<1>1. /\ th["secret"].at = "references"
      /\ UNCHANGED <<cache, queue, withAnn, refs, ssl, conf, announced>>
  BY DEF Store!FindReferences, Store!AtStep
<1>2. HandlerOK("secret", th["secret"]) /\ CachesOK' /\ DOMAIN th["secret"] = Fields
  BY <1>0, <1>1, AnyOK, CachesKept DEF HandlerOK
<1>3. PICK ings : ings = Store!Reference(th["secret"].key)
  OBVIOUS
<1>4. PICK new : new = [Store!Rest("secret") EXCEPT !.ings = ings, !.fin = (ings # {})]
  OBVIOUS
<1>5. Moves("secret") /\ th'["secret"] = new
  BY <1>0, <1>3, <1>4, Advanced DEF Store!FindReferences
<1>6. /\ new.at = "loop" /\ new.plan = th["secret"].plan /\ new.each = th["secret"].each
      /\ new.ings = ings /\ new.fin = (ings # {}) /\ DOMAIN new = Fields
  BY <1>1, <1>2, <1>4 DEF Store!Rest, Fields, Store!After
<1>7. HandlerOK("secret", th'["secret"])
  BY <1>1, <1>2, <1>5, <1>6 DEF HandlerOK, SecretOK
<1>8. PendingAt("secret") => PendingAt("secret")'
  BY <1>1, <1>2, <1>3, <1>5, <1>6 DEF PendingAt, HandlerOK, SecretOK
<1> QED  BY <1>0, <1>1, <1>2, <1>5, <1>7, <1>8, SilentKeeps

LEMMA ListKeeps ==
  ASSUME StoreInv, Store!ListIngressKeys, UNCHANGED setup
  PROVE  StoreInv'
<1>0. "configmap" \in Store!Threads
  BY DEF Store!Threads
<1>1. /\ th["configmap"].at = "list"
      /\ UNCHANGED <<cache, queue, withAnn, refs, ssl, conf, announced>>
  BY DEF Store!ListIngressKeys, Store!AtStep
<1>2. HandlerOK("configmap", th["configmap"]) /\ CachesOK' /\ DOMAIN th["configmap"] = Fields
  BY <1>0, <1>1, AnyOK, CachesKept DEF HandlerOK
<1>3. PICK new : new = [Store!Rest("configmap") EXCEPT !.ings = {i \in Ings : withAnn[i] # None}]
  OBVIOUS
<1>4. Moves("configmap") /\ th'["configmap"] = new
  BY <1>0, <1>3, Advanced DEF Store!ListIngressKeys
<1>5. /\ new.at = "loop" /\ new.each = th["configmap"].each
      /\ new.fin = th["configmap"].fin /\ DOMAIN new = Fields
  BY <1>1, <1>2, <1>3 DEF Store!Rest, Fields, Store!After
<1>6. HandlerOK("configmap", th'["configmap"])
  BY <1>1, <1>2, <1>4, <1>5 DEF HandlerOK, ConfigMapOK
<1>7. PendingAt("configmap") => PendingAt("configmap")'
  BY <1>4, <1>5 DEF PendingAt
<1> QED  BY <1>0, <1>1, <1>2, <1>4, <1>6, <1>7, SilentKeeps

LEMMA NextIngressKeeps ==
  ASSUME StoreInv, NEW t \in Store!Threads, NEW i \in Ings, Store!NextIngress(t, i), UNCHANGED setup
  PROVE  StoreInv'
<1>1. /\ th[t].at = "loop" /\ i \in th[t].ings
      /\ UNCHANGED <<cache, queue, withAnn, refs, ssl, conf, announced>>
  BY DEF Store!NextIngress, Store!AtStep
<1>2. HandlerOK(t, th[t]) /\ CachesOK' /\ DOMAIN th[t] = Fields
  BY <1>1, AnyOK, CachesKept DEF HandlerOK
<1>3. t # "ingress"
  BY <1>1, <1>2 DEF HandlerOK, IngressOK
<1>4. PICK each : each = th[t].each
  OBVIOUS
<1>5. CASE /\ withAnn[i] # None
           /\ \/ t = "secret" \/ th[t].fin
              \/ Store!AnnotationsReferencesConfigmap(withAnn[i].obj)
  <2>1. th[t].fin /\ withAnn[i].obj.cm # "bare"
    <3>1. withAnn[i].obj.cm # "bare"
      BY <1>5 DEF StoreInv, LocalOK
    <3>2. t = "secret" => th[t].fin
      BY <1>1, <1>2 DEF HandlerOK, SecretOK
    <3> QED  BY <1>5, <3>1, <3>2 DEF Store!AnnotationsReferencesConfigmap
  <2>2. PICK new : new = [th[t] EXCEPT !.ings = @ \ {i}, !.plan = each, !.at = Store!First(each),
                                       !.ing = i, !.obj = withAnn[i].obj]
    OBVIOUS
  <2>3. Store!Advance(t, new)
    BY <1>4, <1>5, <2>2 DEF Store!NextIngress
  <2>4. Moves(t) /\ th'[t] = new
    BY <2>3, Advanced
  <2>5. /\ new.at = Store!First(each) /\ new.plan = each /\ new.each = each /\ new.fin = th[t].fin
        /\ new.obj = withAnn[i].obj /\ DOMAIN new = Fields
    BY <1>2, <1>4, <2>2 DEF Fields
  <2>6. HandlerOK(t, th'[t])
    <3>1. CASE t = "secret"
      <4>1. each \in {"added", "parse", "certified"}
        BY <1>1, <1>2, <1>4, <3>1 DEF HandlerOK, SecretOK
      <4>2. SecretOK(new)
        BY <2>1, <2>5, <4>1 DEF SecretOK, Store!First
      <4> QED  BY <2>4, <2>5, <3>1, <4>2 DEF HandlerOK
    <3>2. CASE t = "configmap"
      <4>1. each = "parse"
        BY <1>1, <1>2, <1>4, <3>2 DEF HandlerOK, ConfigMapOK
      <4>2. ConfigMapOK(new)
        BY <2>1, <2>5, <4>1 DEF ConfigMapOK, Store!First
      <4> QED  BY <2>4, <2>5, <3>2, <4>2 DEF HandlerOK
    <3> QED  BY <1>3, <3>1, <3>2 DEF Store!Threads
  <2>7. PendingAt(t)'
    BY <1>3, <2>1, <2>4, <2>5 DEF PendingAt
  <2> QED  BY <1>1, <1>2, <2>4, <2>6, <2>7, SilentKeeps
<1>6. CASE ~(/\ withAnn[i] # None
             /\ \/ t = "secret" \/ th[t].fin
                \/ Store!AnnotationsReferencesConfigmap(withAnn[i].obj))
  <2>1. PICK new : new = [th[t] EXCEPT !.ings = @ \ {i}]
    OBVIOUS
  <2>2. Store!Advance(t, new)
    BY <1>6, <2>1 DEF Store!NextIngress
  <2>3. Moves(t) /\ th'[t] = new
    BY <2>2, Advanced
  <2>4. /\ new.at = "loop" /\ new.plan = th[t].plan /\ new.each = th[t].each
        /\ new.fin = th[t].fin /\ new.ings = th[t].ings \ {i} /\ DOMAIN new = Fields
    BY <1>1, <1>2, <2>1 DEF Fields
  <2>5. HandlerOK(t, th'[t])
    BY <1>1, <1>2, <1>3, <2>3, <2>4 DEF HandlerOK, SecretOK, ConfigMapOK
  <2>6. PendingAt(t) => PendingAt(t)'
    BY <1>1, <1>3, <2>3, <2>4 DEF PendingAt
  <2> QED  BY <1>1, <1>2, <2>3, <2>5, <2>6, SilentKeeps
<1> QED  BY <1>5, <1>6

LEMMA SendEventKeeps ==
  ASSUME StoreInv, NEW t \in Store!Threads, Store!SendEvent(t), UNCHANGED setup
  PROVE  StoreInv'
<1>1. /\ th[t].at \in {"event", "loop"}
      /\ UNCHANGED <<cache, queue, withAnn, refs, ssl, conf>>
      /\ announced' = IF th[t].at = "event" \/ th[t].fin THEN Store!View ELSE announced
      /\ Store!Advance(t, Store!Idle)
  BY DEF Store!SendEvent, Store!AtStep
<1>2. HandlerOK(t, th[t]) /\ CachesOK'
  BY <1>1, AnyOK, CachesKept DEF HandlerOK
<1>3. Moves(t) /\ th'[t] = Store!Idle
  BY <1>1, Advanced
<1>4. HandlerOK(t, th'[t])
  BY <1>3 DEF HandlerOK, IngressOK, SecretOK, ConfigMapOK, Store!Idle, Fields
<1>5. CASE th[t].at = "event" \/ th[t].fin
  BY <1>1, <1>2, <1>3, <1>4, <1>5, SilentKeeps
<1>6. CASE ~(th[t].at = "event" \/ th[t].fin)
  <2>1. ~PendingAt(t)
    BY <1>1, <1>2, <1>6 DEF PendingAt, HandlerOK, IngressOK
  <2> QED  BY <1>1, <1>2, <1>3, <1>4, <1>6, <2>1, SilentKeeps
<1> QED  BY <1>5, <1>6

-----------------------------------------------------------------------------
(* The invariant *)

LEMMA NextOK ==
  ASSUME Store!StoreAssumption, Store!Documented, StoreInv, [Store!Next]_<<Store!vars, setup>>
  PROVE  StoreInv'
<1>1. CASE Store!Cluster /\ UNCHANGED setup
  BY <1>1, ClusterKeeps
<1>2. CASE Store!Handlers /\ UNCHANGED setup
  <2>1. ASSUME NEW t \in Store!Threads, Store!Handler(t)
        PROVE  StoreInv'
    BY <1>2, <2>1, ExtractKeeps, UpdateKeeps, RefsKeeps, SecretsKeeps, WriteKeeps,
       NextIngressKeeps, SendEventKeeps DEF Store!Handler
  <2> QED  BY <1>2, <2>1, IngressHandlerKeeps, SecretHandlerKeeps, ConfigMapHandlerKeeps,
              ClassHandlerKeeps, DeleteCertKeeps, DeleteIngressKeeps, ListKeeps, FindKeeps
              DEF Store!Handlers
<1>3. CASE UNCHANGED <<Store!vars, setup>>
  <2>1. UNCHANGED <<setup, cache, queue, withAnn, refs, ssl, conf, th, announced>>
    BY <1>3 DEF Store!vars
  <2>2. CachesOK' /\ (Covered => Covered')
    BY <2>1, CachesKept, SameView DEF Covered
  <2> QED  BY <2>1, <2>2, CacheKeeps DEF Still
<1> QED  BY <1>1, <1>2, <1>3 DEF Store!Next

\* Whatever order the informers' notifications and the handlers' steps come in, at rest
\* the controller has been told of what it reads: no change of an ingress, a certificate
\* that an ingress refers to, a new default certificate, the settings, the endpoints or an
\* ExternalName Service waits for an unrelated event (New and its event handlers,
\* store.go), unless an annotation names a ConfigMap without the prefix of the annotations.
THEOREM EverythingIsAnnounced == Spec => []Announced
<1> DEFINE Inv == OfStore /\ Store!Documented => StoreInv
<1>1. Init => Inv
  BY InitOK, ObjectsAssumption DEF Init, OfStore, OfAnnotations
<1>2. Inv /\ [Next]_vars => Inv'
  <2>1. [Next]_vars => UNCHANGED setup /\ (OfStore => [Store!Next]_<<Store!vars, setup>>)
    BY ObjectsAssumption DEF Next, vars, storeVars, OfStore, OfAnnotations, Store!Next, Store!vars,
       Annotations!Next
  <2>2. UNCHANGED setup => (Store!Documented' <=> Store!Documented)
    BY DEF Store!Documented, Store!Shapes
  <2> QED  BY <2>1, <2>2, NextOK, ObjectsAssumption DEF OfStore
<1>3. Inv => Announced
  <2>1. ASSUME StoreInv, Store!Quiet
        PROVE  Covered
    <3>1. \A t \in Store!Threads : ~PendingAt(t)
      BY <2>1 DEF Store!Quiet, PendingAt, Store!Idle
    <3> QED  BY <2>1, <3>1 DEF StoreInv, Told, Pending
  <2> QED  BY <2>1 DEF Announced, Store!Announced, Covered
<1> QED  BY <1>1, <1>2, <1>3, PTL DEF Spec

-----------------------------------------------------------------------------
(* Annotations.  What the four parsers that protect a location return is what *)
(* the annotations ask for, or they deny.                                     *)

Words == Annotations!Contents(AnnotationSetups[setup])

AnnotationsOK ==
  /\ \A a \in DOMAIN ing : ing[a] \in Words
  /\ {"authSecret", "caSecret", "configMap", "disk"} \subseteq DOMAIN objs
  /\ \A o \in DOMAIN objs : objs[o] \in Annotations!States(AnnotationSetups[setup])

\* A parser's result for an annotation that asks for protection.
Passwords(r) ==
  Annotations!Asked("auth-type") # "" /\ r.err # "denied" =>
    /\ r.err = "" /\ r.val # None /\ r.val.Secured
    /\ r.val.FileSHA[1] # "none"
    /\ r.val.SecretType = "auth-file" => r.val.FileSHA[1] # "nokey"
    /\ r.val.Secret = Annotations!Asked("auth-secret")

External(r) ==
  Annotations!Asked("auth-url") # "" /\ r.err # "denied" =>
    r.err = "" /\ r.val # None /\ r.val.URL = Annotations!Asked("auth-url")

ClientCertificates(r) ==
  Annotations!Asked("auth-tls-secret") # "" /\ r.err # "denied" =>
    /\ r.err = "" /\ r.val # None
    /\ r.val.Secret = Annotations!Asked("auth-tls-secret") /\ r.val.VerifyClient # ""

Addresses(r) ==
  "whitelist-source-range" \in DOMAIN ing /\ r.err # "denied" =>
    r.err = "" /\ r.val # None /\ r.val # {} /\ "bad" \notin r.val

Protects(r) ==
  /\ Passwords(r.BasicDigestAuth) /\ External(r.ExternalAuth)
  /\ ClientCertificates(r.CertificateAuth) /\ Addresses(r.Whitelist)

Strings == Annotations!Strings(AnnotationSetups[setup])

\* Reading an annotation as a string, a number or a boolean returns one.
LEMMA ReadsString ==
  ASSUME AnnotationsOK, NEW n
  PROVE  Annotations!GetStringAnnotation(n).val \in Strings /\ Annotations!String(n) \in Strings
<1>1. n \in DOMAIN ing => ing[n] \in Strings
  BY DEF AnnotationsOK, Words, Strings, Annotations!Strings
<1>2. "" \in Strings
  BY DEF Strings, Annotations!Strings
<1> QED  BY <1>1, <1>2 DEF Annotations!GetStringAnnotation, Annotations!String, Annotations!Result,
                           Annotations!Ok

LEMMA ReadsNumber ==
  ASSUME NEW n, NEW d \in Int
  PROVE  Annotations!NumOr(n, d) \in Int
<1>1. \A s \in DOMAIN Annotations!Numeral : Annotations!Numeral[s] \in Int
  BY DEF Annotations!Numeral
<1> QED  BY <1>1 DEF Annotations!NumOr, Annotations!OrElse, Annotations!GetIntAnnotation,
                     Annotations!Result, Annotations!Ok

LEMMA ReadsBoolean ==
  ASSUME NEW n
  PROVE  Annotations!Bool(n) \in BOOLEAN
<1>1. \A s \in DOMAIN Annotations!Truth : Annotations!Truth[s] \in BOOLEAN
  BY DEF Annotations!Truth
<1> QED  BY <1>1 DEF Annotations!Bool, Annotations!GetBoolAnnotation,
                     Annotations!Result, Annotations!Ok

LEMMA ReadsChoice ==
  ASSUME AnnotationsOK, NEW n, NEW d \in Strings, NEW S
  PROVE  Annotations!StringOr(n, d) \in Strings /\ Annotations!StringIn(n, S, d) \in Strings
BY ReadsString DEF Annotations!StringOr, Annotations!StringIn, Annotations!OrElse, Annotations!OrElseIn

LEMMA ItemsOfString ==
  ASSUME NEW s \in Strings
  PROVE  Annotations!Items(s) \in Seq(Strings) /\ Annotations!Items(s) # <<>>
<1>1. {"x", "y", "bad", "*", "1", "302"} \subseteq Strings
  BY DEF Strings, Annotations!Strings
<1>2. \A x, y \in Strings : <<x, y>> \in Seq(Strings) /\ <<x, y>> # <<>>
  OBVIOUS
<1>3. <<s>> \in Seq(Strings) /\ <<s>> # <<>>
  OBVIOUS
<1> DEFINE i == Annotations!Items(s)
<1>4. i \in {<<"x", "y">>, <<"y", "x">>, <<"x", "bad">>, <<"x", "*">>, <<"1", "302">>,
             <<"1", "bad">>, <<s>>}
  BY DEF Annotations!Items
<1> QED  BY <1>1, <1>2, <1>3, <1>4

LEMMA NilIsNoResult ==
  ASSUME OfAnnotations
  PROVE  /\ None \notin Annotations!AuthConfigs(Strings)
         /\ None \notin Annotations!AuthTLSConfigs(Strings)
         /\ None \notin Annotations!AuthReqConfigs(Strings)
         /\ \A v \in Words : None # Annotations!Range(Annotations!Items(v))
BY ObjectsAssumption DEF OfAnnotations, Annotations!AnnotationAssumption, Strings, Words

LEMMA PasswordsAsked ==
  ASSUME AnnotationsOK, OfAnnotations, NEW p \in {1, 2}
  PROVE  Passwords(Annotations!ParseAuth(p))
<1> DEFINE at     == Annotations!GetStringAnnotation("auth-type")
           type   == Annotations!StringOr("auth-secret-type", "auth-file")
           secret == Annotations!GetStringAnnotation("auth-secret")
           config == [ Type |-> at.val, Realm |-> Annotations!String("auth-realm"),
                       Secured |-> TRUE, FileSHA |-> Annotations!PasswordFile(type, p),
                       Secret |-> secret.val, SecretType |-> type ]
           r      == Annotations!ParseAuth(p)
<1>1. config \in Annotations!AuthConfigs(Strings)
  <2>1. objs.authSecret \in Strings
    BY DEF AnnotationsOK, Strings, Annotations!Strings
  <2>2. "auth-file" \in Strings
    BY DEF Strings, Annotations!Strings
  <2>3. Annotations!PasswordFile(type, p) \in Seq(Strings \cup Nat)
    <3>1. \A x, y \in Strings \cup Nat : /\ <<x>> \in Seq(Strings \cup Nat)
                                         /\ <<x, y>> \in Seq(Strings \cup Nat)
      OBVIOUS
    <3> HIDE DEF type
    <3> QED  BY <2>1, <3>1 DEF Annotations!PasswordFile
  <2>4. /\ at.val \in Strings /\ secret.val \in Strings /\ type \in Strings
        /\ Annotations!String("auth-realm") \in Strings
    BY <2>2, ReadsString, ReadsChoice
  <2> HIDE DEF at, secret, type
  <2> QED  BY <2>3, <2>4 DEF Annotations!AuthConfigs
<1> SUFFICES ASSUME Annotations!Asked("auth-type") # "", r.err # "denied"
             PROVE  /\ r.err = "" /\ r.val # None /\ r.val.Secured
                    /\ r.val.FileSHA[1] # "none"
                    /\ r.val.SecretType = "auth-file" => r.val.FileSHA[1] # "nokey"
                    /\ r.val.Secret = Annotations!Asked("auth-secret")
  BY DEF Passwords
<1>2. at.err = ""
  BY DEF Annotations!Asked, Annotations!GetStringAnnotation, Annotations!Result, Annotations!Ok
<1>3. /\ r = Annotations!Ok(config)
      /\ secret.err = "" /\ objs.authSecret # "none"
      /\ type = "auth-file" => objs.authSecret # "nokey"
  BY <1>2 DEF Annotations!ParseAuth, Annotations!Denied, Annotations!Result, Annotations!Ok
<1>4. r.err = "" /\ r.val = config
  <2> HIDE DEF r, config
  <2> QED  BY <1>3 DEF Annotations!Ok, Annotations!Result
<1>5. secret.val = Annotations!Asked("auth-secret")
  BY <1>3 DEF Annotations!Asked, Annotations!GetStringAnnotation, Annotations!Result, Annotations!Ok
<1>6. config.FileSHA[1] = objs.authSecret
  BY DEF Annotations!PasswordFile
<1>7. config.Secured /\ config.SecretType = type /\ config.Secret = secret.val
  OBVIOUS
<1> HIDE DEF config, r, type, secret
<1> QED  BY <1>3, <1>1, <1>4, <1>5, <1>6, <1>7, NilIsNoResult

LEMMA ExternalAsked ==
  ASSUME AnnotationsOK, OfAnnotations
  PROVE  External(Annotations!ParseAuthReq)
<1> DEFINE url      == Annotations!GetStringAnnotation("auth-url")
           headers  == Annotations!String("auth-response-headers")
           duration == Annotations!CacheDurations(Annotations!String("auth-cache-duration"))
           map      == Annotations!String("auth-proxy-set-headers")
           method   == Annotations!String("auth-method")
           items    == IF headers = "" THEN <<>> ELSE Annotations!Items(headers)
           sent     == IF map = "" THEN "" ELSE objs.configMap
           config   ==
             [ URL |-> url.val, Host |-> Annotations!HostOf[url.val], Method |-> method,
               SigninURL |-> Annotations!String("auth-signin"),
               SigninURLRedirectParam |-> Annotations!String("auth-signin-redirect-param"),
               ResponseHeaders |-> items,
               RequestRedirect |-> Annotations!String("auth-request-redirect"),
               AuthSnippet |-> Annotations!String("auth-snippet"),
               AuthCacheKey |-> Annotations!String("auth-cache-key"),
               AuthCacheDuration |-> duration.val,
               KeepaliveConnections |-> Annotations!KeepaliveConnections(url.val),
               KeepaliveRequests |-> Annotations!NumOr("auth-keepalive-requests", 1000),
               KeepaliveTimeout |-> Annotations!NumOr("auth-keepalive-timeout", 60),
               ProxySetHeaders |-> sent,
               AlwaysSetCookie |-> Annotations!Bool("auth-always-set-cookie") ]
           r == Annotations!ParseAuthReq
<1>1. ASSUME url.val \in Annotations!Urls
      PROVE  config \in Annotations!AuthReqConfigs(Strings)
  <2>1. "" \in Strings /\ "a" \in Strings /\ "b" \in Strings /\ "$h" \in Strings
        /\ "200 202 401 5m" \in Strings /\ objs.configMap \in Strings
    BY DEF AnnotationsOK, Strings, Annotations!Strings
  <2>2. Annotations!HostOf[url.val] \in Strings
    BY <1>1, <2>1 DEF Annotations!HostOf, Annotations!Urls
  <2>3. items \in Seq(Strings)
    <3>1. <<>> \in Seq(Strings) /\ Annotations!Items(headers) \in Seq(Strings)
      BY ReadsString, ItemsOfString
    <3> QED  BY <3>1
  <2>4. duration.val \in Seq(Strings)
    <3>1. <<"200 202 401 5m">> \in Seq(Strings)
      <4>1. \A x \in Strings : <<x>> \in Seq(Strings)
        OBVIOUS
      <4> QED  BY <2>1, <4>1
    <3> QED  BY <3>1, ReadsString, ItemsOfString DEF Annotations!CacheDurations,
                Annotations!Ok, Annotations!Denied, Annotations!Result
  <2>5. /\ Annotations!KeepaliveConnections(url.val) \in Int
        /\ Annotations!NumOr("auth-keepalive-requests", 1000) \in Int
        /\ Annotations!NumOr("auth-keepalive-timeout", 60) \in Int
    <3>1. /\ Annotations!NumOr("auth-keepalive", 0) \in Int
          /\ Annotations!NumOr("auth-keepalive-requests", 1000) \in Int
          /\ Annotations!NumOr("auth-keepalive-timeout", 60) \in Int
      BY ReadsNumber
    <3> QED  BY <3>1 DEF Annotations!KeepaliveConnections
  <2>6. Annotations!Bool("auth-always-set-cookie") \in BOOLEAN
    BY ReadsBoolean
  <2>7. sent \in Strings
    BY <2>1
  <2>8. /\ url.val \in Strings /\ method \in Strings
        /\ Annotations!String("auth-signin") \in Strings
        /\ Annotations!String("auth-signin-redirect-param") \in Strings
        /\ Annotations!String("auth-request-redirect") \in Strings
        /\ Annotations!String("auth-snippet") \in Strings
        /\ Annotations!String("auth-cache-key") \in Strings
    BY ReadsString
  <2> HIDE DEF items, sent, duration, method, url
  <2> QED  BY <2>2, <2>3, <2>4, <2>5, <2>6, <2>7, <2>8
           DEF Annotations!AuthReqConfigs
<1> SUFFICES ASSUME Annotations!Asked("auth-url") # "", r.err # "denied"
             PROVE  r.err = "" /\ r.val # None /\ r.val.URL = Annotations!Asked("auth-url")
  BY DEF External
<1>2. url.err = "" /\ url.val = Annotations!Asked("auth-url")
  BY DEF Annotations!Asked, Annotations!GetStringAnnotation, Annotations!Result, Annotations!Ok
<1>3. r = Annotations!Ok(config) /\ url.val \in Annotations!Urls
  BY <1>2 DEF Annotations!ParseAuthReq, Annotations!Denied, Annotations!Result, Annotations!Ok
<1>4. r.err = "" /\ r.val = config
  <2> HIDE DEF r, config
  <2> QED  BY <1>3 DEF Annotations!Ok, Annotations!Result
<1>5. config.URL = url.val
  OBVIOUS
<1> HIDE DEF config, r, url
<1> QED  BY <1>1, <1>2, <1>3, <1>4, <1>5, NilIsNoResult

LEMMA CertificatesAsked ==
  ASSUME AnnotationsOK, OfAnnotations
  PROVE  ClientCertificates(Annotations!ParseAuthTLS)
<1> DEFINE secret == Annotations!GetStringAnnotation("auth-tls-secret")
           depth  == Annotations!NumOr("auth-tls-verify-depth", 1)
           verify == Annotations!StringIn("auth-tls-verify-client",
                                          {"on", "off", "optional", "none"}, "on")
           config ==
             [ Secret |-> secret.val, CASHA |-> objs.caSecret, VerifyClient |-> verify,
               ValidationDepth |-> IF depth = 0 THEN 1 ELSE depth,
               ErrorPage |-> Annotations!String("auth-tls-error-page"),
               PassCertToUpstream |-> Annotations!Bool("auth-tls-pass-certificate-to-upstream"),
               MatchCN |-> Annotations!StringIn("auth-tls-match-cn", {"CN=x", "CN=y"}, ""),
               AuthTLSError |-> "" ]
           r == Annotations!ParseAuthTLS
<1>1. config \in Annotations!AuthTLSConfigs(Strings)
  <2>1. "" \in Strings /\ "on" \in Strings /\ objs.caSecret \in Strings
    BY DEF AnnotationsOK, Strings, Annotations!Strings
  <2>2. (IF depth = 0 THEN 1 ELSE depth) \in Int
    BY ReadsNumber
  <2>3. verify \in Strings
        /\ Annotations!StringIn("auth-tls-match-cn", {"CN=x", "CN=y"}, "") \in Strings
    BY <2>1, ReadsChoice
  <2>4. Annotations!Bool("auth-tls-pass-certificate-to-upstream") \in BOOLEAN
    BY ReadsBoolean
  <2>5. secret.val \in Strings /\ Annotations!String("auth-tls-error-page") \in Strings
    BY ReadsString
  <2> QED  BY <2>1, <2>2, <2>3, <2>4, <2>5 DEF Annotations!AuthTLSConfigs
<1> SUFFICES ASSUME Annotations!Asked("auth-tls-secret") # "", r.err # "denied"
             PROVE  /\ r.err = "" /\ r.val # None
                    /\ r.val.Secret = Annotations!Asked("auth-tls-secret")
                    /\ r.val.VerifyClient # ""
  BY DEF ClientCertificates
<1>2. secret.err = "" /\ secret.val = Annotations!Asked("auth-tls-secret")
  BY DEF Annotations!Asked, Annotations!GetStringAnnotation, Annotations!Result, Annotations!Ok
<1>3. r = Annotations!Ok(config)
  BY <1>2 DEF Annotations!ParseAuthTLS, Annotations!Denied, Annotations!Result, Annotations!Ok
<1>4. verify # ""
  BY DEF Annotations!StringIn, Annotations!OrElseIn
<1>5. r.err = "" /\ r.val = config
  <2> HIDE DEF r, config
  <2> QED  BY <1>3 DEF Annotations!Ok, Annotations!Result
<1>6. config.Secret = secret.val /\ config.VerifyClient = verify
  OBVIOUS
<1> HIDE DEF config, r, verify
<1> QED  BY <1>2, <1>1, <1>4, <1>5, <1>6, NilIsNoResult

LEMMA AddressesAsked ==
  ASSUME AnnotationsOK, OfAnnotations
  PROVE  Addresses(Annotations!ParseWhitelist)
<1> DEFINE val  == Annotations!GetStringAnnotation("whitelist-source-range")
           nets == Annotations!ParseCIDRs(val.val)
           r    == Annotations!ParseWhitelist
<1> SUFFICES ASSUME "whitelist-source-range" \in DOMAIN ing, r.err # "denied"
             PROVE  r.err = "" /\ r.val # None /\ r.val # {} /\ "bad" \notin r.val
  BY DEF Addresses
<1>1. val.err # "missing"
  BY DEF Annotations!GetStringAnnotation, Annotations!Result, Annotations!Ok
<1>2. val.err = "" /\ nets.err = "" /\ r = Annotations!Ok(nets.val)
  BY <1>1 DEF Annotations!ParseWhitelist, Annotations!Denied, Annotations!Result, Annotations!Ok
<1>3. val.val # "" /\ val.val \in Words
  BY <1>2 DEF Annotations!GetStringAnnotation, Annotations!Result, Annotations!Ok, AnnotationsOK
<1>4. /\ \A i \in DOMAIN Annotations!Items(val.val) : Annotations!Items(val.val)[i] # "bad"
      /\ nets.val = Annotations!Range(Annotations!Items(val.val))
  BY <1>2, <1>3 DEF Annotations!ParseCIDRs, Annotations!Result, Annotations!Ok, Annotations!IsBad
<1>5. Annotations!Items(val.val) \in Seq(Strings) /\ Annotations!Items(val.val) # <<>>
  BY <1>3, ItemsOfString DEF Words, Strings, Annotations!Strings
<1>6. 1 \in DOMAIN Annotations!Items(val.val)
  BY <1>5
<1>7. nets.val # {} /\ "bad" \notin nets.val
  BY <1>4, <1>6 DEF Annotations!Range
<1> QED  BY <1>2, <1>3, <1>4, <1>7, NilIsNoResult DEF Annotations!Ok, Annotations!Result

LEMMA AskedIsGiven ==
  AnnotationsOK /\ OfAnnotations => \A p \in {1, 2} : Protects(Annotations!Parsed(p))
<1> SUFFICES ASSUME AnnotationsOK, OfAnnotations, NEW p \in {1, 2}
             PROVE  Protects(Annotations!Parsed(p))
  OBVIOUS
<1> DEFINE r == Annotations!Parsed(p)
<1>1. /\ r.BasicDigestAuth = Annotations!ParseAuth(p)
      /\ r.ExternalAuth = Annotations!ParseAuthReq
      /\ r.CertificateAuth = Annotations!ParseAuthTLS
      /\ r.Whitelist = Annotations!ParseWhitelist
  BY DEF Annotations!Parsed
<1>2. Protects(r)
  <2> HIDE DEF r
  <2> QED  BY <1>1, PasswordsAsked, ExternalAsked, CertificatesAsked, AddressesAsked DEF Protects
<1> QED  BY <1>2

Protecting == {"BasicDigestAuth", "ExternalAuth", "CertificateAuth", "Whitelist"}

LEMMA ParsedFields ==
  \A p \in {1, 2} : /\ Protecting \subseteq DOMAIN Annotations!Parsed(p)
                    /\ "Denied" \notin DOMAIN Annotations!Parsed(p)
BY DEF Annotations!Parsed, Protecting

\* Unless the location is denied, e holds what the protecting parsers returned in r.
Kept(r, e) ==
  e.Denied = 0 => \A n \in Protecting : /\ r[n].err # "denied"
                                        /\ r[n].err = "" /\ r[n].val # None => e[n] = r[n].val

\* Extraction denies the location, or keeps every value that a protecting parser returned.
LEMMA ExtractKeepsValues ==
  ASSUME NEW r, NEW first, NEW e, e = Annotations!Extract(r, first),
         Protecting \subseteq DOMAIN r, "Denied" \notin DOMAIN r
  PROVE  Kept(r, e)
<1> SUFFICES ASSUME e.Denied = 0
             PROVE  \A n \in Protecting :
                      r[n].err # "denied" /\ (r[n].err = "" /\ r[n].val # None => e[n] = r[n].val)
  BY DEF Kept
<1>1. Annotations!NewPointer # 0
  <2>1. \E i \in 1..3 : i \notin {pia.Denied, running.Denied}
    <3>1. \A a, b : ~(1 \in {a, b} /\ 2 \in {a, b} /\ 3 \in {a, b})
      OBVIOUS
    <3> QED  BY <3>1
  <2> QED  BY <2>1 DEF Annotations!NewPointer
<1>2. {n \in DOMAIN r : r[n].err = "denied"} = {}
  BY <1>1 DEF Annotations!Extract
<1> QED  BY <1>2 DEF Annotations!Extract, Protecting

LEMMA ExtractedGuards ==
  ASSUME AnnotationsOK', OfAnnotations', Annotations!Extracted
  PROVE  Annotations!Guarded'
<1>1. (\A p \in {1, 2} : Protects(Annotations!Parsed(p)))'
  BY AskedIsGiven, PTL
<1>2. (\A p \in {1, 2} : /\ Protecting \subseteq DOMAIN Annotations!Parsed(p)
                         /\ "Denied" \notin DOMAIN Annotations!Parsed(p))'
  BY ParsedFields, PTL
<1>3. PICK p \in {1, 2} :
        \E first : pia' = Annotations!Extract(Annotations!Parsed(p)', first)
  BY DEF Annotations!Extracted
<1>4. PICK first : pia' = Annotations!Extract(Annotations!Parsed(p)', first)
  BY <1>3
<1>5. Protects(Annotations!Parsed(p))'
  BY <1>1
<1>6. ASSUME NEW q, NEW f, NEW e, Protecting \subseteq DOMAIN q, "Denied" \notin DOMAIN q,
             e = Annotations!Extract(q, f)
      PROVE  Kept(q, e)
  BY <1>6, ExtractKeepsValues
<1>7. Kept(Annotations!Parsed(p)', pia')
  BY <1>2, <1>4, <1>6
<1> QED  BY <1>5, <1>7 DEF Kept, Protects, Passwords, External, ClientCertificates, Addresses,
            Protecting, Annotations!Guarded

LEMMA AnnotationsStep ==
  ASSUME OfAnnotations, AnnotationsOK, UNCHANGED setup,
         [Annotations!Step]_<<ing, objs, pia, running, dirty>>
  PROVE  AnnotationsOK'
<1> DEFINE s == AnnotationSetups[setup]
<1>1. Words' = Words /\ Annotations!States(s)' = Annotations!States(s)
  BY DEF Words
<1>2. ASSUME NEW a \in DOMAIN Annotations!Editable, NEW v \in Annotations!Editable[a],
             Annotations!Annotate(a, v)
      PROVE  AnnotationsOK'
  <2>1. v \in Words
    BY <1>2 DEF Words, Annotations!Contents, Annotations!Editable
  <2> QED  BY <1>1, <1>2, <2>1 DEF AnnotationsOK, Annotations!Annotate
<1>3. ASSUME NEW a, Annotations!Remove(a)
      PROVE  AnnotationsOK'
  BY <1>1, <1>3 DEF AnnotationsOK, Annotations!Remove
<1>4. ASSUME NEW o \in DOMAIN Annotations!Objects, NEW x \in Annotations!Objects[o],
             Annotations!UpdateSecret(o, x) \/ Annotations!UpdateOther(o, x)
      PROVE  AnnotationsOK'
  <2>1. x \in Annotations!States(s)
    BY <1>4 DEF Annotations!States, Annotations!Objects
  <2>2. ing' = ing /\ objs' = [objs EXCEPT ![o] = x]
    BY <1>4 DEF Annotations!UpdateSecret, Annotations!UpdateOther
  <2> QED  BY <1>1, <2>1, <2>2 DEF AnnotationsOK
<1>5. ASSUME UNCHANGED <<ing, objs>>
      PROVE  AnnotationsOK'
  BY <1>1, <1>5 DEF AnnotationsOK
<1>6. Annotations!ExtractAgain \/ Annotations!Sync \/ UNCHANGED <<ing, objs, pia, running, dirty>>
        => UNCHANGED <<ing, objs>>
  BY DEF Annotations!ExtractAgain, Annotations!Sync
<1> QED  BY <1>2, <1>3, <1>4, <1>5, <1>6 DEF Annotations!Step

LEMMA GuardedStep ==
  ASSUME OfAnnotations, AnnotationsOK, Annotations!Guarded, UNCHANGED setup,
         [Annotations!Step]_<<ing, objs, pia, running, dirty>>
  PROVE  Annotations!Guarded'
<1>1. AnnotationsOK' /\ OfAnnotations'
  BY AnnotationsStep DEF OfAnnotations
<1>2. Annotations!Extracted \/ UNCHANGED <<ing, pia>>
  BY DEF Annotations!Step, Annotations!Annotate, Annotations!Remove, Annotations!UpdateSecret,
         Annotations!UpdateOther, Annotations!ExtractAgain, Annotations!Sync
<1>3. CASE Annotations!Extracted
  BY <1>1, <1>3, ExtractedGuards
<1>4. CASE UNCHANGED <<ing, pia>>
  BY <1>4 DEF Annotations!Guarded, Annotations!Asked
<1> QED  BY <1>2, <1>3, <1>4

LEMMA WhatIsThere ==
  ASSUME NEW s
  PROVE  /\ \A a \in DOMAIN s.preset : s.preset[a] \in Annotations!Contents(s)
         /\ \A o \in DOMAIN s.existing : s.existing[o] \in Annotations!States(s)
<1>1. ASSUME NEW a \in DOMAIN s.preset
      PROVE  s.preset[a] \in Annotations!Contents(s)
  <2>1. s.preset[a] \in {s.preset[b] : b \in DOMAIN s.preset}
    OBVIOUS
  <2> QED  BY <2>1 DEF Annotations!Contents
<1>2. ASSUME NEW o \in DOMAIN s.existing
      PROVE  s.existing[o] \in Annotations!States(s)
  <2>1. s.existing[o] \in {s.existing[b] : b \in DOMAIN s.existing}
    OBVIOUS
  <2> QED  BY <2>1 DEF Annotations!States
<1> QED  BY <1>1, <1>2

LEMMA GuardedInit ==
  ASSUME OfAnnotations, Annotations!Init
  PROVE  AnnotationsOK /\ Annotations!Guarded
<1>1. AnnotationsOK
  <2> DEFINE s == AnnotationSetups[setup]
  <2>1. ing = s.preset /\ objs = s.existing
    BY DEF Annotations!Init, Annotations!Preset, Annotations!Existing
  <2>2. {"authSecret", "caSecret", "configMap", "disk"} \subseteq DOMAIN s.existing
    BY ObjectsAssumption DEF OfAnnotations, Annotations!AnnotationAssumption
  <2>3. /\ \A a \in DOMAIN s.preset : s.preset[a] \in Words
        /\ \A o \in DOMAIN s.existing : s.existing[o] \in Annotations!States(s)
    BY WhatIsThere DEF Words
  <2> QED  BY <2>1, <2>2, <2>3 DEF AnnotationsOK
<1> DEFINE r == Annotations!Parsed(1)
<1>2. Protects(r) /\ Protecting \subseteq DOMAIN r /\ "Denied" \notin DOMAIN r
  BY <1>1, AskedIsGiven, ParsedFields
<1>3. \A n \in Protecting : r[n].err # "denied" /\ (r[n].err = "" => pia[n] = r[n].val)
  <2> HIDE DEF r
  <2>1. \A n \in Protecting : n # "Denied" /\ n \in DOMAIN r
    BY <1>2 DEF Protecting
  <2> QED  BY <1>2, <2>1 DEF Annotations!Init, Annotations!Initial, r
<1> HIDE DEF r
<1> QED  BY <1>1, <1>2, <1>3 DEF Protects, Passwords, External, ClientCertificates, Addresses,
            Protecting, Annotations!Guarded

\* A location that asks for passwords, an external check, client certificates or a range of
\* addresses is protected as asked or denied, whichever objects are missing, whatever else
\* is wrong with the annotations, and in whatever order the parsers run (Extract).
THEOREM FailsClosed == Spec => []Guarded
<1> DEFINE Inv == OfAnnotations => AnnotationsOK /\ Annotations!Guarded
<1>1. Init => Inv
  BY GuardedInit, ObjectsAssumption DEF Init, OfStore, OfAnnotations
<1>2. Inv /\ [Next]_vars => Inv'
  <2>1. [Next]_vars => /\ UNCHANGED setup
                       /\ OfAnnotations =>
                            [Annotations!Step]_<<ing, objs, pia, running, dirty>>
    BY ObjectsAssumption DEF Next, vars, storeVars, annotationVars, OfStore, OfAnnotations,
       Store!Next, Annotations!Next
  <2> QED  BY <2>1, AnnotationsStep, GuardedStep DEF OfAnnotations
<1>3. Inv => Guarded
  BY DEF Guarded
<1> QED  BY <1>1, <1>2, <1>3, PTL DEF Spec
=============================================================================
