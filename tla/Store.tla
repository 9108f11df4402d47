------------------------------- MODULE Store -------------------------------
(***************************************************************************)
(* The object store of the controller: informers keep caches of the        *)
(* cluster, and the handlers of New turn the informers' notifications into *)
(* a local store of ingresses with parsed annotations, certificates,       *)
(* references from secrets to ingresses and settings.                      *)
(*                                                                         *)
(* Every informer calls its handler from a goroutine of its own, so the    *)
(* handlers of different kinds interleave; a cache is ahead of its         *)
(* handler.  A handler has a plan, which says in which order its steps     *)
(* come, and the step it is at.                                            *)
(***************************************************************************)
EXTENDS Naturals, Sequences, FiniteSets

CONSTANTS
  None,             \* no object, or no error
  Ings,             \* keys of ingresses
  Secs,             \* keys of secrets
  Certs,            \* contents of secrets that getPemCertificate makes a certificate of
  InitialSettings,  \* the settings New reads before the informers run
  Blocking,         \* the settings with an annotation-value-word-blocklist
  Setups            \* name -> what the flags are and what happens in the cluster

VARIABLE setup      \* the setup of this behaviour

Shapes          == Setups[setup].shapes      \* what ingresses look like, of ShapeType
Contents        == Setups[setup].contents    \* what secrets hold
Settings        == Setups[setup].settings    \* what the ConfigMap of the controller holds
Extras          == Setups[setup].extras      \* what a ConfigMap named in annotations holds
ClassObjs       == Setups[setup].classes     \* the IngressClass: None, "ours", "foreign"
ClassFixed      == Setups[setup].classFixed  \* it does not change once the store runs
Services        == Setups[setup].services    \* a Service: None, "cluster", "external"
Loads           == Setups[setup].loads       \* an Endpoints object
DefaultSecret   == Setups[setup].default     \* defaultSSLCertificate, a key or None
MaxChanges      == Setups[setup].changes     \* bound: changes of the cluster
IgnoreClass     == "ignoreClass" \in Setups[setup].flags     \* IngressClassConfiguration
WatchWithoutClass == "withoutClass" \in Setups[setup].flags
ClassByName     == "byName" \in Setups[setup].flags
DisableCatchAll == "noCatchAll" \in Setups[setup].flags
DeepInspector   == "inspect" \in Setups[setup].flags

\* class: "named" (ingressClassName), "ours" or "other" (the annotation), "none";
\* catchAll: has a default backend; clean: passes DeepInspect; word: has a word of
\* the blocklist; tls, auth, mtls: secrets of the TLS section, of auth-secret and of
\* auth-tls-secret; cm: how an annotation names a ConfigMap, "no", "prefixed" (as
\* documented) or "bare" (without the prefix nginx.ingress.kubernetes.io/).
ShapeType == [class : {"named", "ours", "other", "none"}, catchAll : BOOLEAN,
              clean : BOOLEAN, word : BOOLEAN, tls : SUBSET Secs, auth : SUBSET Secs,
              mtls : SUBSET Secs, cm : {"no", "prefixed", "bare"}]

StoreAssumption ==
  /\ None # "external"    \* no Service is not an ExternalName one
  /\ \A s \in DOMAIN Setups : Setups[s].default \in Secs \cup {None}

\* Annotations name ConfigMaps as documented: for an annotation without the prefix the
\* handler of a ConfigMap parses ingresses anew and sends no event.
Documented == \A o \in Shapes : o.cm # "bare"

Threads == {"ingress", "secret", "configmap"}

VARIABLES
  cache,      \* the informers' caches: ing, sec, conf, extra, cls, svc, ep
  queue,      \* notifications an informer has for its handler
  withAnn,    \* listers.IngressWithAnnotation
  refs,       \* secretIngressMap, as pairs <<secret, ingress>>
  ssl,        \* sslStore
  clsStore,   \* the IngressClass is in listers.IngressClass
  conf,       \* backendConfig
  th,         \* the handlers' goroutines
  mu,         \* syncSecretMu: the goroutine that holds it, or None
  announced,  \* what the controller would have read when the last event was sent
  started,    \* Informer.Run has started the informer of ingresses
  changes

vars == <<cache, queue, withAnn, refs, ssl, clsStore, conf, th, mu, announced,
          started, changes>>

-----------------------------------------------------------------------------
(* Reading the caches *)

\* GetIngressClass finds a class for o.
GetIngressClass(o, cls) ==
  IF ~IgnoreClass /\ o.class = "named" THEN cls
  ELSE IF o.class \in {"ours", "other"} THEN o.class = "ours"
  ELSE WatchWithoutClass

\* hasCatchAllIngressRule, with the flag that makes it matter.
CatchAllRefused(o) == o.catchAll /\ DisableCatchAll

\* inspector.DeepInspect finds nothing, or is not asked.
DeepInspectOK(o) == DeepInspector => o.clean

\* checkBadAnnotationValue: the reason for which syncIngress skips an ingress.
BadAnnotationValue(o, settings) == settings \in Blocking /\ o.word

\* getPemCertificate: the certificate in a secret, or None for an error.
GetPemCertificate(s) == IF cache.sec[s] \in Certs THEN cache.sec[s] ELSE None

\* The certificate GetAuthCertificate returns: the local one, else a fresh one.
AuthCertificate(s) == IF ssl[s] # None THEN ssl[s] ELSE GetPemCertificate(s)

\* annotations.Extract: what the parsers read besides the ingress itself.
Extract(o) == [auth |-> [s \in o.auth |-> cache.sec[s]],
               mtls |-> [s \in o.mtls |-> AuthCertificate(s)],
               cm   |-> IF o.cm = "prefixed" THEN cache.extra ELSE None,
               conf |-> conf]

\* parser.AnnotationsReferencesConfigmap compares names without the prefix.
AnnotationsReferencesConfigmap(o) == o.cm = "bare"

\* updateSecretIngressMap: the secrets an ingress refers to.
SecretRefs(o) == o.tls \cup o.auth \cup o.mtls

\* objectRefMap.Reference and ReferencedBy.
Reference(s)    == {i \in Ings : <<s, i>> \in refs}
ReferencedBy(i) == {s \in Secs : <<s, i>> \in refs}

\* What syncIngress of the controller builds its model from, given the certificates
\* and the caches: getDefaultSSLCertificate reads the default one, whether an ingress
\* refers to it or not, and serviceEndpoints and getServiceClusterEndpoint read the
\* Service itself.
ViewWith(certs, c) ==
  [ing     |-> withAnn,
   cert    |-> [s \in {s \in Secs : Reference(s) # {}} |-> certs[s]],
   default |-> IF DefaultSecret = None THEN None ELSE certs[DefaultSecret],
   conf    |-> conf,
   ep      |-> c.ep,
   svc     |-> c.svc]
View == ViewWith(ssl, cache)

Parsed(o, p) == [obj |-> o, parsed |-> p]
Idle == [plan |-> None, at |-> "idle", key |-> None, ing |-> None, obj |-> None, parsed |-> None,
         cert |-> None, secs |-> {}, ings |-> {}, each |-> None, fin |-> FALSE]

Init ==
  /\ setup \in DOMAIN Setups
  /\ cache = [ing |-> [i \in Ings |-> None], sec |-> [s \in Secs |-> None],
              conf |-> InitialSettings, extra |-> CHOOSE x \in Extras : TRUE,
              cls |-> None, svc |-> None, ep |-> None]
  /\ queue = [t \in Threads \cup {"class"} |-> <<>>]
  /\ withAnn = [i \in Ings |-> None]
  /\ refs = {}
  /\ ssl = [s \in Secs |-> None]
  /\ clsStore = FALSE
  /\ conf = InitialSettings
  /\ th = [t \in Threads |-> Idle]
  /\ mu = None
  /\ announced = View
  /\ started = FALSE
  /\ changes = 0

-----------------------------------------------------------------------------
(* The cluster: an informer changes its cache and queues a notification *)

Local == <<withAnn, refs, ssl, clsStore, conf, th, mu, started>>

Notify(t, n) == queue' = [queue EXCEPT ![t] = Append(@, n)]

\* Informer.Run: the other caches have their initial objects (their handlers may still
\* be at work), so the informer of ingresses starts.
InformerRun ==
  /\ ~started
  /\ started' = TRUE
  /\ UNCHANGED <<cache, queue, withAnn, refs, ssl, clsStore, conf, th, mu, announced, changes>>

ChangeIngress(i, o) ==
  /\ started
  /\ changes < MaxChanges
  /\ cache.ing[i] # o
  /\ cache' = [cache EXCEPT !.ing[i] = o]
  /\ Notify("ingress", [key |-> i, old |-> cache.ing[i], cur |-> o])
  /\ changes' = changes + 1
  /\ UNCHANGED <<Local, announced>>

ChangeSecret(s, c) ==
  /\ changes < MaxChanges
  /\ cache.sec[s] # c
  /\ cache' = [cache EXCEPT !.sec[s] = c]
  /\ Notify("secret", [key |-> s, old |-> cache.sec[s], cur |-> c])
  /\ changes' = changes + 1
  /\ UNCHANGED <<Local, announced>>

\* k is "conf", the ConfigMap of the controller, or "extra", one named in annotations.
ChangeConfigMap(k, v) ==
  /\ changes < MaxChanges
  /\ cache[k] # v
  /\ cache' = IF k = "conf" THEN [cache EXCEPT !.conf = v] ELSE [cache EXCEPT !.extra = v]
  /\ Notify("configmap", [key |-> k, cur |-> v])
  /\ changes' = changes + 1
  /\ UNCHANGED <<Local, announced>>

ChangeClass(v) ==
  /\ ClassFixed => ~started
  /\ changes < MaxChanges
  /\ cache.cls # v /\ None \in {cache.cls, v}    \* spec.controller is immutable
  /\ cache' = [cache EXCEPT !.cls = v]
  /\ Notify("class", [old |-> cache.cls, cur |-> v])
  /\ changes' = changes + 1
  /\ UNCHANGED <<Local, announced>>

\* epEventHandler and serviceHandler keep nothing: they only decide about the event.
EndpointsEvent(old, cur) == old # cur
ServiceEvent(old, cur) ==
  IF old = None THEN cur = "external"
  ELSE IF cur = None THEN old = "external"
  ELSE old # cur

ChangeEndpoints(v) ==
  /\ changes < MaxChanges
  /\ cache.ep # v
  /\ cache' = [cache EXCEPT !.ep = v]
  /\ announced' = IF EndpointsEvent(cache.ep, v) THEN ViewWith(ssl, cache') ELSE announced
  /\ changes' = changes + 1
  /\ UNCHANGED <<queue, Local>>

ChangeService(v) ==
  /\ changes < MaxChanges
  /\ cache.svc # v
  /\ cache' = [cache EXCEPT !.svc = v]
  /\ announced' = IF ServiceEvent(cache.svc, v) THEN ViewWith(ssl, cache') ELSE announced
  /\ changes' = changes + 1
  /\ UNCHANGED <<queue, Local>>

-----------------------------------------------------------------------------
(* The handlers *)

Drop(t) == queue' = [queue EXCEPT ![t] = Tail(@)]

\* The plans: "store" and "delete" an ingress; "default", a secret that is needed
\* without an ingress; then what is done for each ingress of a loop: "parse" it, with
\* the certificates of its secrets before ("certified") or after ("added").
First(plan) == CASE plan = "delete"    -> "delete"
                 [] plan = "certified" -> "secrets"
                 [] plan = "default"   -> "certs"
                 [] OTHER              -> "extract"

\* The step that follows another, in the order of the statements of the handlers.
After(plan, step) ==
  CASE step = "extract" -> "update"
    [] step = "update"  -> IF plan = "store" THEN "refs"
                           ELSE IF plan = "added" THEN "secrets" ELSE "loop"
    [] step = "refs"    -> "secrets"
    [] step = "secrets" -> "certs"
    [] step = "put"     -> "certs"
    [] step = "certs"   -> IF plan = "store" THEN "event"
                           ELSE IF plan = "default" THEN "references"
                           ELSE IF plan = "certified" THEN "extract" ELSE "loop"
    [] step = "delete"  -> "unref"
    [] step = "unref"   -> "event"
    [] step = "uncert"  -> "references"
    [] step \in {"references", "list"} -> "loop"

\* A goroutine takes the first notification and starts on it.
Take(t, new) ==
  /\ Drop(t)
  /\ th' = [th EXCEPT ![t] = new]
  /\ UNCHANGED <<cache, withAnn, refs, ssl, clsStore, conf, mu, announced, started, changes>>

\* ingDeleteHandler: the deletion of o is ignored.
DeleteIgnored(o) == ~GetIngressClass(o, clsStore) \/ CatchAllRefused(o)

\* AddFunc: the new ingress o is stored.
AddPlan(o) ==
  IF GetIngressClass(o, clsStore) /\ DeepInspectOK(o) /\ ~CatchAllRefused(o)
  THEN "store" ELSE None

DelPlan(old) == IF DeleteIgnored(old) THEN None ELSE "delete"

\* The mistake to leave out the deletion when the class of an ingress changes.
UpdatePlanKeepsOld(old, cur) ==
  IF GetIngressClass(cur, clsStore) /\ DeepInspectOK(cur) /\ ~CatchAllRefused(cur)
  THEN "store" ELSE None

\* UpdateFunc.  With IgnoreIngressClass neither version is asked for its class.
UpdatePlan(old, cur) ==
  LET okOld == IgnoreClass \/ GetIngressClass(old, clsStore)
      okCur == IgnoreClass \/ GetIngressClass(cur, clsStore)
  IN CASE ~okOld /\ okCur /\ CatchAllRefused(cur) -> None
       [] okOld /\ ~okCur                         -> DelPlan(old)
       [] okOld /\ okCur /\ CatchAllRefused(cur)  -> DelPlan(old)
       [] okCur /\ ~CatchAllRefused(cur)
               -> IF DeepInspectOK(cur) THEN "store" ELSE None
       [] OTHER                                   -> None

IngressHandler ==
  /\ th["ingress"] = Idle
  /\ queue["ingress"] # <<>>
  /\ LET n == Head(queue["ingress"])
         plan == IF n.old = None THEN AddPlan(n.cur)
                 ELSE IF n.cur = None THEN DelPlan(n.old)
                 ELSE UpdatePlan(n.old, n.cur)
     IN Take("ingress", IF plan = None THEN Idle
                        ELSE [Idle EXCEPT !.plan = plan, !.at = First(plan),
                                          !.ing = n.key, !.obj = n.cur])

\* The per-ingress part of secrEventHandler: AddFunc parses before it reads the
\* certificates, UpdateFunc after, DeleteFunc reads none.
EachIngress(n) ==
  IF n.old = None THEN "added" ELSE IF n.cur = None THEN "parse" ELSE "certified"

SecretHandler ==
  /\ th["secret"] = Idle
  /\ queue["secret"] # <<>>
  /\ LET n == Head(queue["secret"])
         step == IF n.cur = None THEN "uncert"
                 ELSE IF n.key = DefaultSecret THEN First("default") ELSE "references"
     IN Take("secret", [Idle EXCEPT !.plan = "default", !.at = step, !.key = n.key,
                                    !.secs = {n.key}, !.each = EachIngress(n)])

\* handleCfgMapEvent up to the loop over the ingresses.
ConfigMapHandler ==
  /\ th["configmap"] = Idle
  /\ queue["configmap"] # <<>>
  /\ LET n == Head(queue["configmap"])
     IN /\ conf' = IF n.key = "conf" THEN n.cur ELSE conf
        /\ th' = [th EXCEPT !["configmap"] =
                    [Idle EXCEPT !.at = "list", !.fin = (n.key = "conf"), !.each = "parse"]]
  /\ Drop("configmap")
  /\ UNCHANGED <<cache, withAnn, refs, ssl, clsStore, mu, announced, started, changes>>

\* ingressClassEventHandler; the local store gets only classes of this controller.
ClassAdded(n)   == n.old = None /\ (n.cur = "ours" \/ ClassByName)
ClassDeleted(n) == n.cur = None /\ n.old = "ours"
ClassHandler ==
  /\ queue["class"] # <<>>
  /\ LET n == Head(queue["class"])
     IN /\ clsStore' = IF ClassAdded(n) THEN TRUE
                       ELSE IF ClassDeleted(n) THEN FALSE ELSE clsStore
        /\ announced' = IF ClassAdded(n) \/ ClassDeleted(n) THEN View ELSE announced
  /\ Drop("class")
  /\ UNCHANGED <<cache, withAnn, refs, ssl, conf, th, mu, started, changes>>

-----------------------------------------------------------------------------
(* The steps of the plans *)

AtStep(t, s) == th[t].at = s
Rest(t) == [th[t] EXCEPT !.at = After(th[t].plan, th[t].at)]
Advance(t, new) == th' = [th EXCEPT ![t] = new]

\* syncIngress, first half: copy and parse.  An ingress with a blocked word is
\* skipped.  A certificate that GetAuthCertificate misses is stored on the way, which
\* sends a dummy event.
SyncIngressExtract(t) ==
  /\ AtStep(t, "extract")
  /\ LET o == th[t].obj
         missing == {s \in o.mtls : ssl[s] = None /\ GetPemCertificate(s) # None}
     IN IF BadAnnotationValue(o, conf)
        THEN /\ Advance(t, [th[t] EXCEPT !.at = After(th[t].plan, "update")])
             /\ UNCHANGED <<ssl, announced>>
        ELSE /\ missing # {} => mu = None
             /\ ssl' = [s \in Secs |-> IF s \in missing THEN GetPemCertificate(s)
                                                        ELSE ssl[s]]
             /\ announced' = IF missing # {} THEN ViewWith(ssl', cache) ELSE announced
             /\ Advance(t, [Rest(t) EXCEPT !.parsed = Extract(o)])
  /\ UNCHANGED <<cache, queue, withAnn, refs, clsStore, conf, mu, started, changes>>

\* syncIngress, second half: IngressWithAnnotation.Update, which also adds.
SyncIngressUpdate(t) ==
  /\ AtStep(t, "update")
  /\ withAnn' = [withAnn EXCEPT ![th[t].ing] = Parsed(th[t].obj, th[t].parsed)]
  /\ Advance(t, Rest(t))
  /\ UNCHANGED <<cache, queue, refs, ssl, clsStore, conf, mu, announced, started, changes>>

UpdateSecretIngressMap(t) ==
  /\ AtStep(t, "refs")
  /\ refs' = {r \in refs : r[2] # th[t].ing}
               \cup {<<s, th[t].ing>> : s \in SecretRefs(th[t].obj)}
  /\ Advance(t, Rest(t))
  /\ UNCHANGED <<cache, queue, withAnn, ssl, clsStore, conf, mu, announced, started, changes>>

\* syncSecrets looks up the references once and then syncs each of them.
SyncSecrets(t) ==
  /\ AtStep(t, "secrets")
  /\ Advance(t, [Rest(t) EXCEPT !.secs = ReferencedBy(th[t].ing)])
  /\ UNCHANGED <<cache, queue, withAnn, refs, ssl, clsStore, conf, mu, announced, started, changes>>

\* syncSecret: under the mutex, read the secret and make a certificate of it.
SyncSecretRead(t, s) ==
  /\ AtStep(t, "certs")
  /\ s \in th[t].secs
  /\ mu = None
  /\ IF GetPemCertificate(s) = None
     THEN /\ Advance(t, [th[t] EXCEPT !.secs = @ \ {s}])
          /\ UNCHANGED mu
     ELSE /\ Advance(t, [th[t] EXCEPT !.at = "put", !.secs = @ \ {s},
                                      !.cert = <<s, GetPemCertificate(s)>>])
          /\ mu' = t
  /\ UNCHANGED <<cache, queue, withAnn, refs, ssl, clsStore, conf, announced, started, changes>>

\* syncSecret: add or update the local certificate unless it is equal.
SyncSecretWriteKeepsLock(t) ==
  /\ AtStep(t, "put")
  /\ ssl' = [ssl EXCEPT ![th[t].cert[1]] = th[t].cert[2]]
  /\ announced' = IF ssl' # ssl THEN ViewWith(ssl', cache) ELSE announced
  /\ Advance(t, Rest(t))
  /\ UNCHANGED <<cache, queue, withAnn, refs, clsStore, conf, mu, started, changes>>

SyncSecretWrite(t) ==
  /\ AtStep(t, "put")
  /\ ssl' = [ssl EXCEPT ![th[t].cert[1]] = th[t].cert[2]]
  /\ announced' = IF ssl' # ssl THEN ViewWith(ssl', cache) ELSE announced
  /\ mu' = None
  /\ Advance(t, Rest(t))
  /\ UNCHANGED <<cache, queue, withAnn, refs, clsStore, conf, started, changes>>

SyncSecretsDone(t) ==
  /\ AtStep(t, "certs")
  /\ th[t].secs = {}
  /\ Advance(t, Rest(t))
  /\ UNCHANGED <<cache, queue, withAnn, refs, ssl, clsStore, conf, mu, announced, started, changes>>

\* sslStore.Delete, not under the mutex.
DeleteCert ==
  /\ AtStep("secret", "uncert")
  /\ ssl' = [ssl EXCEPT ![th["secret"].key] = None]
  /\ Advance("secret", Rest("secret"))
  /\ UNCHANGED <<cache, queue, withAnn, refs, clsStore, conf, mu, announced, started, changes>>

DeleteIngress ==
  /\ AtStep("ingress", "delete")
  /\ withAnn' = [withAnn EXCEPT ![th["ingress"].ing] = None]
  /\ Advance("ingress", Rest("ingress"))
  /\ UNCHANGED <<cache, queue, refs, ssl, clsStore, conf, mu, announced, started, changes>>

DeleteReferences ==
  /\ AtStep("ingress", "unref")
  /\ refs' = {r \in refs : r[2] # th["ingress"].ing}
  /\ Advance("ingress", Rest("ingress"))
  /\ UNCHANGED <<cache, queue, withAnn, ssl, clsStore, conf, mu, announced, started, changes>>

FindReferencesSilent ==
  /\ AtStep("secret", "references")
  /\ Advance("secret", [Rest("secret") EXCEPT !.ings = Reference(th["secret"].key)])
  /\ UNCHANGED <<cache, queue, withAnn, refs, ssl, clsStore, conf, mu, announced, started, changes>>

\* secretIngressMap.Reference; without a reference there is no event.
FindReferences ==
  /\ AtStep("secret", "references")
  /\ LET ings == Reference(th["secret"].key)
     IN Advance("secret", [Rest("secret") EXCEPT !.ings = ings, !.fin = (ings # {})])
  /\ UNCHANGED <<cache, queue, withAnn, refs, ssl, clsStore, conf, mu, announced, started, changes>>

ListIngressKeys ==
  /\ AtStep("configmap", "list")
  /\ Advance("configmap", [Rest("configmap") EXCEPT
                             !.ings = {i \in Ings : withAnn[i] # None}])
  /\ UNCHANGED <<cache, queue, withAnn, refs, ssl, clsStore, conf, mu, announced, started, changes>>

\* The loops over ingresses: getIngress, and on with it unless it is gone or, for a
\* ConfigMap, not concerned.
NextIngress(t, i) ==
  /\ AtStep(t, "loop")
  /\ i \in th[t].ings
  /\ LET known == withAnn[i] # None
         concerned == \/ t = "secret"
                      \/ th[t].fin
                      \/ AnnotationsReferencesConfigmap(withAnn[i].obj)
     IN Advance(t, IF known /\ concerned
                   THEN [th[t] EXCEPT !.ings = @ \ {i}, !.plan = th[t].each,
                                      !.at = First(th[t].each), !.ing = i,
                                      !.obj = withAnn[i].obj]
                   ELSE [th[t] EXCEPT !.ings = @ \ {i}])
  /\ UNCHANGED <<cache, queue, withAnn, refs, ssl, clsStore, conf, mu, announced, started, changes>>

\* The last statement of a handler, updateCh.In() <- Event{...}.
SendEvent(t) ==
  /\ \/ AtStep(t, "event")
     \/ AtStep(t, "loop") /\ th[t].ings = {}
  /\ announced' = IF AtStep(t, "event") \/ th[t].fin THEN View ELSE announced
  /\ Advance(t, Idle)
  /\ UNCHANGED <<cache, queue, withAnn, refs, ssl, clsStore, conf, mu, started, changes>>

Handler(t) ==
  \/ SyncIngressExtract(t)
  \/ SyncIngressUpdate(t)
  \/ UpdateSecretIngressMap(t)
  \/ SyncSecrets(t)
  \/ \E s \in Secs : SyncSecretRead(t, s)
  \/ SyncSecretWrite(t)
  \/ SyncSecretsDone(t)
  \/ \E i \in Ings : NextIngress(t, i)
  \/ SendEvent(t)

Handlers ==
  \/ IngressHandler \/ SecretHandler \/ ConfigMapHandler \/ ClassHandler
  \/ DeleteCert \/ DeleteIngress \/ DeleteReferences \/ ListIngressKeys
  \/ FindReferences
  \/ \E t \in Threads : Handler(t)

Cluster ==
  \/ InformerRun
  \/ \E i \in Ings, o \in Shapes \cup {None} : ChangeIngress(i, o)
  \/ \E s \in Secs, c \in Contents \cup {None} : ChangeSecret(s, c)
  \/ \E v \in Settings : ChangeConfigMap("conf", v)
  \/ \E v \in Extras : ChangeConfigMap("extra", v)
  \/ \E v \in ClassObjs : ChangeClass(v)
  \/ \E v \in Loads : ChangeEndpoints(v)
  \/ \E v \in Services : ChangeService(v)

Next == (Cluster \/ Handlers) /\ UNCHANGED setup

\* The goroutines of the informers keep calling their handlers.
Fairness == WF_vars(Handlers)

Spec == Init /\ [][Next]_<<vars, setup>> /\ Fairness

-----------------------------------------------------------------------------
(* Properties *)

Stored == [obj : Shapes, parsed : [auth : UNION {[S -> Contents \cup {None}] : S \in SUBSET Secs},
                                   mtls : UNION {[S -> Certs \cup {None}] : S \in SUBSET Secs},
                                   cm : Extras \cup {None}, conf : Settings]]

\* Types.  An entry of the local store is never without an ingress or its annotations.
TypeOK ==
  /\ \A i \in Ings : withAnn[i] \in Stored \cup {None}
  /\ refs \subseteq Secs \X Ings
  /\ ssl \in [Secs -> Certs \cup {None}]
  /\ conf \in Settings
  /\ clsStore \in BOOLEAN
  /\ mu \in Threads \cup {None}

\* Every handler has finished with everything its informer has seen.
Quiet == /\ \A t \in DOMAIN queue : queue[t] = <<>>
         /\ \A t \in Threads : th[t] = Idle

\* Once the handlers have caught up, the local certificate of a secret that some
\* ingress refers to is the one in the secret, whichever of ingress and secret came
\* first and whoever called syncSecret last.
CertCurrent ==
  Quiet => \A r \in refs : cache.sec[r[1]] \in Certs => ssl[r[1]] = cache.sec[r[1]]

\* What no handler announces: that the default certificate is gone, if no ingress refers
\* to its secret, and that a Service which is not an ExternalName one came or went.  The
\* view v differs from what an event was sent for, a, in nothing else.
Covers(a, v) ==
  /\ a.ing = v.ing /\ a.cert = v.cert /\ a.conf = v.conf /\ a.ep = v.ep
  /\ a.default = v.default \/ v.default = None
  /\ a.svc = v.svc \/ "external" \notin {a.svc, v.svc}

\* Once the handlers have caught up, what they changed in what syncIngress reads has been
\* followed by an event in updateCh, but for the two changes that Covers leaves out: no
\* other change waits for an unrelated event.
Announced == Quiet => Covers(announced, View)

\* The same for every change (docs/how-it-works.md:13, "on every change, we have to rebuild
\* a new model"; line 45, a reload is required when a Service or a Secret is removed).
AnnouncedAlways == Quiet => announced = View

\* An ingress New's handlers have no reason to refuse.
Wanted(o) == /\ o # None
             /\ GetIngressClass(o, clsStore)
             /\ ~CatchAllRefused(o) /\ DeepInspectOK(o) /\ ~BadAnnotationValue(o, conf)

\* Once the handlers have caught up, the local store has every ingress the controller
\* wants in its latest version, with its references, and none that was deleted or
\* belongs to another class.
LocalEqualsCluster ==
  Quiet => \A i \in Ings :
    LET o == cache.ing[i]
    IN /\ Wanted(o) => withAnn[i] # None /\ withAnn[i].obj = o
                        /\ ReferencedBy(i) = SecretRefs(o)
       /\ (o = None \/ (~IgnoreClass /\ ~GetIngressClass(o, clsStore)))
            => withAnn[i] = None /\ ReferencedBy(i) = {}

\* Once the handlers have caught up, no ingress is stored that was deleted
\* (docs/how-it-works.md:45).
DeletedIsGone == Quiet => \A i \in Ings : cache.ing[i] = None => withAnn[i] = None

\* An ingress whose class is not the controller's is not stored
\* (test/e2e/settings/ingress_class.go:652).
OnlyOwnClass ==
  Quiet => \A i \in Ings : withAnn[i] # None => GetIngressClass(withAnn[i].obj, clsStore)

\* Once the handlers have caught up, the annotations of a stored ingress have been
\* parsed with the secrets as they are now (comment at store.go:896).
SecretsParsed ==
  Quiet => \A i \in Ings : withAnn[i] # None =>
    \A s \in withAnn[i].obj.auth : withAnn[i].parsed.auth[s] = cache.sec[s]

\* The same for a ConfigMap named in an annotation.
ConfigMapParsed ==
  Quiet => \A i \in Ings : withAnn[i] # None =>
    (withAnn[i].obj.cm # "no" => withAnn[i].parsed.cm = Extract(withAnn[i].obj).cm)

\* The handlers end up idle with everything announced that Announced promises: none of
\* them waits for ever for syncSecretMu, and no notification is left over.
CaughtUp  == Quiet /\ Covers(announced, View)
CatchesUp == <>[]CaughtUp
=============================================================================
