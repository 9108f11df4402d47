---------------------------- MODULE ModelProofs ----------------------------
(***************************************************************************)
(* Proofs about the model and what depends on it: the sessions and         *)
(* canaries of requests (Requests), the endpoints of services (Calls), the *)
(* comparison of configurations (Config) and the passes that build the     *)
(* model (Build), for all backends, services, lists of ingresses and       *)
(* setups.                                                                 *)
(***************************************************************************)
EXTENDS Model, FiniteSetTheorems, WellFoundedInduction, TLAPS

\* A step is one of the component whose setup this is.
LEMMA StepOfOne ==
  ASSUME [Next]_vars
  PROVE  /\ UNCHANGED setup
         /\ OfBuild => [Build!Next]_<<Build!vars, setup>>
         /\ OfCalls => [Calls!Next]_<<Calls!vars, setup>>
         /\ OfConfigs => [Config!Next]_<<Config!vars, setup>>
         /\ OfRequests => [Requests!Next]_<<Requests!vars, setup>>
<1> USE DEF OfBuild, OfCalls, OfConfigs, OfRequests
<1>1. CASE OfBuild /\ Build!Next
  BY <1>1, ModelAssumption DEF Build!Next
<1>2. CASE OfCalls /\ Calls!Next
  BY <1>2, ModelAssumption DEF Calls!Next
<1>3. CASE OfConfigs /\ Config!Next
  BY <1>3, ModelAssumption DEF Config!Next
<1>4. CASE OfRequests /\ Requests!Next
  BY <1>4, ModelAssumption DEF Requests!Next
<1>5. CASE UNCHANGED vars
  BY <1>5 DEF vars, buildVars, endpointVars, equalVars, routingVars, Build!vars, Calls!vars,
     Config!vars, Requests!vars
<1> QED
  BY <1>1, <1>2, <1>3, <1>4, <1>5 DEF Next

\* So does every behaviour start.
LEMMA InitOfOne ==
  ASSUME Init
  PROVE  /\ OfBuild => Build!Init
         /\ OfCalls => Calls!Init
         /\ OfConfigs => Config!Init
         /\ OfRequests => Requests!Init
BY ModelAssumption DEF Init, OfBuild, OfCalls, OfConfigs, OfRequests

\* Every set of natural numbers has a least one.
LEMMA LeastNat ==
  ASSUME NEW T, T \subseteq Nat, T # {}
  PROVE  \E n \in T : \A m \in T : n <= m
<1>1. \E R : IsWellFoundedOn(R, Nat) /\ \A x, y \in Nat : y < x => <<y, x>> \in R
  <2>1. \A x, y \in Nat : y < x => <<y, x>> \in OpToRel(<, Nat)
    BY DEF OpToRel
  <2> QED
    BY <2>1, NatLessThanWellFounded
<1>2. PICK R : IsWellFoundedOn(R, Nat) /\ \A x, y \in Nat : y < x => <<y, x>> \in R
  BY <1>1
<1>3. PICK n \in T : \A m \in T : ~(<<m, n>> \in R)
  BY <1>2, WFMin
<1>4. ASSUME NEW m \in T
      PROVE  n <= m
  <2>1. m \in Nat /\ n \in Nat
    OBVIOUS
  <2>2. ~(m < n)
    BY <1>2, <1>3, <2>1, Zenon
  <2> QED
    BY <2>1, <2>2
<1> QED
  BY <1>4

-----------------------------------------------------------------------------
(* Sessions and canaries *)

\* The controller has sent what the worker routes by.
Sent == \E c \in Requests!Configs : /\ nodes = [b \in Requests!Backends |-> c[b]]
                                    /\ alt = c.alt

\* A cookie names the balancer that set it, which is a sticky one.
CookieOK(k) ==
  k # None => /\ Requests!Mode = "persistent" => k.key[1] = k.backend
              /\ Requests!Sticky(k.backend)

\* A request has endpoints to go to, and no peer that failed it.
RequestOK(s) ==
  req[s].on =>
    /\ Requests!NodesOf(req[s]) # {}
    /\ CookieOK(req[s].setCookie)
    /\ req[s].fails = 0 => req[s].tried = {}
    /\ req[s].peer # None => req[s].fails < Requests!MaxTries
    /\ req[s].fails = 0 /\ req[s].peer = None => req[s].setCookie = None
    /\ Requests!ChangeOnFailure /\ Requests!Sticky(req[s].to) => req[s].peer \notin req[s].tried

\* What holds in every setup.
RoutingOK ==
  /\ Requests!TypeOK /\ Sent
  /\ \A s \in Sessions : CookieOK(cookie[s]) /\ RequestOK(s)

\* The cookie that the client has when the request is answered now.
NextCookie(s) == IF req[s].setCookie = None THEN cookie[s] ELSE req[s].setCookie

\* The cookie k leads to the endpoint e of the balancer b, which is there, when the
\* balancers have the endpoints n and the canary is there if a.
Leads(k, b, e, n, a) ==
  /\ k # None /\ k.backend = b /\ Requests!Sticky(b)
  /\ e \in n[b] /\ (b = "canary" => a)
  /\ Requests!Find(b, n[b], k.key) = e

\* The request r of a session with the cookie k, if its balancer has kept what it chose
\* from: the cookie that the client will have leads to the peer.
Staying(r, k, n, a) ==
  r.on /\ r.stays =>
    /\ ~r.detached /\ n[r.to] # {} /\ (r.to = "canary" => a)
    /\ r.peer # None /\ Requests!Sticky(r.to) =>
         Leads(IF r.setCookie = None THEN k ELSE r.setCookie, r.to, r.peer, n, a)
    /\ Requests!Mode = "balanced" /\ ~Requests!ChangeOnFailure /\ r.setCookie # None
         /\ k # None => Requests!Find(r.to, n[r.to], k.key) = None

\* The request r of a session that l answered, which may still go there: it does.
Returning(r, l) ==
  r.on /\ l # None =>
    /\ r.to = l[1] /\ ~r.detached
    /\ r.fails = 0 => r.peer \in {None, l[2]}
    /\ ~Requests!ChangeOnFailure => r.setCookie = None /\ r.peer \in {None, l[2]}

\* What a session's cookie is worth, in steady setups.
Session(r, k, l, n, a) ==
  /\ Requests!Mode = "balanced" /\ r.on /\ k # None => r.to = k.backend
  /\ l # None => Leads(k, l[1], l[2], n, a)
  /\ Staying(r, k, n, a)
  /\ Returning(r, l)

SessionOK(s) == Session(req[s], cookie[s], answered[s], nodes, alt)

SessionsOK == Requests!Steady => \A s \in Sessions : SessionOK(s)

-----------------------------------------------------------------------------
(* Finding endpoints *)

LEMMA MinIsLeast ==
  ASSUME NEW I, I \subseteq Nat, I # {}
  PROVE  /\ Requests!Min(I) \in I
         /\ \A i \in I : Requests!Min(I) <= i
  BY LeastNat DEF Requests!Min

\* The keys of balanced sessions are the keys of the ring.
LEMMA RingKeys ==
  ASSUME OfRequests, Requests!Mode # "persistent", NEW k \in Requests!CookieKeys
  PROVE  k \in Keys /\ DOMAIN Ring[k] \subseteq Nat /\ \A i \in DOMAIN Ring[k] : Ring[k][i] \in Peers
<1>1. Requests!Mode = "balanced"
  BY ModelAssumption DEF OfRequests, Requests!RoutingAssumption, Requests!Mode
<1>2. k \in Keys /\ Ring[k] \in Seq(Peers)
  BY <1>1, ModelAssumption DEF Requests!RoutingAssumption, Requests!CookieKeys
<1> QED
  BY <1>2

\* What a key finds is an endpoint that is there; it finds the same as long as that one
\* stays, and still nothing if none is added.
LEMMA FindFinds ==
  ASSUME OfRequests, NEW b \in Requests!Backends, NEW ns \in SUBSET Peers,
         NEW k \in Requests!CookieKeys
  PROVE  /\ Requests!Find(b, ns, k) \in ns \cup {None}
         /\ \A ms \in SUBSET ns : Requests!Find(b, ns, k) \in ms \cup {None} =>
              Requests!Find(b, ms, k) = Requests!Find(b, ns, k)
<1>0. None \notin Peers
  BY ModelAssumption DEF Requests!RoutingAssumption
<1>1. CASE Requests!Mode = "persistent"
  BY <1>0, <1>1 DEF Requests!Find
<1>2. CASE Requests!Mode # "persistent"
  <2> DEFINE live(ms) == {i \in DOMAIN Ring[k] : Ring[k][i] \in ms}
             first(ms) == Requests!Min(live(ms))
  <2>1. DOMAIN Ring[k] \subseteq Nat /\ \A i \in DOMAIN Ring[k] : Ring[k][i] \in Peers
    BY <1>2, RingKeys
  <2>2. \A ms : Requests!Find(b, ms, k) = IF live(ms) = {} THEN None ELSE Ring[k][first(ms)]
    BY <1>2 DEF Requests!Find
  <2>3. ASSUME NEW ms, live(ms) # {}
        PROVE  first(ms) \in live(ms) /\ \A i \in live(ms) : first(ms) <= i
    <3>1. live(ms) \subseteq Nat
      BY <2>1
    <3> HIDE DEF live
    <3> QED
      BY <2>3, <3>1, MinIsLeast
  <2> HIDE DEF first
  <2>4. Requests!Find(b, ns, k) \in ns \cup {None}
    <3>1. CASE live(ns) = {}
      BY <2>2, <3>1
    <3>2. CASE live(ns) # {}
      <4>1. Ring[k][first(ns)] \in ns
        BY <2>3, <3>2
      <4> QED
        BY <2>2, <3>2, <4>1
    <3> QED
      BY <3>1, <3>2
  <2>5. ASSUME NEW ms \in SUBSET ns, Requests!Find(b, ns, k) \in ms \cup {None}
        PROVE  Requests!Find(b, ms, k) = Requests!Find(b, ns, k)
    <3>1. CASE live(ns) = {}
      <4>1. live(ms) = {}
        BY <3>1
      <4> QED
        BY <2>2, <3>1, <4>1
    <3>2. CASE live(ns) # {}
      <4>1. Requests!Find(b, ns, k) = Ring[k][first(ns)] /\ first(ns) \in live(ns)
        BY <2>2, <2>3, <3>2
      <4>2. first(ns) \in live(ms)
        BY <1>0, <2>1, <2>5, <4>1
      <4>3. first(ms) \in live(ms) /\ first(ms) \in live(ns) /\ live(ms) # {}
        BY <2>3, <4>2
      <4>4. first(ms) <= first(ns) /\ first(ns) <= first(ms)
        BY <2>3, <4>1, <4>2, <4>3
      <4>5. first(ms) \in Nat /\ first(ns) \in Nat
        BY <2>1, <4>1, <4>3
      <4>6. first(ms) = first(ns)
        BY <4>4, <4>5
      <4> QED
        BY <2>2, <4>1, <4>3, <4>6
    <3> QED
      BY <3>1, <3>2
  <2> QED
    BY <2>4, <2>5
<1> QED
  BY <1>1, <1>2

-----------------------------------------------------------------------------
(* Requests *)

\* What the setups say.
LEMMA RequestSetup ==
  ASSUME OfRequests
  PROVE  /\ Requests!Mode \in {"persistent", "balanced"}
         /\ Requests!Legacy \in BOOLEAN /\ Requests!ChangeOnFailure \in BOOLEAN
         /\ Requests!Configs \subseteq Requests!Config /\ Requests!MaxTries \in Nat
         /\ None \notin Peers
         /\ None \notin [key : Requests!CookieKeys, backend : Requests!Backends]
BY ModelAssumption DEF OfRequests, Requests!RoutingAssumption, Requests!Mode, Requests!Legacy,
   Requests!ChangeOnFailure, Requests!Configs, Requests!MaxTries, Requests!CookieKeys

LEMMA SetupStays ==
  ASSUME UNCHANGED setup
  PROVE  /\ OfRequests' = OfRequests
         /\ Requests!Mode' = Requests!Mode
         /\ Requests!ChangeOnFailure' = Requests!ChangeOnFailure
         /\ Requests!Configs' = Requests!Configs
         /\ Requests!Policies' = Requests!Policies
         /\ Requests!Cookies' = Requests!Cookies
         /\ Requests!Request' = Requests!Request
         /\ Requests!Steady' = Requests!Steady
         /\ \A b : Requests!Sticky(b)' = Requests!Sticky(b)
         /\ \A b, ns, k : Requests!Find(b, ns, k)' = Requests!Find(b, ns, k)
         /\ \A r : Requests!NodesOf(r)' = IF r.detached THEN r.nodes ELSE nodes'[r.to]
BY DEF OfRequests, Requests!Mode, Requests!ChangeOnFailure, Requests!Configs, Requests!Policies,
   Requests!Cookies, Requests!Request, Requests!Steady, Requests!Sticky, Requests!Find,
   Requests!NodesOf, Requests!CookieKeys, Requests!Header, Requests!Headers, Requests!MaxTries,
   Requests!Legacy

\* What a step that keeps the setup makes of the invariant's parts.
LEMMA NextRouting ==
  ASSUME UNCHANGED setup, NEW s
  PROVE  /\ CookieOK(cookie[s])' = CookieOK(cookie'[s])
         /\ RequestOK(s)' =
              (req'[s].on =>
                 /\ (IF req'[s].detached THEN req'[s].nodes ELSE nodes'[req'[s].to]) # {}
                 /\ CookieOK(req'[s].setCookie)
                 /\ req'[s].fails = 0 => req'[s].tried = {}
                 /\ req'[s].peer # None => req'[s].fails < Requests!MaxTries
                 /\ req'[s].fails = 0 /\ req'[s].peer = None => req'[s].setCookie = None
                 /\ Requests!ChangeOnFailure /\ Requests!Sticky(req'[s].to) =>
                      req'[s].peer \notin req'[s].tried)
BY Zenon DEF CookieOK, RequestOK, Requests!Mode, Requests!ChangeOnFailure, Requests!Sticky,
   Requests!NodesOf, Requests!MaxTries, Requests!Legacy

LEMMA NextSession ==
  ASSUME UNCHANGED setup, NEW s
  PROVE  SessionOK(s)' = Session(req'[s], cookie'[s], answered'[s], nodes', alt')
BY Zenon DEF SessionOK, Session, Staying, Returning, Leads, Requests!Mode, Requests!ChangeOnFailure,
   Requests!Sticky, Requests!Legacy, Requests!Find

\* The endpoints of a request, and what its own cookie finds among them.
LEMMA RequestTypes ==
  ASSUME OfRequests, Requests!TypeOK, NEW s \in Sessions, req[s].on
  PROVE  /\ req[s] \in Requests!Request
         /\ Requests!NodesOf(req[s]) \in SUBSET Peers
         /\ Requests!FromCookie(s) \in Requests!NodesOf(req[s]) \cup {None}
<1>1. req[s] \in Requests!Request
  BY DEF Requests!TypeOK, Requests!NoRequest
<1>2. Requests!NodesOf(req[s]) \in SUBSET Peers /\ req[s].to \in Requests!Backends
  BY <1>1 DEF Requests!TypeOK, Requests!NodesOf, Requests!Request
<1>3. cookie[s] # None => cookie[s].key \in Requests!CookieKeys
  BY DEF Requests!TypeOK, Requests!Cookies
<1>4. Requests!FromCookie(s) \in Requests!NodesOf(req[s]) \cup {None}
  BY <1>2, <1>3, FindFinds DEF Requests!FromCookie
<1> QED
  BY <1>1, <1>2, <1>4

\* A try goes to an endpoint of the balancer: of a sticky one, to what the cookie finds,
\* or to another one that has not failed, which a cookie is set for.
LEMMA BalanceEffect ==
  ASSUME OfRequests, Requests!TypeOK, NEW s \in Sessions, Requests!Balance(s)
  PROVE  /\ UNCHANGED <<nodes, alt, policy, cookie, answered>>
         /\ \A t \in Sessions \ {s} : req'[t] = req[t]
         /\ req[s].on /\ req[s].peer = None
         /\ \E e \in Requests!NodesOf(req[s]), k \in Requests!Cookies :
              /\ req' = [req EXCEPT ![s] = [req[s] EXCEPT !.peer = e, !.setCookie = k]]
              /\ \/ ~Requests!Sticky(req[s].to) /\ k = req[s].setCookie
                 \/ /\ Requests!Sticky(req[s].to) /\ ~Requests!PickNew(s)
                    /\ e = Requests!FromCookie(s) /\ k = req[s].setCookie
                 \/ /\ Requests!Sticky(req[s].to) /\ Requests!PickNew(s)
                    /\ e \notin req[s].tried
                    /\ \E key \in Requests!CookieKeys :
                         /\ k = [key |-> key, backend |-> req[s].to]
                         /\ e = Requests!Find(req[s].to, Requests!NodesOf(req[s]), key)
<1> DEFINE Tries(e, k) == req' = [req EXCEPT ![s] = [req[s] EXCEPT !.peer = e, !.setCookie = k]]
<1>1. /\ UNCHANGED <<nodes, alt, policy, cookie, answered>>
      /\ req[s].on /\ req[s].peer = None
  BY DEF Requests!Balance
<1>2. /\ req[s] \in Requests!Request /\ Requests!NodesOf(req[s]) \in SUBSET Peers
      /\ Requests!FromCookie(s) \in Requests!NodesOf(req[s]) \cup {None}
      /\ req[s].setCookie \in Requests!Cookies /\ req[s].to \in Requests!Backends
  BY <1>1, RequestTypes DEF Requests!Request
<1> SUFFICES \E e \in Requests!NodesOf(req[s]), k \in Requests!Cookies :
               /\ Tries(e, k)
               /\ \/ ~Requests!Sticky(req[s].to) /\ k = req[s].setCookie
                  \/ /\ Requests!Sticky(req[s].to) /\ ~Requests!PickNew(s)
                     /\ e = Requests!FromCookie(s) /\ k = req[s].setCookie
                  \/ /\ Requests!Sticky(req[s].to) /\ Requests!PickNew(s)
                     /\ e \notin req[s].tried
                     /\ \E key \in Requests!CookieKeys :
                          /\ k = [key |-> key, backend |-> req[s].to]
                          /\ e = Requests!Find(req[s].to, Requests!NodesOf(req[s]), key)
  <2>1. \A e, k : Tries(e, k) => \A t \in Sessions \ {s} : req'[t] = req[t]
    BY DEF Requests!TypeOK
  <2> QED
    BY <1>1, <2>1
<1>3. CASE ~Requests!Sticky(req[s].to)
  <2>1. PICK e \in Requests!NodesOf(req[s]) : req' = [req EXCEPT ![s].peer = e]
    BY <1>3 DEF Requests!Balance
  <2>2. Tries(e, req[s].setCookie)
    BY <1>2, <2>1 DEF Requests!Request
  <2> HIDE DEF Tries
  <2> QED
    BY <1>2, <1>3, <2>1, <2>2
<1>4. CASE Requests!Sticky(req[s].to) /\ ~Requests!PickNew(s)
  <2>1. req' = [req EXCEPT ![s].peer = Requests!FromCookie(s)]
    BY <1>4 DEF Requests!Balance, Requests!StickyBalance
  <2>2. Tries(Requests!FromCookie(s), req[s].setCookie)
    BY <1>2, <2>1 DEF Requests!Request
  <2>3. Requests!FromCookie(s) \in Requests!NodesOf(req[s])
    BY <1>2, <1>4 DEF Requests!PickNew
  <2> HIDE DEF Tries
  <2> QED
    BY <1>2, <1>4, <2>2, <2>3
<1>5. CASE Requests!Sticky(req[s].to) /\ Requests!PickNew(s)
  <2>1. PICK p \in Requests!Picks(s) \ {<<None, None>>} :
           req' = [req EXCEPT ![s] = [req[s] EXCEPT !.peer = p[1],
                                                    !.setCookie = [key |-> p[2],
                                                                   backend |-> req[s].to]]]
    BY <1>5 DEF Requests!Balance, Requests!StickyBalance
  <2>2. PICK key \in Requests!CookieKeys :
           /\ p = <<Requests!Find(req[s].to, Requests!NodesOf(req[s]), key), key>>
           /\ p[1] \notin req[s].tried \cup {None}
    BY <2>1 DEF Requests!Picks, Requests!pick_new_upstream
  <2> DEFINE k == [key |-> key, backend |-> req[s].to]
  <2>3. p[1] \in Requests!NodesOf(req[s]) /\ k \in Requests!Cookies
    BY <1>2, <2>2, FindFinds DEF Requests!Cookies
  <2>4. Tries(p[1], k)
    BY <1>2, <2>1, <2>2 DEF Requests!Request
  <2> HIDE DEF Tries
  <2> QED
    BY <1>5, <2>2, <2>3, <2>4
<1> QED
  BY <1>3, <1>4, <1>5

\* A request is routed to a balancer that there is, and one with affinity to the balancer
\* of its cookie.
LEMMA RewriteEffect ==
  ASSUME OfRequests, Requests!TypeOK, NEW s \in Sessions, Requests!Rewrite(s)
  PROVE  /\ UNCHANGED <<nodes, alt, policy, cookie, answered>>
         /\ \E r \in Requests!Request :
              /\ req' = [req EXCEPT ![s] = r]
              /\ r.on /\ ~r.detached /\ r.stays /\ r.fails = 0 /\ r.tried = {}
              /\ r.peer = None /\ r.setCookie = None
              /\ nodes[r.to] # {} /\ (r.to = "canary" => alt)
              /\ cookie[s] # None =>
                   LET b == cookie[s].backend
                   IN  Requests!Sticky(b) /\ nodes[b] # {} /\ (b = "canary" => alt) => r.to = b
<1> DEFINE Routed(h, c, go) ==
         [on |-> TRUE, header |-> h, canaryCookie |-> c,
          affine |-> (\E b \in Requests!Backends : Requests!IsAffinitized(b, cookie[s])),
          to |-> IF go THEN "canary" ELSE "main", detached |-> FALSE, nodes |-> {},
          tried |-> {}, fails |-> 0, peer |-> None, setCookie |-> None, stays |-> TRUE]
<1>0. PICK h \in Requests!Header, c \in Requests!Header :
        \E go \in Requests!route_to_alternative_balancer(cookie[s], h, c) :
          req' = [req EXCEPT ![s] = Routed(h, c, go)]
  BY DEF Requests!Rewrite
<1>1. PICK go \in Requests!route_to_alternative_balancer(cookie[s], h, c) :
        req' = [req EXCEPT ![s] = Routed(h, c, go)]
  BY <1>0
<1>2. PICK affine \in BOOLEAN :
        affine = (\E b \in Requests!Backends : Requests!IsAffinitized(b, cookie[s]))
  OBVIOUS
<1> DEFINE to == IF go THEN "canary" ELSE "main"
           r == [on |-> TRUE, header |-> h, canaryCookie |-> c, affine |-> affine,
                 to |-> to, detached |-> FALSE, nodes |-> {},
                 tried |-> {}, fails |-> 0, peer |-> None, setCookie |-> None, stays |-> TRUE]
<1>3. req' = [req EXCEPT ![s] = r]
  BY <1>1, <1>2
<1>4. r \in Requests!Request
  BY RequestSetup DEF Requests!Request, Requests!Backends, Requests!Cookies
<1>5. UNCHANGED <<nodes, alt, policy, cookie, answered>> /\ nodes["main"] # {}
  BY DEF Requests!Rewrite
<1>6. nodes[to] # {} /\ (to = "canary" => alt)
  BY <1>5 DEF Requests!route_to_alternative_balancer
<1>7. ASSUME cookie[s] # None, Requests!Sticky(cookie[s].backend), nodes[cookie[s].backend] # {},
             cookie[s].backend = "canary" => alt
      PROVE  to = cookie[s].backend
  <2>1. cookie[s].backend \in {"main", "canary"}
    BY <1>7 DEF Requests!TypeOK, Requests!Cookies, Requests!Backends
  <2> QED
    BY <1>7, <2>1 DEF Requests!route_to_alternative_balancer, Requests!IsAffinitized
<1>8. /\ r.on /\ ~r.detached /\ r.stays /\ r.fails = 0 /\ r.tried = {}
      /\ r.peer = None /\ r.setCookie = None /\ r.to = to
  OBVIOUS
<1> HIDE DEF r, to
<1> QED
  BY <1>3, <1>4, <1>5, <1>6, <1>7, <1>8

\* A synchronisation changes what the requests under way go to, and what is remembered.
LEMMA SyncEffect ==
  ASSUME OfRequests, Requests!TypeOK, UNCHANGED setup,
         NEW c \in Requests!Configs, NEW p \in Requests!Policies, Requests!Sync(c, p)
  PROVE  /\ Requests!TypeOK' /\ cookie' = cookie
         /\ nodes' = [b \in Requests!Backends |-> c[b]] /\ alt' = c.alt
         /\ \A s \in Sessions :
              /\ ~req[s].on => ~req'[s].on
              /\ req[s].on =>
                   LET r == req[s]  gone == ~r.detached /\ nodes'[r.to] = {}
                   IN  req'[s] = [r EXCEPT !.detached = r.detached \/ gone,
                                           !.nodes = IF gone THEN nodes[r.to] ELSE r.nodes,
                                           !.stays = r.stays /\ Requests!Remains(r.to, r.peer)]
              /\ answered'[s] # None =>
                   answered'[s] = answered[s] /\ Requests!Remains(answered[s][1], answered[s][2])
<1>1. /\ cookie' = cookie /\ policy' = p
      /\ nodes' = [b \in Requests!Backends |-> c[b]] /\ alt' = c.alt
      /\ nodes' \in [Requests!Backends -> SUBSET Peers] /\ alt' \in BOOLEAN
  BY RequestSetup DEF Requests!Sync, Requests!Config, Requests!Backends
<1>2. /\ req' = [s \in Sessions |-> Requests!Doubt(Requests!Detach(req[s]))]
      /\ answered' = [s \in Sessions |->
            IF answered[s] = None \/ ~Requests!Remains(answered[s][1], answered[s][2])
            THEN None ELSE answered[s]]
  BY DEF Requests!Sync
<1>3. ASSUME NEW s \in Sessions, ~req[s].on
      PROVE  req'[s] = req[s]
  BY <1>2, <1>3 DEF Requests!Doubt, Requests!Detach
<1>4. ASSUME NEW s \in Sessions, req[s].on
      PROVE  LET r == req[s]  gone == ~r.detached /\ nodes'[r.to] = {}
             IN  /\ req'[s] \in Requests!Request
                 /\ req'[s] = [r EXCEPT !.detached = r.detached \/ gone,
                                        !.nodes = IF gone THEN nodes[r.to] ELSE r.nodes,
                                        !.stays = r.stays /\ Requests!Remains(r.to, r.peer)]
  <2> DEFINE r == req[s]
             gone == ~r.detached /\ nodes'[r.to] = {}
             d == Requests!Detach(r)
  <2>1. r \in Requests!Request
    BY <1>4, RequestTypes
  <2>2. r.on /\ r.detached \in BOOLEAN /\ r.stays \in BOOLEAN /\ nodes[r.to] \in SUBSET Peers
    BY <1>4, <2>1 DEF Requests!Request, Requests!TypeOK
  <2>3. d = [r EXCEPT !.detached = r.detached \/ gone,
                      !.nodes = IF gone THEN nodes[r.to] ELSE r.nodes]
    <3>1. CASE gone
      BY <2>1, <2>2, <3>1 DEF Requests!Detach, Requests!Request
    <3>2. CASE ~gone
      BY <2>1, <2>2, <3>2 DEF Requests!Detach, Requests!Request
    <3> QED
      BY <3>1, <3>2
  <2>4. d \in Requests!Request /\ d.on /\ d.to = r.to /\ d.peer = r.peer /\ d.stays = r.stays
    BY <2>1, <2>2, <2>3 DEF Requests!Request
  <2>5. req'[s] = [d EXCEPT !.stays = d.stays /\ Requests!Remains(r.to, r.peer)]
    <3> HIDE DEF d, gone, r
    <3>1. req'[s] = IF d.on /\ ~Requests!Remains(d.to, d.peer) THEN [d EXCEPT !.stays = FALSE]
                    ELSE d
      BY <1>2 DEF d, r, Requests!Doubt
    <3>2. CASE Requests!Remains(r.to, r.peer)
      BY <2>2, <2>4, <3>1, <3>2 DEF Requests!Request
    <3>3. CASE ~Requests!Remains(r.to, r.peer)
      BY <2>2, <2>4, <3>1, <3>3 DEF Requests!Request
    <3> QED
      BY <3>2, <3>3
  <2>6. req'[s] \in Requests!Request
    BY <2>2, <2>4, <2>5 DEF Requests!Request
  <2>7. req'[s] = [r EXCEPT !.detached = r.detached \/ gone,
                            !.nodes = IF gone THEN nodes[r.to] ELSE r.nodes,
                            !.stays = r.stays /\ Requests!Remains(r.to, r.peer)]
    BY <2>1, <2>3, <2>4, <2>5 DEF Requests!Request
  <2> QED
    BY <2>6, <2>7
<1>5. Requests!TypeOK'
  <2>1. req' \in [Sessions -> Requests!Request \cup {Requests!NoRequest}]
    BY <1>2, <1>3, <1>4 DEF Requests!TypeOK
  <2>2. answered' \in [Sessions -> (Requests!Backends \X Peers) \cup {None}]
    BY <1>2 DEF Requests!TypeOK
  <2> QED
    BY <1>1, <2>1, <2>2, SetupStays DEF Requests!TypeOK
<1> QED
  BY <1>1, <1>2, <1>3, <1>4, <1>5

\* A failed try.
LEMMA FailEffect ==
  ASSUME OfRequests, RoutingOK, NEW s \in Sessions, Requests!Fail(s)
  PROVE  /\ UNCHANGED <<nodes, alt, policy, cookie, answered>>
         /\ req[s].on /\ req[s].peer # None
         /\ \E n \in 1 .. Requests!MaxTries :
              req' = [req EXCEPT ![s] = [req[s] EXCEPT !.tried = req[s].tried \cup {req[s].peer},
                                                       !.fails = n, !.peer = None]]
<1>1. /\ req[s].on /\ req[s].peer # None /\ UNCHANGED <<nodes, alt, policy, cookie, answered>>
      /\ req' = [req EXCEPT ![s] = [req[s] EXCEPT !.tried = req[s].tried \cup {req[s].peer},
                                                  !.fails = req[s].fails + 1, !.peer = None]]
  BY DEF Requests!Fail, RoutingOK, Requests!TypeOK
<1>2. req[s] \in Requests!Request
  BY <1>1, RequestTypes DEF RoutingOK
<1>3. req[s].fails + 1 \in 1 .. Requests!MaxTries
  <2>1. RequestOK(s) /\ Requests!MaxTries \in Nat
    BY RequestSetup DEF RoutingOK
  <2>2. req[s].fails \in 0 .. Requests!MaxTries /\ req[s].fails < Requests!MaxTries
    BY <1>1, <1>2, <2>1 DEF RequestOK, Requests!Request
  <2> QED
    BY <2>1, <2>2
<1> DEFINE Failed(n) ==
      req' = [req EXCEPT ![s] = [req[s] EXCEPT !.tried = req[s].tried \cup {req[s].peer},
                                               !.fails = n, !.peer = None]]
<1>4. Failed(req[s].fails + 1)
  BY <1>1
<1>5. \E n \in 1 .. Requests!MaxTries : Failed(n)
  <2> HIDE DEF Failed
  <2> QED
    BY <1>3, <1>4
<1> QED
  BY <1>1, <1>5

LEMMA RoutingInit == OfRequests /\ Requests!Init => RoutingOK /\ SessionsOK
<1> SUFFICES ASSUME OfRequests, Requests!Init
             PROVE  RoutingOK /\ SessionsOK
  OBVIOUS
<1>1. Requests!TypeOK /\ Sent
  BY RequestSetup DEF OfRequests, Requests!Init, Requests!TypeOK, Sent, Requests!Config,
     Requests!Backends, Requests!Cookies
<1>2. \A s \in Sessions : cookie[s] = None /\ ~req[s].on /\ answered[s] = None
  BY DEF Requests!Init, Requests!NoRequest
<1> QED
  BY <1>1, <1>2 DEF RoutingOK, SessionsOK, SessionOK, CookieOK, RequestOK, Session, Staying, Returning

\* A step of one session leaves the others alone.
LEMMA RoutingOne ==
  ASSUME OfRequests, RoutingOK, UNCHANGED <<setup, nodes, alt, policy>>, NEW s \in Sessions,
         \A t \in Sessions \ {s} : req'[t] = req[t] /\ cookie'[t] = cookie[t],
         req' \in [Sessions -> Requests!Request \cup {Requests!NoRequest}],
         cookie' \in [Sessions -> Requests!Cookies],
         answered' \in [Sessions -> (Requests!Backends \X Peers) \cup {None}],
         CookieOK(cookie[s])', RequestOK(s)'
  PROVE  RoutingOK'
<1>1. Requests!TypeOK' /\ Sent'
  BY SetupStays DEF RoutingOK, Requests!TypeOK, Sent
<1>2. ASSUME NEW t \in Sessions \ {s}
      PROVE  CookieOK(cookie[t])' /\ RequestOK(t)'
  <2>1. CookieOK(cookie[t]) /\ RequestOK(t) /\ req'[t] = req[t] /\ cookie'[t] = cookie[t]
    BY <1>2 DEF RoutingOK
  <2> QED
    BY <2>1, NextRouting DEF RequestOK, Requests!NodesOf
<1>3. \A t \in Sessions : CookieOK(cookie[t])' /\ RequestOK(t)'
  BY <1>2
<1> QED
  BY <1>1, <1>3 DEF RoutingOK

\* In every setup, requests have endpoints to go to, and what cookies say is true.
LEMMA RoutingStep ==
  ASSUME OfRequests, RoutingOK, [Requests!Next]_<<Requests!vars, setup>>
  PROVE  RoutingOK'
<1>1. setup' = setup /\ None \notin Peers
  BY RequestSetup DEF Requests!Next
<1> DEFINE Types == /\ req' \in [Sessions -> Requests!Request \cup {Requests!NoRequest}]
                    /\ cookie' \in [Sessions -> Requests!Cookies]
                    /\ answered' \in [Sessions -> (Requests!Backends \X Peers) \cup {None}]
           Others(s) == \A t \in Sessions \ {s} : req'[t] = req[t] /\ cookie'[t] = cookie[t]
<1>2. ASSUME NEW s \in Sessions, Requests!Rewrite(s)
      PROVE  RoutingOK'
  <2>1. UNCHANGED <<nodes, alt, policy, cookie, answered>> /\ Types /\ Others(s)
    BY <1>2, RewriteEffect DEF RoutingOK, Requests!TypeOK
  <2>2. /\ nodes[req'[s].to] # {} /\ ~req'[s].detached /\ req'[s].fails = 0
        /\ req'[s].tried = {} /\ req'[s].peer = None /\ req'[s].setCookie = None
    BY <1>2, RewriteEffect DEF RoutingOK, Requests!TypeOK
  <2>3. CookieOK(cookie'[s]) /\ CookieOK(req'[s].setCookie)
    BY <2>1, <2>2 DEF RoutingOK, CookieOK
  <2>4. CookieOK(cookie[s])' /\ RequestOK(s)'
    BY <1>1, <2>1, <2>2, <2>3, NextRouting
  <2> QED
    BY <1>1, <2>1, <2>4, RoutingOne
<1>3. ASSUME NEW s \in Sessions, Requests!Balance(s)
      PROVE  RoutingOK'
  <2>1. UNCHANGED <<nodes, alt, policy, cookie, answered>>
    BY <1>3, BalanceEffect DEF RoutingOK
  <2>2. PICK e \in Requests!NodesOf(req[s]), k \in Requests!Cookies :
              /\ req' = [req EXCEPT ![s] = [req[s] EXCEPT !.peer = e, !.setCookie = k]]
              /\ \/ ~Requests!Sticky(req[s].to) /\ k = req[s].setCookie
                 \/ /\ Requests!Sticky(req[s].to) /\ ~Requests!PickNew(s)
                    /\ e = Requests!FromCookie(s) /\ k = req[s].setCookie
                 \/ /\ Requests!Sticky(req[s].to) /\ Requests!PickNew(s)
                    /\ e \notin req[s].tried
                    /\ \E key \in Requests!CookieKeys :
                         /\ k = [key |-> key, backend |-> req[s].to]
                         /\ e = Requests!Find(req[s].to, Requests!NodesOf(req[s]), key)
    BY <1>3, BalanceEffect DEF RoutingOK
  <2>3. req[s].on /\ req[s] \in Requests!Request /\ e \in Peers
    BY <1>3, RequestTypes DEF RoutingOK, Requests!Balance
  <2>4. /\ req'[s] = [req[s] EXCEPT !.peer = e, !.setCookie = k]
        /\ req'[s] \in Requests!Request /\ Types /\ Others(s)
    BY <2>1, <2>2, <2>3 DEF RoutingOK, Requests!TypeOK, Requests!Request
  <2>5. CookieOK(k)
    <3>1. CASE k = req[s].setCookie
      BY <2>3, <3>1 DEF RoutingOK, RequestOK
    <3>2. CASE k # req[s].setCookie
      <4>1. PICK key \in Requests!CookieKeys :
               /\ k = [key |-> key, backend |-> req[s].to] /\ Requests!Sticky(req[s].to)
               /\ e = Requests!Find(req[s].to, Requests!NodesOf(req[s]), key)
        BY <2>2, <3>2
      <4>2. k.key = key /\ k.backend = req[s].to /\ e # None
        BY <1>1, <2>3, <4>1
      <4>3. Requests!Mode = "persistent" => key[1] = req[s].to
        BY <4>1, <4>2 DEF Requests!Find
      <4> QED
        BY <4>1, <4>2, <4>3 DEF CookieOK
    <3> QED
      BY <3>1, <3>2
  <2>6. req[s].fails < Requests!MaxTries
    BY <1>3 DEF Requests!Balance
  <2>7. /\ req'[s].peer = e /\ req'[s].setCookie = k /\ req'[s].fails = req[s].fails
        /\ req'[s].tried = req[s].tried /\ req'[s].to = req[s].to
        /\ req'[s].detached = req[s].detached /\ req'[s].nodes = req[s].nodes
    BY <2>3, <2>4 DEF Requests!Request
  <2>8. Requests!ChangeOnFailure /\ Requests!Sticky(req[s].to) => e \notin req[s].tried
    <3>1. req[s].fails \in 0 .. Requests!MaxTries /\ RequestOK(s)
      BY <2>3 DEF RoutingOK, Requests!Request
    <3>2. Requests!ChangeOnFailure /\ ~Requests!PickNew(s) => req[s].fails = 0
      BY <3>1, RequestSetup DEF Requests!PickNew
    <3>3. req[s].fails = 0 => req[s].tried = {}
      BY <2>3, <3>1 DEF RequestOK
    <3> QED
      BY <2>2, <3>2, <3>3
  <2>9. RequestOK(s) /\ CookieOK(cookie[s])
    BY DEF RoutingOK
  <2>10. RequestOK(s)'
    BY <1>1, <2>1, <2>3, <2>5, <2>6, <2>7, <2>8, <2>9, NextRouting DEF RequestOK, Requests!NodesOf
  <2>11. CookieOK(cookie[s])'
    BY <1>1, <2>1, <2>9, NextRouting
  <2> QED
    BY <1>1, <2>1, <2>4, <2>10, <2>11, RoutingOne
<1>4. ASSUME NEW s \in Sessions, Requests!Fail(s)
      PROVE  RoutingOK'
  <2>1. /\ UNCHANGED <<nodes, alt, policy, cookie, answered>>
        /\ req[s].on /\ req[s].peer # None /\ req[s] \in Requests!Request
    BY <1>4, FailEffect, RequestTypes DEF RoutingOK
  <2>2. PICK n \in 1 .. Requests!MaxTries :
           req' = [req EXCEPT ![s] = [req[s] EXCEPT !.tried = req[s].tried \cup {req[s].peer},
                                                    !.fails = n, !.peer = None]]
    BY <1>4, FailEffect
  <2>3. req'[s] \in Requests!Request /\ Types /\ Others(s)
    <3> DEFINE r == [req[s] EXCEPT !.tried = req[s].tried \cup {req[s].peer},
                                   !.fails = n, !.peer = None]
    <3>1. n \in 0 .. Requests!MaxTries /\ Requests!TypeOK
      BY RequestSetup DEF RoutingOK
    <3>2. r \in Requests!Request
      BY <2>1, <3>1 DEF Requests!Request
    <3> HIDE DEF r
    <3>3. req' = [req EXCEPT ![s] = r]
      BY <2>2 DEF r
    <3> QED
      BY <2>1, <3>1, <3>2, <3>3 DEF Requests!TypeOK
  <2>4. /\ req'[s].peer = None /\ req'[s].setCookie = req[s].setCookie /\ req'[s].fails = n
        /\ req'[s].to = req[s].to /\ req'[s].tried \subseteq Peers
        /\ req'[s].detached = req[s].detached /\ req'[s].nodes = req[s].nodes
    BY <2>1, <2>2, <2>3 DEF RoutingOK, Requests!TypeOK, Requests!Request
  <2>5. RequestOK(s) /\ CookieOK(cookie[s]) /\ None \notin req'[s].tried /\ n # 0
    BY <1>1, <2>4, RequestSetup DEF RoutingOK
  <2>6. RequestOK(s)'
    BY <1>1, <2>1, <2>4, <2>5, NextRouting DEF RequestOK, Requests!NodesOf
  <2>7. CookieOK(cookie[s])'
    BY <1>1, <2>1, <2>5, NextRouting
  <2> QED
    BY <1>1, <2>1, <2>3, <2>6, <2>7, RoutingOne
<1>5. ASSUME NEW s \in Sessions, Requests!GiveUp(s) \/ Requests!Served(s)
      PROVE  RoutingOK'
  <2>1. /\ UNCHANGED <<nodes, alt, policy>> /\ req[s].on
        /\ req' = [req EXCEPT ![s] = Requests!NoRequest]
        /\ cookie' = [cookie EXCEPT ![s] = NextCookie(s)]
    BY <1>5 DEF Requests!GiveUp, Requests!Served, Requests!KeepCookie, NextCookie, RoutingOK,
       Requests!TypeOK
  <2>2. NextCookie(s) \in Requests!Cookies /\ CookieOK(NextCookie(s))
    BY <2>1, RequestTypes DEF NextCookie, RoutingOK, RequestOK, Requests!TypeOK, Requests!Request
  <2>3. answered' \in [Sessions -> (Requests!Backends \X Peers) \cup {None}]
    <3>1. req[s].to \in Requests!Backends /\ req[s].peer \in Peers \cup {None}
      BY <2>1, RequestTypes DEF RoutingOK, Requests!Request
    <3> QED
      BY <1>5, <3>1 DEF RoutingOK, Requests!TypeOK, Requests!GiveUp, Requests!Served
  <2>4. Types /\ Others(s)
    BY <2>1, <2>2, <2>3 DEF RoutingOK, Requests!TypeOK
  <2>5. RequestOK(s)'
    BY <1>1, <2>1, NextRouting DEF RoutingOK, Requests!TypeOK, Requests!NoRequest
  <2>6. cookie'[s] = NextCookie(s)
    BY <2>1 DEF RoutingOK, Requests!TypeOK
  <2>7. CookieOK(cookie[s])'
    BY <1>1, <2>2, <2>6, NextRouting
  <2> QED
    BY <1>1, <2>1, <2>4, <2>5, <2>7, RoutingOne
<1>6. ASSUME NEW c \in Requests!Configs, NEW p \in Requests!Policies, Requests!Sync(c, p)
      PROVE  RoutingOK'
  <2>1. Requests!TypeOK' /\ cookie' = cookie /\ Sent'
    BY <1>1, <1>6, SyncEffect, SetupStays DEF RoutingOK, Sent
  <2>2. ASSUME NEW s \in Sessions
        PROVE  CookieOK(cookie[s])'
    BY <1>1, <2>1, NextRouting DEF RoutingOK
  <2>3. ASSUME NEW s \in Sessions
        PROVE  RequestOK(s)'
    <3>1. CASE ~req[s].on
      <4>1. ~req'[s].on
        BY <1>1, <1>6, <3>1, SyncEffect DEF RoutingOK
      <4> QED
        BY <1>1, <4>1, NextRouting
    <3>2. CASE req[s].on
      <4> DEFINE r == req[s]
                 gone == ~r.detached /\ nodes'[r.to] = {}
      <4>1. /\ r \in Requests!Request
            /\ req'[s] = [r EXCEPT !.detached = r.detached \/ gone,
                                   !.nodes = IF gone THEN nodes[r.to] ELSE r.nodes,
                                   !.stays = r.stays /\ Requests!Remains(r.to, r.peer)]
        BY <1>1, <1>6, <3>2, RequestTypes, SyncEffect DEF RoutingOK
      <4>2. /\ req'[s].peer = r.peer /\ req'[s].setCookie = r.setCookie
            /\ req'[s].fails = r.fails /\ req'[s].to = r.to /\ req'[s].tried = r.tried
            /\ req'[s].detached = (r.detached \/ gone)
            /\ req'[s].nodes = IF gone THEN nodes[r.to] ELSE r.nodes
        BY <4>1 DEF Requests!Request
      <4>3. RequestOK(s)
        BY DEF RoutingOK
      <4>4. (IF req'[s].detached THEN req'[s].nodes ELSE nodes'[req'[s].to]) # {}
        BY <3>2, <4>1, <4>2, <4>3 DEF RequestOK, Requests!NodesOf, Requests!Request
      <4> HIDE DEF gone
      <4> QED
        BY <1>1, <3>2, <4>2, <4>3, <4>4, NextRouting DEF RequestOK
    <3> QED
      BY <3>1, <3>2
  <2> QED
    BY <2>1, <2>2, <2>3 DEF RoutingOK
<1>7. CASE UNCHANGED <<Requests!vars, setup>>
  <2>1. Requests!TypeOK' /\ Sent'
    BY <1>7, SetupStays DEF Requests!vars, RoutingOK, Requests!TypeOK, Sent
  <2>2. ASSUME NEW s \in Sessions
        PROVE  CookieOK(cookie[s])' /\ RequestOK(s)'
    <3>1. CookieOK(cookie[s]) /\ RequestOK(s) /\ req' = req /\ cookie' = cookie /\ nodes' = nodes
      BY <1>7 DEF RoutingOK, Requests!vars
    <3> QED
      BY <1>1, <3>1, NextRouting DEF RequestOK, Requests!NodesOf
  <2> QED
    BY <2>1, <2>2 DEF RoutingOK
<1> QED
  BY <1>2, <1>3, <1>4, <1>5, <1>6, <1>7 DEF Requests!Next, Requests!Step

\* With a steady balanced setup the canary is always there.
LEMMA AlwaysThere ==
  ASSUME OfRequests, RoutingOK, Requests!Steady
  PROVE  /\ Requests!Mode = "balanced" => alt /\ \A b \in Requests!Backends : nodes[b] # {}
         /\ ~Requests!ChangeOnFailure => Requests!Mode = "balanced"
<1>1. PICK c \in Requests!Configs : nodes = [b \in Requests!Backends |-> c[b]] /\ alt = c.alt
  BY DEF RoutingOK, Sent
<1>2. Requests!Mode = "balanced" => c.alt /\ c.main # {} /\ c.canary # {}
  BY DEF Requests!Steady
<1> QED
  BY <1>1, <1>2, RequestSetup DEF Requests!Steady, Requests!Backends

\* While nothing that could move the session is added, a cookie leads where it led.
LEMMA LeadsStill ==
  ASSUME OfRequests, Requests!TypeOK, NEW n \in [Requests!Backends -> SUBSET Peers], NEW a,
         NEW b \in Requests!Backends, NEW e \in Peers, NEW k \in Requests!Cookies,
         Leads(k, b, e, nodes, alt),
         e \in n[b], b = "canary" => a, Requests!Mode = "balanced" => n[b] \subseteq nodes[b]
  PROVE  Leads(k, b, e, n, a)
<1>1. k # None /\ k.key \in Requests!CookieKeys /\ nodes[b] \in SUBSET Peers
  BY DEF Leads, Requests!Cookies, Requests!TypeOK
<1>2. CASE Requests!Mode = "balanced"
  BY <1>1, <1>2, FindFinds DEF Leads
<1>3. CASE Requests!Mode = "persistent"
  BY <1>3, RequestSetup DEF Leads, Requests!Find
<1> QED
  BY <1>2, <1>3, RequestSetup

LEMMA SessionRewrite ==
  ASSUME OfRequests, RoutingOK, Requests!Steady, NEW s \in Sessions, SessionOK(s),
         Requests!Rewrite(s)
  PROVE  Session(req'[s], cookie[s], answered[s], nodes, alt)
<1>1. /\ req'[s].on /\ ~req'[s].detached /\ req'[s].stays /\ req'[s].peer = None
      /\ req'[s].setCookie = None
      /\ nodes[req'[s].to] # {} /\ (req'[s].to = "canary" => alt)
      /\ cookie[s] # None =>
           LET b == cookie[s].backend
           IN  Requests!Sticky(b) /\ nodes[b] # {} /\ (b = "canary" => alt) => req'[s].to = b
  BY RewriteEffect DEF RoutingOK, Requests!TypeOK
<1>2. cookie[s] # None => cookie[s].backend \in Requests!Backends /\ CookieOK(cookie[s])
  BY DEF RoutingOK, Requests!TypeOK, Requests!Cookies
<1>3. Requests!Mode = "balanced" /\ cookie[s] # None => req'[s].to = cookie[s].backend
  BY <1>1, <1>2, AlwaysThere DEF CookieOK
<1>4. answered[s] # None => Leads(cookie[s], answered[s][1], answered[s][2], nodes, alt)
  BY DEF SessionOK, Session
<1>5. answered[s] # None => req'[s].to = answered[s][1]
  BY <1>1, <1>4 DEF Leads
<1> QED
  BY <1>1, <1>3, <1>4, <1>5 DEF Session, Staying, Returning

LEMMA SessionFail ==
  ASSUME OfRequests, RoutingOK, NEW s \in Sessions, SessionOK(s), Requests!Fail(s)
  PROVE  Session(req'[s], cookie[s], answered[s], nodes, alt)
<1>1. PICK n \in 1 .. Requests!MaxTries :
           req' = [req EXCEPT ![s] = [req[s] EXCEPT !.tried = req[s].tried \cup {req[s].peer},
                                                    !.fails = n, !.peer = None]]
  BY FailEffect
<1>2. req[s].on /\ req[s] \in Requests!Request
  BY FailEffect, RequestTypes DEF RoutingOK
<1>3. /\ req'[s].on /\ req'[s].peer = None /\ req'[s].fails = n
      /\ req'[s].to = req[s].to /\ req'[s].detached = req[s].detached
      /\ req'[s].setCookie = req[s].setCookie /\ req'[s].stays = req[s].stays
  BY <1>1, <1>2 DEF RoutingOK, Requests!TypeOK, Requests!Request
<1>4. n # 0
  BY RequestSetup
<1> QED
  BY <1>2, <1>3, <1>4 DEF SessionOK, Session, Staying, Returning

LEMMA SessionAnswered ==
  ASSUME OfRequests, RoutingOK, NEW s \in Sessions, SessionOK(s),
         Requests!GiveUp(s) \/ Requests!Served(s)
  PROVE  Session(req'[s], cookie'[s], answered'[s], nodes, alt)
<1>1. req[s].on /\ ~req'[s].on /\ cookie'[s] = NextCookie(s)
  BY DEF Requests!GiveUp, Requests!Served, Requests!KeepCookie, NextCookie, RoutingOK,
     Requests!TypeOK, Requests!NoRequest
<1>2. answered'[s] # None => Leads(NextCookie(s), answered'[s][1], answered'[s][2], nodes, alt)
  <2>1. CASE Requests!GiveUp(s)
    <3>1. answered'[s] # None => answered'[s] = answered[s] /\ ~Requests!ChangeOnFailure
      BY <2>1 DEF Requests!GiveUp, RoutingOK, Requests!TypeOK
    <3> QED
      BY <1>1, <3>1 DEF SessionOK, Session, Returning, NextCookie
  <2>2. CASE Requests!Served(s)
    <3>1. answered'[s] # None => /\ answered'[s] = <<req[s].to, req[s].peer>>
                                 /\ Requests!Sticky(req[s].to) /\ req[s].stays
                                 /\ req[s].peer # None
      BY <2>2 DEF Requests!Served, RoutingOK, Requests!TypeOK
    <3> QED
      BY <1>1, <3>1 DEF SessionOK, Session, Staying, NextCookie
  <2> QED
    BY <2>1, <2>2
<1> QED
  BY <1>1, <1>2 DEF Session, Staying, Returning

\* A try: the cookie leads to its peer, and a session that was answered goes back.
LEMMA SessionBalance ==
  ASSUME OfRequests, RoutingOK, Requests!Steady, NEW s \in Sessions, SessionOK(s),
         Requests!Balance(s)
  PROVE  Session(req'[s], cookie[s], answered[s], nodes, alt)
<1> DEFINE r == req[s]  own == cookie[s]  l == answered[s]
           found == Requests!Find(r.to, Requests!NodesOf(r), own.key)
<1>0. Requests!TypeOK /\ r.on /\ r.peer = None
  BY BalanceEffect DEF RoutingOK
<1>1. PICK e \in Requests!NodesOf(r), k \in Requests!Cookies :
        /\ req' = [req EXCEPT ![s] = [r EXCEPT !.peer = e, !.setCookie = k]]
        /\ \/ ~Requests!Sticky(r.to) /\ k = r.setCookie
           \/ /\ Requests!Sticky(r.to) /\ ~Requests!PickNew(s)
              /\ e = Requests!FromCookie(s) /\ k = r.setCookie
           \/ /\ Requests!Sticky(r.to) /\ Requests!PickNew(s)
              /\ e \notin r.tried
              /\ \E key \in Requests!CookieKeys :
                   /\ k = [key |-> key, backend |-> r.to]
                   /\ e = Requests!Find(r.to, Requests!NodesOf(r), key)
  BY BalanceEffect DEF RoutingOK
<1>2. /\ r \in Requests!Request /\ e # None /\ r.fails \in Nat /\ r.to \in Requests!Backends
      /\ RequestOK(s) /\ CookieOK(own)
      /\ Requests!Mode \in {"persistent", "balanced"} /\ Requests!ChangeOnFailure \in BOOLEAN
  <2>1. r \in Requests!Request /\ e \in Peers
    BY <1>0, <1>1, RequestTypes
  <2>2. r.fails \in 0 .. Requests!MaxTries /\ r.to \in Requests!Backends
    BY <2>1 DEF Requests!Request
  <2>3. RequestOK(s) /\ CookieOK(own)
    BY DEF RoutingOK
  <2> QED
    BY <2>1, <2>2, <2>3, RequestSetup
<1>3. /\ req'[s].on /\ req'[s].peer = e /\ req'[s].setCookie = k
      /\ req'[s].to = r.to /\ req'[s].detached = r.detached /\ req'[s].nodes = r.nodes
      /\ req'[s].stays = r.stays /\ req'[s].fails = r.fails
  BY <1>0, <1>1, <1>2 DEF Requests!TypeOK, Requests!Request
<1>4. /\ Requests!FromCookie(s) = IF own = None THEN None ELSE found
      /\ ~Requests!ChangeOnFailure => Requests!Mode = "balanced"
      /\ r.fails = 0 => r.setCookie = None
  BY <1>0, <1>2, AlwaysThere DEF Requests!FromCookie, RequestOK
<1>5. /\ Requests!Mode = "balanced" /\ own # None => r.to = own.backend
      /\ l # None => Leads(own, l[1], l[2], nodes, alt)
      /\ Staying(r, own, nodes, alt) /\ Returning(r, l)
  BY <1>0 DEF SessionOK, Session
<1>6. Staying(req'[s], own, nodes, alt)
  <2> SUFFICES ASSUME r.stays
               PROVE  Staying(req'[s], own, nodes, alt)
    BY <1>3 DEF Staying
  <2>1. /\ ~r.detached /\ nodes[r.to] # {} /\ (r.to = "canary" => alt)
        /\ Requests!Mode = "balanced" /\ ~Requests!ChangeOnFailure /\ r.setCookie # None
             /\ own # None => Requests!Find(r.to, nodes[r.to], own.key) = None
        /\ Requests!NodesOf(r) = nodes[r.to]
    BY <1>0, <1>5 DEF Staying, Requests!NodesOf
  <2>2. CASE ~Requests!Sticky(r.to) /\ k = r.setCookie
    BY <1>3, <2>1, <2>2 DEF Staying
  <2>3. CASE /\ Requests!Sticky(r.to) /\ ~Requests!PickNew(s)
             /\ e = Requests!FromCookie(s) /\ k = r.setCookie
    <3>1. own # None /\ e = found
      BY <1>2, <1>4, <2>3
    <3>2. r.setCookie = None
      BY <1>2, <1>4, <2>1, <2>3, <3>1 DEF Requests!PickNew
    <3>3. own.backend = r.to
      <4>1. CASE Requests!Mode = "balanced"
        BY <1>5, <3>1, <4>1
      <4>2. CASE Requests!Mode = "persistent"
        <5>1. own.key[1] = r.to
          BY <1>2, <3>1, <4>2 DEF Requests!Find
        <5> QED
          BY <1>2, <3>1, <4>2, <5>1 DEF CookieOK
      <4> QED
        BY <1>2, <4>1, <4>2
    <3>4. Leads(own, r.to, e, nodes, alt)
      BY <2>1, <2>3, <3>1, <3>3 DEF Leads
    <3> QED
      BY <1>3, <2>1, <2>3, <3>2, <3>4 DEF Staying
  <2>4. CASE /\ Requests!Sticky(r.to) /\ Requests!PickNew(s)
             /\ \E key \in Requests!CookieKeys :
                  /\ k = [key |-> key, backend |-> r.to]
                  /\ e = Requests!Find(r.to, Requests!NodesOf(r), key)
    <3>1. PICK key \in Requests!CookieKeys :
            /\ k = [key |-> key, backend |-> r.to]
            /\ e = Requests!Find(r.to, Requests!NodesOf(r), key)
      BY <2>4
    <3>2. k # None
      BY <1>2, <3>1, RequestSetup
    <3>3. Leads(k, r.to, e, nodes, alt)
      BY <2>1, <2>4, <3>1, <3>2 DEF Leads
    <3>4. ~Requests!ChangeOnFailure /\ own # None => found = None
      BY <1>4, <2>4 DEF Requests!PickNew
    <3> QED
      BY <1>3, <2>1, <3>2, <3>3, <3>4 DEF Staying
  <2> QED
    BY <1>1, <2>2, <2>3, <2>4
<1>7. Returning(req'[s], l)
  <2> SUFFICES ASSUME l # None
               PROVE  Returning(req'[s], l)
    BY DEF Returning
  <2>1. /\ r.to = l[1] /\ ~r.detached /\ Leads(own, l[1], l[2], nodes, alt)
        /\ ~Requests!ChangeOnFailure => r.setCookie = None
    BY <1>0, <1>5 DEF Returning
  <2>2. Requests!NodesOf(r) = nodes[l[1]] /\ Requests!Sticky(r.to) /\ own # None /\ found = l[2]
    BY <2>1 DEF Requests!NodesOf, Leads
  <2>3. l[2] # None
    <3>1. nodes[l[1]] \subseteq Peers
      BY <1>0, <1>2, <2>1 DEF Requests!TypeOK
    <3> QED
      BY <2>1, <3>1, RequestSetup DEF Leads
  <2>4. Requests!FromCookie(s) = l[2]
    BY <1>4, <2>2
  <2>5. Requests!PickNew(s) => r.fails > 0 /\ Requests!ChangeOnFailure
    BY <2>3, <2>4 DEF Requests!PickNew
  <2>6. ~Requests!PickNew(s) => e = l[2] /\ k = r.setCookie
    BY <1>1, <2>2, <2>4
  <2> QED
    BY <1>2, <1>3, <2>1, <2>5, <2>6 DEF Returning
<1> QED
  BY <1>3, <1>5, <1>6, <1>7 DEF Session

\* A synchronisation: what stays, leads where it led.
LEMMA SessionSync ==
  ASSUME OfRequests, RoutingOK, Requests!Steady, UNCHANGED setup, NEW s \in Sessions, SessionOK(s),
         NEW c \in Requests!Configs, NEW p \in Requests!Policies, Requests!Sync(c, p)
  PROVE  Session(req'[s], cookie[s], answered'[s], nodes', alt')
<1> DEFINE r == req[s]  k == cookie[s]  l == answered[s]
           gone == ~r.detached /\ nodes'[r.to] = {}
<1>1. /\ Requests!TypeOK /\ k \in Requests!Cookies
      /\ nodes' \in [Requests!Backends -> SUBSET Peers]
  BY SyncEffect, SetupStays DEF RoutingOK, Requests!TypeOK
<1>2. /\ Requests!Mode = "balanced" /\ r.on /\ k # None => r.to = k.backend
      /\ l # None => Leads(k, l[1], l[2], nodes, alt)
      /\ Staying(r, k, nodes, alt) /\ Returning(r, l)
  BY DEF SessionOK, Session
<1>3. r.on => /\ r \in Requests!Request
              /\ req'[s] = [r EXCEPT !.detached = r.detached \/ gone,
                                     !.nodes = IF gone THEN nodes[r.to] ELSE r.nodes,
                                     !.stays = r.stays /\ Requests!Remains(r.to, r.peer)]
  BY <1>1, SyncEffect, RequestTypes
<1>4. r.on => /\ req'[s].on /\ req'[s].to = r.to /\ req'[s].peer = r.peer
              /\ req'[s].setCookie = r.setCookie /\ req'[s].fails = r.fails
              /\ req'[s].detached = (r.detached \/ gone)
              /\ req'[s].stays = (r.stays /\ Requests!Remains(r.to, r.peer))
              /\ r.to \in Requests!Backends /\ r.peer \in Peers \cup {None}
              /\ r.setCookie \in Requests!Cookies
  <2> SUFFICES ASSUME r.on
               PROVE  /\ req'[s].on /\ req'[s].to = r.to /\ req'[s].peer = r.peer
                      /\ req'[s].setCookie = r.setCookie /\ req'[s].fails = r.fails
                      /\ req'[s].detached = (r.detached \/ gone)
                      /\ req'[s].stays = (r.stays /\ Requests!Remains(r.to, r.peer))
                      /\ r.to \in Requests!Backends /\ r.peer \in Peers \cup {None}
                      /\ r.setCookie \in Requests!Cookies
    OBVIOUS
  <2>1. PICK d, st \in BOOLEAN : /\ d = (r.detached \/ gone)
                               /\ st = (r.stays /\ Requests!Remains(r.to, r.peer))
    OBVIOUS
  <2>2. PICK ns : req'[s] = [r EXCEPT !.detached = d, !.nodes = ns, !.stays = st]
    BY <1>3, <2>1
  <2>3. r \in Requests!Request
    BY <1>3
  <2> HIDE DEF r, gone
  <2>4. /\ req'[s].on /\ req'[s].to = r.to /\ req'[s].peer = r.peer
        /\ req'[s].setCookie = r.setCookie /\ req'[s].fails = r.fails
        /\ req'[s].detached = d /\ req'[s].stays = st
        /\ r.to \in Requests!Backends /\ r.peer \in Peers \cup {None}
        /\ r.setCookie \in Requests!Cookies
    BY <2>2, <2>3 DEF Requests!Request
  <2> QED
    BY <2>1, <2>4
<1>5. ~r.on => ~req'[s].on
  BY <1>1, SyncEffect
<1>6. answered'[s] # None => /\ answered'[s] = l /\ Requests!Remains(l[1], l[2])
                             /\ l[1] \in Requests!Backends /\ l[2] \in Peers
  <2>1. answered'[s] # None => answered'[s] = l /\ Requests!Remains(l[1], l[2])
    BY <1>1, SyncEffect
  <2>2. l # None => l \in Requests!Backends \X Peers
    BY <1>1 DEF Requests!TypeOK
  <2> QED
    BY <2>1, <2>2
<1>7. answered'[s] # None => Leads(k, l[1], l[2], nodes', alt')
  <2> SUFFICES ASSUME answered'[s] # None
               PROVE  Leads(k, l[1], l[2], nodes', alt')
    OBVIOUS
  <2>1. /\ l[2] \in nodes'[l[1]] /\ (l[1] = "canary" => alt')
        /\ Requests!Mode = "balanced" => nodes'[l[1]] \subseteq nodes[l[1]]
    BY <1>6, RequestSetup DEF Requests!Remains
  <2>2. Leads(k, l[1], l[2], nodes, alt)
    BY <1>2, <1>6
  <2> QED
    BY <1>1, <1>6, <2>1, <2>2, LeadsStill
<1>8. Staying(req'[s], k, nodes', alt')
  <2> SUFFICES ASSUME r.on, r.stays, Requests!Remains(r.to, r.peer)
               PROVE  Staying(req'[s], k, nodes', alt')
    BY <1>4, <1>5 DEF Staying
  <2> DEFINE next == IF r.setCookie = None THEN k ELSE r.setCookie
  <2>1. /\ ~r.detached
        /\ r.peer # None /\ Requests!Sticky(r.to) => Leads(next, r.to, r.peer, nodes, alt)
        /\ Requests!Mode = "balanced" /\ ~Requests!ChangeOnFailure /\ r.setCookie # None
             /\ k # None => Requests!Find(r.to, nodes[r.to], k.key) = None
    BY <1>2 DEF Staying
  <2>2. /\ nodes'[r.to] # {} /\ (r.to = "canary" => alt')
        /\ r.peer # None => r.peer \in nodes'[r.to]
        /\ Requests!Mode = "balanced" => nodes'[r.to] \subseteq nodes[r.to]
    BY DEF Requests!Remains
  <2>3. r.peer # None /\ Requests!Sticky(r.to) => Leads(next, r.to, r.peer, nodes', alt')
    BY <1>1, <1>4, <2>1, <2>2, LeadsStill
  <2>4. Requests!Mode = "balanced" /\ ~Requests!ChangeOnFailure /\ r.setCookie # None
          /\ k # None => Requests!Find(r.to, nodes'[r.to], k.key) = None
    <3>1. k # None => k.key \in Requests!CookieKeys
      BY <1>1 DEF Requests!Cookies
    <3>2. nodes[r.to] \in SUBSET Peers
      BY <1>1, <1>4 DEF Requests!TypeOK
    <3> QED
      BY <1>4, <2>1, <2>2, <3>1, <3>2, FindFinds
  <2> QED
    BY <1>4, <2>1, <2>2, <2>3, <2>4 DEF Staying
<1>9. Returning(req'[s], answered'[s])
  <2> SUFFICES ASSUME r.on, answered'[s] # None
               PROVE  Returning(req'[s], l)
    BY <1>5, <1>6 DEF Returning
  <2>1. nodes'[l[1]] # {} /\ l # None
    BY <1>6 DEF Requests!Remains
  <2> QED
    BY <1>2, <1>4, <2>1 DEF Returning
<1> QED
  BY <1>2, <1>4, <1>5, <1>6, <1>7, <1>8, <1>9 DEF Session

LEMMA SessionsStep ==
  ASSUME OfRequests, RoutingOK, SessionsOK, [Requests!Next]_<<Requests!vars, setup>>
  PROVE  SessionsOK'
<1>1. setup' = setup
  BY DEF Requests!Next
<1> SUFFICES ASSUME Requests!Steady, NEW t \in Sessions
             PROVE  Session(req'[t], cookie'[t], answered'[t], nodes', alt')
  BY <1>1, SetupStays, NextSession DEF SessionsOK
<1>2. \A s \in Sessions : SessionOK(s)
  BY DEF SessionsOK
<1>3. CASE UNCHANGED <<req[t], cookie[t], answered[t], nodes, alt>>
  BY <1>2, <1>3 DEF SessionOK
<1>4. ASSUME NEW s \in Sessions,
             Requests!Rewrite(s) \/ Requests!Balance(s) \/ Requests!Fail(s) \/ Requests!GiveUp(s)
               \/ Requests!Served(s)
      PROVE  Session(req'[t], cookie'[t], answered'[t], nodes', alt')
  <2>1. nodes' = nodes /\ alt' = alt
    BY <1>4 DEF Requests!Rewrite, Requests!Balance, Requests!Fail, Requests!GiveUp, Requests!Served
  <2>2. CASE t = s
    <3>1. CASE Requests!Rewrite(s) \/ Requests!Balance(s) \/ Requests!Fail(s)
      <4>1. cookie' = cookie /\ answered' = answered
        BY <3>1 DEF Requests!Rewrite, Requests!Balance, Requests!Fail
      <4> QED
        BY <1>2, <2>1, <2>2, <3>1, <4>1, SessionRewrite, SessionBalance, SessionFail
    <3>2. CASE Requests!GiveUp(s) \/ Requests!Served(s)
      BY <1>2, <2>1, <2>2, <3>2, SessionAnswered
    <3> QED
      BY <1>4, <3>1, <3>2
  <2>3. CASE t # s
    <3>1. req'[t] = req[t] /\ cookie'[t] = cookie[t] /\ answered'[t] = answered[t]
      <4>1. CASE Requests!Rewrite(s)
        BY <2>3, <4>1, RewriteEffect DEF RoutingOK, Requests!TypeOK
      <4>2. CASE Requests!Balance(s)
        BY <2>3, <4>2, BalanceEffect DEF RoutingOK
      <4>3. CASE Requests!Fail(s)
        BY <2>3, <4>3, FailEffect DEF RoutingOK, Requests!TypeOK
      <4>4. CASE Requests!GiveUp(s) \/ Requests!Served(s)
        BY <2>3, <4>4 DEF Requests!GiveUp, Requests!Served, Requests!KeepCookie, RoutingOK,
           Requests!TypeOK
      <4> QED
        BY <1>4, <4>1, <4>2, <4>3, <4>4
    <3> QED
      BY <1>2, <2>1, <3>1 DEF SessionOK
  <2> QED
    BY <2>2, <2>3
<1>5. ASSUME NEW c \in Requests!Configs, NEW p \in Requests!Policies, Requests!Sync(c, p)
      PROVE  Session(req'[t], cookie'[t], answered'[t], nodes', alt')
  <2>1. cookie' = cookie
    BY <1>5 DEF Requests!Sync
  <2> QED
    BY <1>1, <1>2, <1>5, <2>1, SessionSync
<1>6. CASE UNCHANGED Requests!vars
  BY <1>3, <1>6 DEF Requests!vars
<1> QED
  BY <1>4, <1>5, <1>6 DEF Requests!Next, Requests!Step

-----------------------------------------------------------------------------
(* Canary rules *)

\* The code looks at the rules in the documented order, with patterns that PCRE takes.
LEMMA ShapedIsDocumented ==
  ASSUME NEW p, p.pattern # "error", p.weight \in Int, NEW h, NEW c,
         NEW go \in Requests!Shaped(p, h, c)
  PROVE  go \in Requests!Documented(p, h, c)
<1> DEFINE word == IF p.value # None THEN p.value ELSE p.pattern
           header == IF ~p.header \/ h = None THEN "next"
                     ELSE IF word # None THEN IF h = word THEN "yes" ELSE "next"
                     ELSE CASE h = "always" -> "yes" [] h = "never" -> "no" [] OTHER -> "next"
           own == Requests!CookieRule(p, c)
           rules == <<header, own>>
           first == {i \in 1 .. 2 : rules[i] # "next"}
<1>1. header = Requests!HeaderRule(p, h)
  <2>1. CASE ~p.header \/ h = None
    BY <2>1 DEF Requests!HeaderRule
  <2>2. CASE p.header /\ h # None /\ p.value # None
    BY <2>2 DEF Requests!HeaderRule
  <2>3. CASE p.header /\ h # None /\ p.value = None /\ p.pattern # None
    BY <2>3 DEF Requests!HeaderRule
  <2>4. CASE p.header /\ h # None /\ p.value = None /\ p.pattern = None
    BY <2>4 DEF Requests!HeaderRule
  <2> QED
    BY <2>1, <2>2, <2>3, <2>4
<1>2. Requests!Documented(p, h, c) =
        IF first # {} THEN {rules[Requests!Min(first)] = "yes"}
        ELSE {b \in BOOLEAN : IF b THEN p.weight > 0
                              ELSE p.weight < (IF p.total > 100 THEN p.total ELSE 100)}
  BY DEF Requests!Documented
<1>3. rules[1] = header /\ rules[2] = own
  OBVIOUS
<1> HIDE DEF header, rules, own
<1>4. CASE header # "next"
  <2>1. 1 \in first /\ first \subseteq Nat
    BY <1>3, <1>4
  <2>2. Requests!Min(first) = 1
    BY <2>1, MinIsLeast
  <2> QED
    BY <1>1, <1>2, <1>3, <1>4, <2>1, <2>2 DEF Requests!Shaped
<1>5. CASE header = "next" /\ own # "next"
  <2>1. 2 \in first /\ first \subseteq Nat /\ 1 \notin first
    BY <1>3, <1>5
  <2>2. Requests!Min(first) = 2
    BY <2>1, MinIsLeast
  <2> QED
    BY <1>1, <1>2, <1>3, <1>5, <2>1, <2>2 DEF Requests!Shaped, own
<1>6. CASE header = "next" /\ own = "next"
  <2>1. first = {}
    BY <1>3, <1>6
  <2> QED
    BY <1>1, <1>2, <1>6, <2>1 DEF Requests!Shaped, Requests!WeightRule, own
<1> QED
  BY <1>4, <1>5, <1>6

\* A request that is routed by now has just come, and the rules decided if nothing else did.
LEMMA RoutedStep ==
  ASSUME OfRequests, RoutingOK, Requests!RulesApply, [Requests!Next]_<<Requests!vars, setup>>
  PROVE  Requests!RoutedByRules
<1> SUFFICES ASSUME NEW s \in Sessions, ~req[s].on, req'[s].on, ~req'[s].affine
             PROVE  Requests!RulesObeyed(req'[s])
  BY DEF Requests!RoutedByRules, Requests!Routed
<1>1. Requests!Rewrite(s)
  <2>1. ASSUME NEW t \in Sessions, Requests!Rewrite(t)
        PROVE  t = s
    BY <2>1, RewriteEffect DEF RoutingOK, Requests!TypeOK
  <2>2. ASSUME NEW t \in Sessions,
               Requests!Balance(t) \/ Requests!Fail(t) \/ Requests!GiveUp(t) \/ Requests!Served(t)
        PROVE  FALSE
    <3>1. req[t].on
      BY <2>2 DEF Requests!Balance, Requests!Fail, Requests!GiveUp, Requests!Served
    <3>2. \A u \in Sessions \ {t} : req'[u] = req[u]
      <4>1. CASE Requests!Balance(t)
        BY <4>1, BalanceEffect DEF RoutingOK
      <4>2. CASE Requests!Fail(t)
        BY <4>2, FailEffect DEF RoutingOK, Requests!TypeOK
      <4>3. CASE Requests!GiveUp(t) \/ Requests!Served(t)
        BY <4>3 DEF Requests!GiveUp, Requests!Served, RoutingOK, Requests!TypeOK
      <4> QED
        BY <2>2, <4>1, <4>2, <4>3
    <3> QED
      BY <3>1, <3>2
  <2>3. ASSUME NEW c \in Requests!Configs, NEW p \in Requests!Policies, Requests!Sync(c, p)
        PROVE  FALSE
    BY <2>3, SyncEffect DEF RoutingOK, Requests!Next
  <2>4. ~UNCHANGED <<Requests!vars, setup>>
    BY DEF Requests!vars
  <2> QED
    BY <2>1, <2>2, <2>3, <2>4 DEF Requests!Next, Requests!Step
<1>2. PICK h \in Requests!Header, c \in Requests!Header :
        \E go \in Requests!route_to_alternative_balancer(cookie[s], h, c) :
          /\ req'[s].header = h /\ req'[s].canaryCookie = c
          /\ req'[s].to = IF go THEN "canary" ELSE "main"
          /\ req'[s].affine = \E b \in Requests!Backends : Requests!IsAffinitized(b, cookie[s])
  BY <1>1 DEF Requests!Rewrite, RoutingOK, Requests!TypeOK
<1>3. PICK go \in Requests!route_to_alternative_balancer(cookie[s], h, c) :
          /\ req'[s].header = h /\ req'[s].canaryCookie = c
          /\ req'[s].to = IF go THEN "canary" ELSE "main"
          /\ req'[s].affine = \E b \in Requests!Backends : Requests!IsAffinitized(b, cookie[s])
  BY <1>2
<1>4. alt /\ nodes["canary"] # {}
  BY DEF RoutingOK, Sent, Requests!RulesApply, Requests!Backends
<1>5. go \in Requests!Shaped(policy, h, c)
  BY <1>3, <1>4 DEF Requests!route_to_alternative_balancer, Requests!Backends
<1>6. policy.pattern # "error" /\ policy.weight \in Int
  BY ModelAssumption DEF RoutingOK, Requests!TypeOK, Requests!RulesApply, Requests!Policies,
     Requests!RoutingAssumption
<1>7. go \in Requests!Documented(policy, h, c)
  BY <1>5, <1>6, ShapedIsDocumented
<1>8. go \in BOOLEAN
  BY <1>5 DEF Requests!Shaped, Requests!WeightRule
<1>9. (req'[s].to = "canary") = go
  BY <1>3, <1>8
<1> QED
  BY <1>3, <1>7, <1>9 DEF Requests!RulesObeyed

-----------------------------------------------------------------------------
(* Endpoints *)

\* The first entry that passes a test passes it.
LEMMA EntryFound ==
  ASSUME NEW s, DOMAIN s \subseteq Nat, NEW T, T \subseteq DOMAIN s, T # {}
  PROVE  Calls!Min(T) \in T
  BY LeastNat DEF Calls!Min

\* What a call for the endpoints of a service returns.
LEMMA ServiceStep ==
  ASSUME OfCalls, svc \in ServiceSetups[setup], svc # None, svc.type # "ExternalName",
         NEW e \in Calls!serviceEndpoints(ref)
  PROVE  Calls!EndpointOf(e, svc, ref, eps)
<1> DEFINE hits == {i \in DOMAIN svc.ports :
                      ref \in {svc.ports[i].port, svc.ports[i].target, svc.ports[i].name}}
           p == IF hits = {} THEN None ELSE svc.ports[Calls!Min(hits)]
<1>1. DOMAIN svc.ports \subseteq Nat
  BY ModelAssumption DEF OfCalls, Calls!EndpointsAssumption
<1>2. Calls!serviceEndpoints(ref) = IF p = None THEN {} ELSE Calls!getEndpoints(svc, p, "TCP")
  BY DEF Calls!serviceEndpoints, Calls!First
<1>3. p # None /\ e \in Calls!getEndpoints(svc, p, "TCP")
  BY <1>2
<1>4. p \in Calls!ToSet(svc.ports) /\ ref \in {p.port, p.target, p.name}
  <2>1. hits # {} /\ hits \subseteq DOMAIN svc.ports
    BY <1>3
  <2>2. Calls!Min(hits) \in hits
    BY <1>1, <2>1, EntryFound
  <2> QED
    BY <2>1, <2>2 DEF Calls!ToSet
<1> HIDE DEF p
<1>5. PICK k \in DOMAIN eps : e \in Calls!SubsetEndpoints(eps[k], p, "TCP")
  BY <1>3 DEF Calls!getEndpoints
<1>6. PICK a \in eps[k].addrs, i \in DOMAIN eps[k].ports :
        /\ e = <<a, Calls!targetPort(eps[k], i, p, "TCP")>>
        /\ Calls!targetPort(eps[k], i, p, "TCP") # "0"
  BY <1>5 DEF Calls!SubsetEndpoints
<1>7. e[1] = a /\ e[2] = Calls!targetPort(eps[k], i, p, "TCP")
  BY <1>6
<1>8. \/ e[2] = p.target
      \/ e[2] = eps[k].ports[i].port /\ Calls!PortMatches(p, eps[k].ports[i])
  BY <1>6, <1>7 DEF Calls!targetPort, Calls!IntValue
<1> QED
  BY <1>4, <1>6, <1>7, <1>8 DEF Calls!EndpointOf, Calls!ToSet

EndpointsInv == OfCalls => svc \in ServiceSetups[setup] \cup {None} /\ EndpointsUsable

LEMMA EndpointsStep ==
  ASSUME OfCalls, EndpointsInv, [Calls!Next]_<<Calls!vars, setup>>
  PROVE  EndpointsInv'
<1>1. UNCHANGED <<setup, svc, eps, ref, proto, entries>>
  BY DEF Calls!Next, Calls!Step, Calls!vars, Calls!CallServiceEndpoints, Calls!CallClusterEndpoint,
     Calls!CallDefaultUpstream, Calls!CallStreamServices, Calls!Returns
<1>2. svc' \in ServiceSetups[setup'] \cup {None}
  BY <1>1 DEF EndpointsInv
<1>3. CASE UNCHANGED <<call, out>>
  <2>1. Calls!EndpointsOfTheService'
    BY <1>1, <1>3 DEF EndpointsInv, EndpointsUsable, Calls!EndpointsOfTheService
  <2>2. Calls!DefaultNeverEmpty' /\ Calls!StreamsUsable'
    BY <1>1, <1>3 DEF EndpointsInv, EndpointsUsable, Calls!DefaultNeverEmpty, Calls!StreamsUsable
  <2> QED
    BY <1>2, <2>1, <2>2 DEF EndpointsInv, EndpointsUsable
<1>4. CASE call' = "service" /\ out' = Calls!serviceEndpoints(ref)
  <2>1. Calls!EndpointsOfTheService'
    BY <1>1, <1>2, <1>4, ServiceStep DEF Calls!EndpointsOfTheService
  <2>2. Calls!DefaultNeverEmpty' /\ Calls!StreamsUsable'
    BY <1>4 DEF Calls!DefaultNeverEmpty, Calls!StreamsUsable
  <2> QED
    BY <1>2, <2>1, <2>2 DEF EndpointsInv, EndpointsUsable
<1>5. CASE call' = "cluster"
  BY <1>2, <1>5 DEF EndpointsInv, EndpointsUsable, OfCalls, Calls!EndpointsOfTheService,
     Calls!DefaultNeverEmpty, Calls!StreamsUsable
<1>6. CASE call' = "default" /\ out' = Calls!getDefaultUpstream
  <2>1. out' # {}
    BY <1>6, ModelAssumption DEF Calls!getDefaultUpstream, Calls!DefaultEndpoint,
       Calls!EndpointsAssumption
  <2> QED
    BY <1>2, <1>6, <2>1 DEF EndpointsInv, EndpointsUsable, OfCalls, Calls!EndpointsOfTheService,
       Calls!DefaultNeverEmpty, Calls!StreamsUsable
<1>7. CASE call' = "stream" /\ out' = Calls!getStreamServices
  <2>1. ASSUME NEW s \in out'
        PROVE  /\ s.eps # {} /\ s.port \notin ReservedPorts
               /\ proto = "UDP" => ~s.proxy.decode /\ ~s.proxy.encode
    <3>1. PICK x \in entries :
            /\ Calls!ValidEntry(x)
            /\ s = [port |-> x.port, eps |-> Calls!StreamEndpoints(x),
                    proxy |-> Calls!ProxyProtocol(x)]
      BY <1>7, <2>1 DEF Calls!getStreamServices
    <3>2. /\ s.eps = Calls!StreamEndpoints(x) /\ s.port = x.port
          /\ proto = "UDP" => ~s.proxy.decode /\ ~s.proxy.encode
      BY <3>1 DEF Calls!ProxyProtocol
    <3> QED
      BY <3>1, <3>2 DEF Calls!ValidEntry
  <2> QED
    BY <1>1, <1>2, <1>7, <2>1 DEF EndpointsInv, EndpointsUsable, OfCalls, Calls!EndpointsOfTheService,
       Calls!DefaultNeverEmpty, Calls!StreamsUsable
<1> QED
  BY <1>3, <1>4, <1>5, <1>6, <1>7 DEF Calls!Next, Calls!Step, Calls!vars,
     Calls!CallServiceEndpoints, Calls!CallClusterEndpoint,
     Calls!CallDefaultUpstream, Calls!CallStreamServices, Calls!Returns

-----------------------------------------------------------------------------
(* Comparing lists *)

\* What holds of zero and of every next number holds up to n.
LEMMA UpTo ==
  ASSUME NEW n \in Nat, NEW T, 0 \in T, \A i \in 0 .. n - 1 : i \in T => i + 1 \in T
  PROVE  0 .. n \subseteq T
<1> DEFINE Out == (0 .. n) \ T
<1> SUFFICES ASSUME Out # {}
             PROVE  FALSE
  OBVIOUS
<1>1. PICK m \in Out : \A k \in Out : m <= k
  <2>1. Out \subseteq Nat
    OBVIOUS
  <2> HIDE DEF Out
  <2> QED
    BY <2>1, LeastNat
<1>2. m # 0 /\ m - 1 \in 0 .. n - 1 /\ m - 1 \notin Out
  BY <1>1
<1> QED
  BY <1>1, <1>2

\* The elements that are taken, step by step.
LEMMA VisitedSteps ==
  ASSUME NEW a, NEW b, Len(a) \in Nat
  PROVE  /\ Config!Visited(a, b)[0] = {}
         /\ \A i \in 1 .. Len(a) :
              Config!Visited(a, b)[i] = Config!Take(a, b, i, Config!Visited(a, b)[i - 1])
<1> DEFINE Is(g, k) == g = [i \in 0 .. k |-> IF i = 0 THEN {} ELSE Config!Take(a, b, i, g[i - 1])]
           T == {k \in Nat : \E g : Is(g, k)}
<1>1. 0 \in T
  <2>1. Is([i \in 0 .. 0 |-> {}], 0)
    OBVIOUS
  <2> QED
    BY <2>1
<1>2. ASSUME NEW k \in Nat, k \in T
      PROVE  k + 1 \in T
  <2>1. PICK g : Is(g, k)
    BY <1>2
  <2> DEFINE h == [i \in 0 .. k + 1 |-> IF i = k + 1 THEN Config!Take(a, b, k + 1, g[k]) ELSE g[i]]
  <2>2. ASSUME NEW i \in 0 .. k + 1
        PROVE  h[i] = IF i = 0 THEN {} ELSE Config!Take(a, b, i, h[i - 1])
    <3>1. CASE i = 0
      BY <2>1, <3>1
    <3>2. CASE i = k + 1
      <4>1. h[i - 1] = g[k] /\ h[i] = Config!Take(a, b, i, g[k]) /\ i # 0
        BY <3>2
      <4> QED
        BY <4>1
    <3>3. CASE i # 0 /\ i # k + 1
      <4>1. i \in 0 .. k /\ i - 1 \in 0 .. k
        BY <3>3
      <4>2. h[i - 1] = g[i - 1] /\ h[i] = g[i]
        BY <3>3, <4>1
      <4>3. g[i] = Config!Take(a, b, i, g[i - 1])
        BY <2>1, <3>3, <4>1
      <4> QED
        BY <3>3, <4>2, <4>3
    <3> QED
      BY <3>1, <3>2, <3>3
  <2>3. h = [i \in 0 .. k + 1 |-> h[i]]
    OBVIOUS
  <2> HIDE DEF h
  <2>4. Is(h, k + 1)
    BY <2>2, <2>3
  <2> QED
    BY <2>4
<1>3. Len(a) \in T
  <2>1. \A i \in 0 .. Len(a) - 1 : i \in T => i + 1 \in T
    BY <1>2
  <2> HIDE DEF T
  <2>2. 0 .. Len(a) \subseteq T
    BY <1>1, <2>1, UpTo
  <2> QED
    BY <2>2
<1>4. Is(Config!Visited(a, b), Len(a))
  BY <1>3 DEF Config!Visited
<1> HIDE DEF T
<1>5. Config!Visited(a, b)[0] = {}
  BY <1>4
<1>6. ASSUME NEW i \in 1 .. Len(a)
      PROVE  Config!Visited(a, b)[i] = Config!Take(a, b, i, Config!Visited(a, b)[i - 1])
  <2>1. i \in 0 .. Len(a) /\ i # 0
    OBVIOUS
  <2> QED
    BY <1>4, <2>1
<1> QED
  BY <1>5, <1>6

\* The places of the value e among the places S of the list l
Places(l, S, e) == {k \in S : l[k] = e}

\* A list, as a function on its places
IsList(l) == Len(l) \in Nat /\ DOMAIN l = 1 .. Len(l)

LEMMA FirstNumbers ==
  ASSUME NEW n \in Nat
  PROVE  IsFiniteSet(1 .. n) /\ Cardinality(1 .. n) = n
BY FS_Interval

\* A value that is at one more place is at one place more.
LEMMA OnePlaceMore ==
  ASSUME NEW l, NEW S, IsFiniteSet(S), NEW j, j \notin S, NEW e
  PROVE  /\ IsFiniteSet(Places(l, S, e)) /\ Cardinality(Places(l, S, e)) \in Nat
         /\ Cardinality(Places(l, S \cup {j}, e)) =
              Cardinality(Places(l, S, e)) + (IF l[j] = e THEN 1 ELSE 0)
<1>1. IsFiniteSet(Places(l, S, e)) /\ Cardinality(Places(l, S, e)) \in Nat
  BY FS_Subset, FS_CardinalityType DEF Places
<1>2. CASE l[j] = e
  <2>1. Places(l, S \cup {j}, e) = Places(l, S, e) \cup {j} /\ j \notin Places(l, S, e)
    BY <1>2 DEF Places
  <2> QED
    BY <1>1, <1>2, <2>1, FS_AddElement
<1>3. CASE l[j] # e
  <2>1. Places(l, S \cup {j}, e) = Places(l, S, e)
    BY <1>3 DEF Places
  <2> QED
    BY <1>1, <1>3, <2>1
<1> QED
  BY <1>1, <1>2, <1>3

\* The first i elements of a have taken at most i elements of b; if they have taken i,
\* then every value as often as it is among them.
LEMMA TakenSoFar ==
  ASSUME NEW a, NEW b, IsList(a), IsList(b), NEW i \in 0 .. Len(a)
  PROVE  LET v == Config!Visited(a, b)[i]
         IN  /\ v \subseteq DOMAIN b /\ IsFiniteSet(v) /\ Cardinality(v) \in 0 .. i
             /\ Cardinality(v) = i =>
                  \A e : Cardinality(Places(b, v, e)) = Cardinality(Places(a, 1 .. i, e))
<1> DEFINE V(k) == Config!Visited(a, b)[k]
           Fair(k) == /\ V(k) \subseteq DOMAIN b /\ IsFiniteSet(V(k)) /\ Cardinality(V(k)) \in 0 .. k
                      /\ Cardinality(V(k)) = k =>
                           \A e : Cardinality(Places(b, V(k), e)) = Cardinality(Places(a, 1 .. k, e))
           T == {k \in 0 .. Len(a) : Fair(k)}
<1>0. Len(a) \in Nat /\ DOMAIN b \subseteq Nat
  BY DEF IsList
<1>1. 0 \in T
  <2>1. V(0) = {} /\ 1 .. 0 = {}
    BY <1>0, VisitedSteps
  <2>2. \A e : Places(b, V(0), e) = {} /\ Places(a, 1 .. 0, e) = {}
    BY <2>1 DEF Places
  <2> HIDE DEF V
  <2>3. Cardinality(V(0)) = 0 /\ IsFiniteSet(V(0))
    BY <2>1, FS_EmptySet
  <2>4. \A e : Cardinality(Places(b, V(0), e)) = Cardinality(Places(a, 1 .. 0, e))
    BY <2>2
  <2>5. V(0) \subseteq DOMAIN b /\ Cardinality(V(0)) \in 0 .. 0
    BY <2>1, <2>3
  <2>6. Fair(0)
    BY <2>3, <2>4, <2>5
  <2> QED
    BY <1>0, <2>6
<1>2. ASSUME NEW k \in 0 .. Len(a) - 1, k \in T
      PROVE  k + 1 \in T
  <2> DEFINE free == Config!Free(a, b, k + 1, V(k))
             j == Config!Min(free)
  <2>1. V(k + 1) = IF free = {} THEN V(k) ELSE V(k) \cup {j}
    <3>1. k + 1 \in 1 .. Len(a) /\ (k + 1) - 1 = k
      BY <1>0
    <3>2. V(k + 1) = Config!Take(a, b, k + 1, V((k + 1) - 1))
      BY <1>0, <3>1, VisitedSteps
    <3>3. V(k + 1) = Config!Take(a, b, k + 1, V(k))
      BY <3>1, <3>2
    <3> QED
      BY <3>3 DEF Config!Take
  <2>2. Fair(k) /\ k \in Nat /\ k + 1 \in 0 .. Len(a)
    BY <1>0, <1>2
  <2> HIDE DEF V
  <2>3. CASE free = {}
    BY <2>1, <2>2, <2>3
  <2>4. CASE free # {}
    <3>1. j \in DOMAIN b \ V(k) /\ a[k + 1] = b[j]
      <4>1. free \subseteq Nat
        BY <1>0 DEF Config!Free
      <4>2. j \in free
        BY <2>4, <4>1, LeastNat DEF Config!Min
      <4> QED
        BY <4>2 DEF Config!Free
    <3> HIDE DEF j
    <3>2. /\ V(k + 1) = V(k) \cup {j} /\ V(k + 1) \subseteq DOMAIN b /\ IsFiniteSet(V(k + 1))
          /\ Cardinality(V(k + 1)) = Cardinality(V(k)) + 1
      BY <2>1, <2>2, <2>4, <3>1, FS_AddElement
    <3>3. ASSUME Cardinality(V(k + 1)) = k + 1, NEW e
          PROVE  Cardinality(Places(b, V(k + 1), e)) = Cardinality(Places(a, 1 .. k + 1, e))
      <4>1. Cardinality(Places(b, V(k), e)) = Cardinality(Places(a, 1 .. k, e))
        BY <2>2, <3>2, <3>3
      <4>2. Cardinality(Places(b, V(k + 1), e)) =
              Cardinality(Places(b, V(k), e)) + (IF b[j] = e THEN 1 ELSE 0)
        BY <2>2, <3>1, <3>2, OnePlaceMore
      <4>3. Cardinality(Places(a, (1 .. k) \cup {k + 1}, e)) =
              Cardinality(Places(a, 1 .. k, e)) + (IF a[k + 1] = e THEN 1 ELSE 0)
        <5>1. PICK S : S = 1 .. k
          OBVIOUS
        <5>2. IsFiniteSet(S) /\ k + 1 \notin S
          BY <2>2, <5>1, FirstNumbers
        <5>3. Cardinality(Places(a, S \cup {k + 1}, e)) =
                Cardinality(Places(a, S, e)) + (IF a[k + 1] = e THEN 1 ELSE 0)
          BY <5>2, OnePlaceMore
        <5> QED
          BY <5>1, <5>3
      <4>4. 1 .. k + 1 = (1 .. k) \cup {k + 1}
        BY <2>2
      <4> QED
        BY <3>1, <4>1, <4>2, <4>3, <4>4
    <3> QED
      BY <2>2, <3>2, <3>3
  <2> QED
    BY <2>3, <2>4
<1>3. i \in T
  <2>1. \A k \in 0 .. Len(a) - 1 : k \in T => k + 1 \in T
    BY <1>2
  <2> HIDE DEF T
  <2>2. 0 .. Len(a) \subseteq T
    BY <1>0, <1>1, <2>1, UpTo
  <2> QED
    BY <2>2
<1> QED
  BY <1>3

\* Lists that have every value equally often: the elements of one find as many in the
\* other.
LEMMA AllAreTaken ==
  ASSUME NEW a, NEW b, IsList(a), IsList(b),
         \A k \in DOMAIN a : Cardinality(Places(a, DOMAIN a, a[k])) =
                             Cardinality(Places(b, DOMAIN b, a[k]))
  PROVE  Cardinality(Config!Visited(a, b)[Len(a)]) = Len(a) /\ Len(a) <= Len(b)
<1> DEFINE V(k) == Config!Visited(a, b)[k]
           T == {k \in 0 .. Len(a) : Cardinality(V(k)) = k}
<1>0. Len(a) \in Nat /\ Len(b) \in Nat /\ DOMAIN a = 1 .. Len(a) /\ DOMAIN b = 1 .. Len(b)
  BY DEF IsList
<1>1. 0 \in T
  <2>1. V(0) = {}
    BY <1>0, VisitedSteps
  <2> HIDE DEF V
  <2>2. Cardinality(V(0)) = 0
    BY <2>1, FS_EmptySet
  <2> QED
    BY <1>0, <2>2
<1>2. ASSUME NEW k \in 0 .. Len(a) - 1, k \in T
      PROVE  k + 1 \in T
  <2> DEFINE e == a[k + 1]
             free == Config!Free(a, b, k + 1, V(k))
             j == Config!Min(free)
  <2>1. /\ V(k) \subseteq DOMAIN b /\ IsFiniteSet(V(k)) /\ Cardinality(V(k)) = k
        /\ Cardinality(Places(b, V(k), e)) = Cardinality(Places(a, 1 .. k, e))
        /\ k \in Nat /\ k + 1 \in 1 .. Len(a)
    BY <1>0, <1>2, TakenSoFar
  <2>2. V(k + 1) = IF free = {} THEN V(k) ELSE V(k) \cup {j}
    <3>1. k + 1 \in 1 .. Len(a) /\ (k + 1) - 1 = k
      BY <2>1
    <3>2. V(k + 1) = Config!Take(a, b, k + 1, V((k + 1) - 1))
      BY <1>0, <3>1, VisitedSteps
    <3>3. V(k + 1) = Config!Take(a, b, k + 1, V(k))
      BY <3>1, <3>2
    <3> QED
      BY <3>3 DEF Config!Take
  <2> HIDE DEF V
  <2>3. Cardinality(Places(a, 1 .. k, e)) < Cardinality(Places(a, DOMAIN a, e))
    <3>0. PICK S : S = 1 .. k
      OBVIOUS
    <3>1. /\ IsFiniteSet(S) /\ k + 1 \notin S /\ IsFiniteSet(DOMAIN a)
          /\ S \cup {k + 1} \subseteq DOMAIN a
      BY <1>0, <2>1, <3>0, FirstNumbers
    <3> DEFINE next == k + 1
    <3> HIDE DEF next
    <3>2. /\ Cardinality(Places(a, S, e)) \in Nat
          /\ Cardinality(Places(a, S \cup {next}, e)) =
               Cardinality(Places(a, S, e)) + (IF a[next] = e THEN 1 ELSE 0)
      BY <3>1, OnePlaceMore DEF next
    <3>3. /\ Places(a, S \cup {next}, e) \subseteq Places(a, DOMAIN a, e)
          /\ Places(a, DOMAIN a, e) \subseteq DOMAIN a /\ a[next] = e
      BY <3>1 DEF Places, next
    <3>4. IsFiniteSet(Places(a, DOMAIN a, e)) /\ Cardinality(Places(a, DOMAIN a, e)) \in Nat
      BY <3>1, <3>3, FS_Subset, FS_CardinalityType
    <3>5. Cardinality(Places(a, S \cup {next}, e)) <= Cardinality(Places(a, DOMAIN a, e))
      BY <3>3, <3>4, FS_Subset
    <3> QED
      BY <3>0, <3>2, <3>3, <3>4, <3>5
  <2>4. Cardinality(Places(a, DOMAIN a, e)) = Cardinality(Places(b, DOMAIN b, e))
    BY <1>0, <2>1
  <2>5. free # {}
    <3> SUFFICES ASSUME free = {}
                 PROVE  FALSE
      OBVIOUS
    <3>1. Places(b, DOMAIN b, e) = Places(b, V(k), e)
      BY <2>1 DEF Places, Config!Free
    <3>2. IsFiniteSet(Places(b, V(k), e)) /\ Cardinality(Places(b, V(k), e)) \in Nat
      BY <2>1, FS_Subset, FS_CardinalityType DEF Places
    <3> QED
      BY <2>1, <2>3, <2>4, <3>1, <3>2
  <2>6. j \notin V(k)
    <3>1. free \subseteq Nat
      BY <1>0 DEF Config!Free
    <3>2. j \in free
      BY <2>5, <3>1, LeastNat DEF Config!Min
    <3> QED
      BY <3>2 DEF Config!Free
  <2> HIDE DEF j, free
  <2>7. Cardinality(V(k + 1)) = k + 1
    <3>1. V(k + 1) = V(k) \cup {j}
      BY <2>2, <2>5
    <3>2. Cardinality(V(k) \cup {j}) = Cardinality(V(k)) + 1
      BY <2>1, <2>6, FS_AddElement
    <3> QED
      BY <2>1, <3>1, <3>2
  <2> QED
    BY <2>1, <2>7
<1>3. Len(a) \in T
  <2>1. \A k \in 0 .. Len(a) - 1 : k \in T => k + 1 \in T
    BY <1>2
  <2> HIDE DEF T
  <2>2. 0 .. Len(a) \subseteq T
    BY <1>0, <1>1, <2>1, UpTo
  <2> QED
    BY <1>0, <2>2
<1>4. V(Len(a)) \subseteq 1 .. Len(b) /\ Cardinality(V(Len(a))) = Len(a)
  BY <1>0, <1>3, TakenSoFar
<1>5. IsFiniteSet(1 .. Len(b)) /\ Cardinality(1 .. Len(b)) = Len(b)
  BY <1>0, FirstNumbers
<1>6. Len(a) <= Len(b)
  BY <1>4, <1>5, FS_Subset
<1> QED
  BY <1>4, <1>6

\* The instance counts as FiniteSets does.
LEMMA SameCardinality == \A S : Config!Cardinality(S) = Cardinality(S)
BY DEF Config!Cardinality, Cardinality

\* The greedy comparison finds lists equal that have every value equally often.
LEMMA CompareIsSame ==
  ASSUME NEW a \in Lists, NEW b \in Lists
  PROVE  Config!Compare(a, b) <=> Config!Same(a, b)
<1>1. CASE a = None \/ b = None
  BY <1>1 DEF Config!Compare, Config!Same
<1>2. CASE a # None /\ b # None
  <2> DEFINE D == UNION {{m[k] : k \in DOMAIN m} : m \in Lists \ {None}}
  <2>1. \A l \in {a, b} : IsList(l) /\ \A k \in DOMAIN l : l[k] \in D
    <3>1. \A l \in {a, b} : \A k \in DOMAIN l : l[k] \in D
      BY <1>2
    <3>2. ASSUME NEW l \in {a, b}
          PROVE  Len(l) \in Nat /\ l = [k \in 1 .. Len(l) |-> l[k]]
      BY <1>2, ModelAssumption DEF Config!ConfigAssumption
    <3>3. ASSUME NEW l \in {a, b}
          PROVE  IsList(l)
      BY <3>2 DEF IsList
    <3> HIDE DEF D
    <3> QED
      BY <3>1, <3>3
  <2>2. /\ Len(a) \in Nat /\ Len(b) \in Nat /\ DOMAIN a = 1 .. Len(a) /\ DOMAIN b = 1 .. Len(b)
        /\ IsList(a) /\ IsList(b)
    BY <2>1 DEF IsList
  <2>3. Config!Compare(a, b) <=>
          Len(a) = Len(b) /\ Cardinality(Config!Visited(a, b)[Len(a)]) = Len(a)
    BY <1>2, SameCardinality DEF Config!Compare
  <2>4. Config!Same(a, b) <=>
          \A e \in D : Cardinality(Places(a, DOMAIN a, e)) = Cardinality(Places(b, DOMAIN b, e))
    <3> DEFINE Bag(l) == [e \in D |-> Cardinality(Places(l, DOMAIN l, e))]
    <3>1. Config!BagOf(a) = Bag(a) /\ Config!BagOf(b) = Bag(b)
      BY SameCardinality DEF Config!BagOf, Places
    <3>2. Config!Same(a, b) <=> Bag(a) = Bag(b)
      BY <1>2, <3>1 DEF Config!Same
    <3> HIDE DEF D
    <3>3. Bag(a) = Bag(b) <=> \A e \in D : Bag(a)[e] = Bag(b)[e]
      OBVIOUS
    <3> QED
      BY <3>2, <3>3
  <2> HIDE DEF D
  <2>5. ASSUME Config!Compare(a, b)
        PROVE  Config!Same(a, b)
    <3> DEFINE v == Config!Visited(a, b)[Len(a)]
    <3>1. Len(a) = Len(b) /\ Cardinality(v) = Len(a)
      BY <2>3, <2>5
    <3>2. /\ v \subseteq DOMAIN b
          /\ \A e : Cardinality(Places(b, v, e)) = Cardinality(Places(a, 1 .. Len(a), e))
      BY <2>2, <3>1, TakenSoFar
    <3> HIDE DEF v
    <3>3. IsFiniteSet(DOMAIN b) /\ Cardinality(DOMAIN b) = Cardinality(v)
      BY <2>2, <3>1, FirstNumbers
    <3>4. v = DOMAIN b
      BY <3>2, <3>3, FS_Subset
    <3> QED
      BY <2>2, <2>4, <3>2, <3>4
  <2>6. ASSUME Config!Same(a, b)
        PROVE  Config!Compare(a, b)
    <3>1. /\ \A k \in DOMAIN a : Cardinality(Places(a, DOMAIN a, a[k])) =
                                Cardinality(Places(b, DOMAIN b, a[k]))
          /\ \A k \in DOMAIN b : Cardinality(Places(b, DOMAIN b, b[k])) =
                                Cardinality(Places(a, DOMAIN a, b[k]))
      BY <2>1, <2>4, <2>6
    <3>2. Cardinality(Config!Visited(a, b)[Len(a)]) = Len(a) /\ Len(a) <= Len(b)
      BY <2>2, <3>1, AllAreTaken
    <3>3. Len(b) <= Len(a)
      BY <2>2, <3>1, AllAreTaken
    <3>4. Len(a) = Len(b)
      <4>1. \A x, y \in Nat : x <= y /\ y <= x => x = y
        OBVIOUS
      <4>2. Len(a) \in Nat /\ Len(b) \in Nat
        BY <2>2
      <4> QED
        BY <3>2, <3>3, <4>1, <4>2, Zenon
    <3> QED
      BY <2>3, <3>2, <3>4
  <2> QED
    BY <2>5, <2>6
<1> QED
  BY <1>1, <1>2

\* NGINX and Lua work with the running configuration, and without a request to
\* synchronise this is what the store says.
ConfigOK ==
  /\ {store, running} \subseteq [fields : SUBSET Config!Changing, endpoints : Lists]
  /\ nginx.endpoints = running.endpoints
  /\ Config!AllNoticed =>
       /\ nginx.fields = running.fields
       /\ ~pending => /\ running.fields = store.fields
                      /\ Config!Same(running.endpoints, store.endpoints)

ConfigInv == OfConfigs => ConfigOK

\* What is in the configuration file makes a reload necessary.
LEMMA ConfReloads ==
  ASSUME Config!AllNoticed, running.fields \cup store.fields \subseteq Config!Changing,
         Config!IsDynamicConfigurationEnough(running, store)
  PROVE  \A f \in running.fields \cup store.fields :
           Config!InConf(f) => (f \in running.fields <=> f \in store.fields)
<1> SUFFICES ASSUME NEW f \in running.fields \cup store.fields, Config!InConf(f)
             PROVE  f \in running.fields <=> f \in store.fields
  OBVIOUS
<1>1. f \in Config!Compared
  BY DEF Config!AllNoticed
<1>2. f \notin Config!Cleared
  BY DEF Config!AllNoticed
<1> QED
  BY <1>1, <1>2 DEF Config!IsDynamicConfigurationEnough, Config!Differ

LEMMA ConfigStep ==
  ASSUME OfConfigs, ConfigOK, [Config!Next]_<<Config!vars, setup>>
  PROVE  ConfigOK'
<1>1. setup' = setup /\ Config!Changing' = Config!Changing /\ Config!AllNoticed' = Config!AllNoticed
  BY DEF Config!Next, Config!Changing, Config!AllNoticed
<1>2. CASE Config!Change
  <2>1. /\ running' = running /\ nginx' = nginx /\ pending' = TRUE
    BY <1>2 DEF Config!Change
  <2>2. store' \in [fields : SUBSET Config!Changing, endpoints : Lists]
    BY <1>2 DEF Config!Change, ConfigOK
  <2> QED
    BY <1>1, <2>1, <2>2 DEF ConfigOK
<1>3. CASE Config!syncIngress
  <2>1. store' = store
    BY <1>3 DEF Config!syncIngress
  <2>2. CASE Config!Equal(running, store)
    <3>1. running' = running /\ nginx' = nginx
      BY <1>3, <2>2 DEF Config!syncIngress
    <3>2. Config!AllNoticed => running.fields = store.fields
      BY <2>2 DEF Config!Equal, Config!Differ, Config!AllNoticed, ConfigOK
    <3>3. Config!Same(running.endpoints, store.endpoints)
      BY <2>2, CompareIsSame DEF Config!Equal, ConfigOK
    <3> QED
      BY <1>1, <2>1, <3>1, <3>2, <3>3 DEF ConfigOK, Config!Same, Config!BagOf
  <2>3. CASE ~Config!Equal(running, store)
    <3> DEFINE enough == Config!IsDynamicConfigurationEnough(running, store)
               conf == (IF enough THEN nginx ELSE store).fields
               fields == {f \in conf : Config!InConf(f)} \cup {f \in store.fields : ~Config!InConf(f)}
    <3>1. running' = store /\ nginx' = [fields |-> fields, endpoints |-> store.endpoints]
      BY <1>3, <2>3 DEF Config!syncIngress
    <3>2. nginx'.fields = fields /\ nginx'.endpoints = store.endpoints
      BY <3>1
    <3>3. Config!AllNoticed => fields = store.fields
      BY ConfReloads DEF ConfigOK
    <3>4. Config!Same(store.endpoints, store.endpoints)
      BY DEF Config!Same
    <3> HIDE DEF fields
    <3> QED
      BY <1>1, <2>1, <3>1, <3>2, <3>3, <3>4 DEF ConfigOK, Config!Same, Config!BagOf
  <2> QED
    BY <2>2, <2>3
<1>4. CASE UNCHANGED Config!vars
  BY <1>1, <1>4 DEF Config!vars, ConfigOK, Config!Same, Config!BagOf
<1> QED
  BY <1>2, <1>3, <1>4 DEF Config!Next

-----------------------------------------------------------------------------
(* Theorems about requests, endpoints and comparisons *)

RoutingInv == OfRequests => RoutingOK /\ SessionsOK

LEMMA RoutingInvariant == Spec => []RoutingInv
<1>1. Init => RoutingInv
  BY InitOfOne, RoutingInit DEF RoutingInv
<1>2. RoutingInv /\ [Next]_vars => RoutingInv'
  BY StepOfOne, SetupStays, RoutingStep, SessionsStep DEF RoutingInv
<1> QED
  BY <1>1, <1>2, PTL DEF Spec

(***************************************************************************)
(* For every ring, every set of endpoints and every sequence of tables of  *)
(* balancers: a session stays at the endpoint that answered it while that  *)
(* is there (sticky setups that are steady), and a retry leaves the        *)
(* endpoints that failed (sticky.lua:136-183, balancer.lua:185-297).       *)
(***************************************************************************)
THEOREM SessionsAreKept == Spec => []SessionsKept
<1>1. RoutingInv => SessionsKept
  <2> SUFFICES ASSUME OfRequests, RoutingOK, SessionsOK
               PROVE  (Requests!Steady => Requests!SessionStays) /\ Requests!RetryElsewhere
    BY DEF RoutingInv, SessionsKept
  <2>1. Requests!RetryElsewhere
    BY DEF RoutingOK, RequestOK, Requests!RetryElsewhere
  <2>2. ASSUME Requests!Steady, NEW s \in Sessions,
               req[s].on, req[s].peer # None, req[s].fails = 0, answered[s] # None
        PROVE  <<req[s].to, req[s].peer>> = answered[s]
    <3>1. answered[s] \in Requests!Backends \X Peers
      BY <2>2 DEF RoutingOK, Requests!TypeOK
    <3>2. req[s].to = answered[s][1] /\ req[s].peer = answered[s][2]
      BY <2>2 DEF SessionsOK, SessionOK, Session, Returning
    <3> QED
      BY <3>1, <3>2
  <2> QED
    BY <2>1, <2>2 DEF Requests!SessionStays
<1> QED
  BY <1>1, RoutingInvariant, PTL

(***************************************************************************)
(* A request without affinity is routed by the documented rules in their   *)
(* order, for all policies whose pattern PCRE takes, in every setup that   *)
(* always has a canary (route_to_alternative_balancer).                    *)
(***************************************************************************)
THEOREM CanaryRulesInOrder == Spec => Precedence
<1>1. RoutingInv /\ [Next]_vars
        => [OfRequests /\ Requests!RulesApply => Requests!RoutedByRules]_vars
  BY StepOfOne, RoutedStep DEF RoutingInv
<1> QED
  BY <1>1, RoutingInvariant, PTL DEF Spec, Precedence

(***************************************************************************)
(* Endpoints are addresses of the service on the port that was asked for,  *)
(* the default upstream has one, and a stream service can be listened for, *)
(* for all services and Endpoints objects (endpoints.go, controller.go).   *)
(***************************************************************************)
THEOREM EndpointsAreUsable == Spec => []EndpointsUsable
<1>1. Init => EndpointsInv
  BY InitOfOne DEF Calls!Init, EndpointsInv, EndpointsUsable, Calls!EndpointsOfTheService,
     Calls!DefaultNeverEmpty, Calls!StreamsUsable
<1>2. EndpointsInv /\ [Next]_vars => EndpointsInv'
  <2> SUFFICES ASSUME EndpointsInv, [Next]_vars
               PROVE  EndpointsInv'
    OBVIOUS
  <2>1. setup' = setup
    BY StepOfOne
  <2>2. CASE OfCalls
    BY <2>2, StepOfOne, EndpointsStep
  <2>3. CASE ~OfCalls
    BY <2>1, <2>3 DEF EndpointsInv, OfCalls
  <2> QED
    BY <2>2, <2>3
<1>3. EndpointsInv => EndpointsUsable
  BY DEF EndpointsInv, EndpointsUsable
<1> QED
  BY <1>1, <1>2, <1>3, PTL DEF Spec

(***************************************************************************)
(* A sync leaves NGINX and Lua with what the store says, whether it finds  *)
(* the new configuration equal to the running one, posts or reloads, for   *)
(* every set of changing fields that Equal looks at and that are, if they  *)
(* are in nginx.conf, not cleared before IsDynamicConfigurationEnough      *)
(* compares; and the greedy comparison of lists is equality as bags, for   *)
(* lists of any length (types_equals.go, sets/match.go:28-63, nginx.go).   *)
(***************************************************************************)
THEOREM ComparesSoundly == Spec => []ComparisonIsSound
<1>1. Init => ConfigInv
  <2> SUFFICES ASSUME Config!Init
               PROVE  ConfigOK
    BY InitOfOne DEF ConfigInv
  <2>1. /\ running = store /\ nginx = store
        /\ store \in [fields : SUBSET Config!Changing, endpoints : Lists]
        /\ Config!Same(store.endpoints, store.endpoints)
    BY DEF Config!Init, Config!Same
  <2> QED
    BY <2>1 DEF ConfigOK
<1>2. ConfigInv /\ [Next]_vars => ConfigInv'
  <2> SUFFICES ASSUME ConfigInv, [Next]_vars
               PROVE  ConfigInv'
    OBVIOUS
  <2>1. setup' = setup
    BY StepOfOne
  <2>2. CASE OfConfigs
    BY <2>2, StepOfOne, ConfigStep DEF ConfigInv
  <2>3. CASE ~OfConfigs
    BY <2>1, <2>3 DEF ConfigInv, OfConfigs
  <2> QED
    BY <2>2, <2>3
<1>3. ConfigInv => ComparisonIsSound
  <2> SUFFICES ASSUME OfConfigs, ConfigOK
               PROVE  (Config!AllNoticed => Config!Applied) /\ Config!CompareIsBagEquality
    BY DEF ConfigInv, ComparisonIsSound
  <2>1. Config!CompareIsBagEquality
    BY CompareIsSame DEF ConfigOK, Config!CompareIsBagEquality
  <2>2. Config!AllNoticed => Config!Applied
    BY DEF ConfigOK, Config!Applied
  <2> QED
    BY <2>1, <2>2
<1> QED
  BY <1>1, <1>2, <1>3, PTL DEF Spec

-----------------------------------------------------------------------------
(* Building the model: the place of a pass *)

\* A place of the list: an ingress, a rule or a path.
IsPlace(k, r, p) ==
  /\ k \in 1 .. Len(ings) /\ r \in 0 .. Len(ings[k].rules)
  /\ r = 0 => p = 0
  /\ r # 0 => p \in 0 .. Len(ings[k].rules[r].paths)

\* The pass has been there.
Passed(k, r, p) ==
  \/ k < at.ing
  \/ k = at.ing /\ r < at.rule
  \/ k = at.ing /\ r = at.rule /\ p < at.path

IsAt(k, r, p) == at = Build!PlaceAt(k, r, p)

\* A pass is at a place, or after the last one.
PlaceOK ==
  /\ phase \in {"upstreams", "servers", "tls", "locations", "canary", "done", "panicked"}
  /\ ings \in ListSetups[setup]
  /\ at = Build!PlaceAt(at.ing, at.rule, at.path)
  /\ IF at.ing = Len(ings) + 1 THEN at.rule = 0 /\ at.path = 0
     ELSE IsPlace(at.ing, at.rule, at.path)

LEMMA ListsOfIngresses ==
  ASSUME OfBuild, PlaceOK
  PROVE  Build!IsList(ings) /\ \A k \in DOMAIN ings : Build!IsIngress(ings[k])
BY ModelAssumption DEF OfBuild, PlaceOK, Build!BuildAssumption

\* One place more has been passed.
LEMMA OnePassed ==
  ASSUME OfBuild, PlaceOK, NEW q, Build!Visit(q), UNCHANGED setup
  PROVE  /\ PlaceOK'
         /\ IsPlace(at.ing, at.rule, at.path) /\ IsAt(at.ing, at.rule, at.path)
         /\ \A k, r, p : IsPlace(k, r, p)' = IsPlace(k, r, p)
         /\ \A k, r, p : IsPlace(k, r, p) =>
              (Passed(k, r, p)' <=> Passed(k, r, p) \/ IsAt(k, r, p))
<1>1. Len(ings) \in Nat /\ DOMAIN ings = 1 .. Len(ings)
  BY ListsOfIngresses DEF Build!IsList
<1>2. at.ing <= Len(ings) /\ IsPlace(at.ing, at.rule, at.path)
  BY <1>1 DEF PlaceOK, Build!Visit, Build!Visiting, Build!PlaceAt
<1>3. /\ \A k \in 1 .. Len(ings) : Len(ings[k].rules) \in Nat
      /\ \A k \in 1 .. Len(ings) : \A r \in 1 .. Len(ings[k].rules) :
            Len(ings[k].rules[r].paths) \in Nat
  BY <1>1, ListsOfIngresses DEF Build!IsIngress, Build!IsList
<1>4. /\ at'.ing = Build!Following.ing /\ at'.rule = Build!Following.rule
      /\ at'.path = Build!Following.path
      /\ at' = Build!PlaceAt(at'.ing, at'.rule, at'.path)
      /\ ings' = ings /\ phase' = phase
  BY DEF Build!Visit, Build!Following, Build!PlaceAt
<1>5. \A k, r, p : IsAt(k, r, p) <=> k = at.ing /\ r = at.rule /\ p = at.path
  BY DEF IsAt, Build!PlaceAt, PlaceOK
<1>6. at.ing \in Nat /\ at.rule \in Nat /\ at.path \in Nat
  BY <1>1, <1>2, <1>3 DEF IsPlace
<1>7. \A k, r, p : IsPlace(k, r, p)' = IsPlace(k, r, p)
  BY <1>4 DEF IsPlace
<1>11. ASSUME IsPlace(at'.ing, at'.rule, at'.path)
       PROVE  PlaceOK'
  <2>1. at'.ing # Len(ings) + 1
    BY <1>1, <1>11 DEF IsPlace
  <2> QED
    BY <1>4, <1>7, <1>11, <2>1 DEF PlaceOK
<1>8. CASE at.rule # 0 /\ at.path < Len(Build!Rule.paths)
  <2>1. at'.ing = at.ing /\ at'.rule = at.rule /\ at'.path = at.path + 1
    BY <1>4, <1>8 DEF Build!Following, Build!PlaceAt
  <2>4. IsPlace(at.ing, at.rule, at.path + 1)
    <3>3. at.ing \in 1 .. Len(ings) /\ at.rule \in 1 .. Len(ings[at.ing].rules)
      BY <1>2, <1>3, <1>8 DEF IsPlace
    <3>2. at.path + 1 \in 0 .. Len(ings[at.ing].rules[at.rule].paths)
      <4>1. Len(ings[at.ing].rules[at.rule].paths) \in Nat
        BY <1>3, <3>3
      <4>2. at.path < Len(ings[at.ing].rules[at.rule].paths)
        BY <1>8 DEF Build!Rule, Build!Current
      <4>3. \A m, n \in Nat : m < n => m + 1 \in 0 .. n
        OBVIOUS
      <4> QED
        BY <1>6, <4>1, <4>2, <4>3, Zenon
    <3> QED
      BY <1>2, <1>8, <3>2 DEF IsPlace
  <2>2. IsPlace(at'.ing, at'.rule, at'.path)
    BY <2>1, <2>4
  <2>3. ASSUME NEW k, NEW r, NEW p, IsPlace(k, r, p)
        PROVE  Passed(k, r, p)' <=> Passed(k, r, p) \/ IsAt(k, r, p)
    BY <1>1, <1>2, <1>3, <1>5, <1>6, <2>1, <2>3
    DEF IsPlace, Passed
  <2> QED
    BY <1>2, <1>5, <1>7, <1>11, <2>2, <2>3
<1>9. CASE ~(at.rule # 0 /\ at.path < Len(Build!Rule.paths)) /\ at.rule < Len(Build!Current.rules)
  <2>1. at'.ing = at.ing /\ at'.rule = at.rule + 1 /\ at'.path = 0
    BY <1>4, <1>9 DEF Build!Following, Build!PlaceAt
  <2>2. at.rule = 0 \/ at.path = Len(Build!Rule.paths)
    BY <1>2, <1>3, <1>9 DEF IsPlace, Build!Rule, Build!Current
  <2>6. IsPlace(at.ing, at.rule + 1, 0)
    <3>1. at.rule + 1 <= Len(ings[at.ing].rules) /\ Len(ings[at.ing].rules) \in Nat
      BY <1>2, <1>3, <1>9 DEF IsPlace, Build!Current
    <3>2. at.rule + 1 \in 0 .. Len(ings[at.ing].rules) /\ at.rule + 1 # 0
      BY <1>6, <3>1
    <3>4. at.ing \in 1 .. Len(ings) /\ at.rule + 1 \in 1 .. Len(ings[at.ing].rules)
      BY <1>2, <1>6, <3>1 DEF IsPlace
    <3>3. 0 \in 0 .. Len(ings[at.ing].rules[at.rule + 1].paths)
      <4>1. \A n \in Nat : 0 \in 0 .. n
        OBVIOUS
      <4> QED
        BY <1>3, <3>4, <4>1, Zenon
    <3> QED
      BY <1>2, <3>2, <3>3 DEF IsPlace
  <2>5. IsPlace(at'.ing, at'.rule, at'.path)
    BY <2>1, <2>6
  <2>3. PlaceOK'
    BY <1>11, <2>5
  <2>4. ASSUME NEW k, NEW r, NEW p, IsPlace(k, r, p)
        PROVE  Passed(k, r, p)' <=> Passed(k, r, p) \/ IsAt(k, r, p)
    <3>1. k \in Nat /\ r \in Nat /\ p \in Nat
      BY <1>1, <1>3, <2>4 DEF IsPlace
    <3>2. ASSUME k = at.ing, r = at.rule
          PROVE  p <= at.path
      <4>1. CASE r = 0
        BY <1>6, <2>4, <4>1 DEF IsPlace
      <4>2. CASE r # 0
        <5>1. at.path = Len(ings[k].rules[r].paths)
          BY <2>2, <3>2, <4>2 DEF Build!Rule, Build!Current
        <5>2. p \in 0 .. Len(ings[k].rules[r].paths)
          BY <2>4, <4>2 DEF IsPlace
        <5> QED
          BY <1>6, <5>1, <5>2
      <4> QED
        BY <4>1, <4>2
    <3>3. /\ r < at.rule + 1 <=> r < at.rule \/ r = at.rule
          /\ ~(p < 0) /\ (p <= at.path <=> p < at.path \/ p = at.path)
      BY <1>6, <3>1
    <3> QED
      BY <1>5, <2>1, <3>2, <3>3 DEF Passed
  <2> QED
    BY <1>2, <1>5, <1>7, <2>3, <2>4
<1>10. CASE ~(at.rule # 0 /\ at.path < Len(Build!Rule.paths)) /\ ~(at.rule < Len(Build!Current.rules))
  <2>1. at'.ing = at.ing + 1 /\ at'.rule = 0 /\ at'.path = 0
    BY <1>4, <1>10 DEF Build!Following, Build!PlaceAt
  <2>2. /\ at.rule = 0 \/ at.path = Len(Build!Rule.paths)
        /\ at.rule = Len(Build!Current.rules)
    <3>1. \A n \in Nat : \A m \in 0 .. n : ~(m < n) => m = n
      OBVIOUS
    <3>2. at.rule = Len(Build!Current.rules)
      BY <1>2, <1>3, <1>10, <3>1, Zenon DEF IsPlace, Build!Current
    <3>3. CASE at.rule # 0
      <4>1. at.rule \in 1 .. Len(Build!Current.rules)
        BY <1>2, <1>6, <3>3 DEF IsPlace, Build!Current
      <4>2. /\ Len(Build!Rule.paths) \in Nat
            /\ at.path \in 0 .. Len(Build!Rule.paths)
        BY <1>2, <1>3, <3>3, <4>1 DEF IsPlace, Build!Current, Build!Rule
      <4> QED
        BY <1>10, <3>1, <3>2, <3>3, <4>2, Zenon
    <3> QED
      BY <3>2, <3>3
  <2>3. PlaceOK'
    BY <1>1, <1>2, <1>3, <1>4, <1>6, <1>7, <2>1 DEF PlaceOK, IsPlace
  <2>4. ASSUME NEW k, NEW r, NEW p, IsPlace(k, r, p)
        PROVE  Passed(k, r, p)' <=> Passed(k, r, p) \/ IsAt(k, r, p)
    <3>1. k \in Nat /\ r \in Nat /\ p \in Nat
      BY <1>1, <1>3, <2>4 DEF IsPlace
    <3>2. ASSUME k = at.ing
          PROVE  r <= at.rule
      BY <1>6, <2>2, <2>4, <3>2 DEF IsPlace, Build!Current
    <3>3. ASSUME k = at.ing, r = at.rule
          PROVE  p <= at.path
      <4>1. CASE r = 0
        BY <1>6, <2>4, <4>1 DEF IsPlace
      <4>2. CASE r # 0
        <5>1. at.path = Len(ings[k].rules[r].paths)
          BY <2>2, <3>3, <4>2 DEF Build!Rule, Build!Current
        <5>2. p \in 0 .. Len(ings[k].rules[r].paths)
          BY <2>4, <4>2 DEF IsPlace
        <5> QED
          BY <1>6, <5>1, <5>2
      <4> QED
        BY <4>1, <4>2
    <3>4. /\ k < at.ing + 1 <=> k < at.ing \/ k = at.ing
          /\ ~(r < 0) /\ ~(p < 0)
          /\ r <= at.rule <=> r < at.rule \/ r = at.rule
          /\ p <= at.path <=> p < at.path \/ p = at.path
      BY <1>6, <3>1
    <3> QED
      BY <1>5, <2>1, <3>2, <3>3, <3>4 DEF Passed
  <2> QED
    BY <1>2, <1>5, <1>7, <2>3, <2>4
<1> QED
  BY <1>8, <1>9, <1>10

\* A pass ends when it has been everywhere; the next one has been nowhere.
LEMMA PassEnds ==
  ASSUME OfBuild, PlaceOK, UNCHANGED setup, NEW q, NEW t, Build!EndPass(q, t),
         t \in {"servers", "tls", "locations", "canary"}
  PROVE  /\ PlaceOK'
         /\ \A k, r, p : IsPlace(k, r, p)' = IsPlace(k, r, p)
         /\ \A k, r, p : IsPlace(k, r, p) => Passed(k, r, p) /\ ~Passed(k, r, p)'
<1>1. Len(ings) \in Nat /\ DOMAIN ings = 1 .. Len(ings)
  BY ListsOfIngresses DEF Build!IsList
<1>2. \A k \in 1 .. Len(ings) :
        /\ Len(ings[k].rules) \in Nat
        /\ \A r \in 1 .. Len(ings[k].rules) : Len(ings[k].rules[r].paths) \in Nat
  BY <1>1, ListsOfIngresses DEF Build!IsIngress, Build!IsList
<1>3. at'.ing = 1 /\ at'.rule = 0 /\ at'.path = 0 /\ ings' = ings /\ phase' = t
  BY DEF Build!EndPass, Build!First, Build!PlaceAt
<1>4. at.ing = Len(ings) + 1
  BY <1>1 DEF Build!EndPass, PlaceOK, IsPlace
<1>5. \A k, r, p : IsPlace(k, r, p)' = IsPlace(k, r, p)
  BY <1>3 DEF IsPlace
<1>6. PlaceOK'
  <2>1. at' = Build!PlaceAt(at'.ing, at'.rule, at'.path)
    BY DEF Build!EndPass, Build!First, Build!PlaceAt
  <2> QED
    BY <1>1, <1>2, <1>3, <1>5, <2>1 DEF PlaceOK, IsPlace
<1> QED
  BY <1>1, <1>2, <1>3, <1>4, <1>5, <1>6 DEF IsPlace, Passed

-----------------------------------------------------------------------------
(* Lists *)

IsSeq(l) == l \in Seq(Build!ToSet(l))

LEMMA SeqIsList ==
  ASSUME NEW l, IsSeq(l)
  PROVE  Len(l) \in Nat /\ DOMAIN l = 1 .. Len(l)
BY DEF IsSeq

LEMMA SeqOf ==
  ASSUME NEW S, NEW l \in Seq(S)
  PROVE  IsSeq(l)
<1>1. Len(l) \in Nat /\ DOMAIN l = 1 .. Len(l) /\ l = [i \in 1 .. Len(l) |-> l[i]]
  OBVIOUS
<1>2. \A i \in 1 .. Len(l) : l[i] \in Build!ToSet(l)
  BY <1>1 DEF Build!ToSet
<1>3. l \in [1 .. Len(l) -> Build!ToSet(l)]
  BY <1>1, <1>2
<1> QED
  BY <1>1, <1>3 DEF IsSeq

LEMMA SeqOne == \A x : IsSeq(<<x>>) /\ Len(<<x>>) = 1 /\ DOMAIN <<x>> = {1} /\ <<x>>[1] = x
BY DEF IsSeq, Build!ToSet

LEMMA SeqNone == IsSeq(<<>>)
BY DEF IsSeq

LEMMA SeqAppend ==
  ASSUME NEW l, IsSeq(l), NEW x
  PROVE  /\ IsSeq(Append(l, x)) /\ Len(Append(l, x)) = Len(l) + 1
         /\ DOMAIN Append(l, x) = DOMAIN l \cup {Len(l) + 1}
         /\ \A i \in DOMAIN l : Append(l, x)[i] = l[i]
         /\ Append(l, x)[Len(l) + 1] = x
         /\ Append(l, x) # <<>>
<1> DEFINE S == Build!ToSet(l) \cup {x}
<1>1. l \in Seq(S)
  BY DEF IsSeq
<1> HIDE DEF S
<1>2. x \in S
  BY DEF S
<1>3. Append(l, x) \in Seq(S) /\ Len(Append(l, x)) = Len(l) + 1
  BY <1>1, <1>2
<1>4. IsSeq(Append(l, x))
  BY <1>3, SeqOf
<1>5. Len(l) \in Nat /\ DOMAIN l = 1 .. Len(l) /\ DOMAIN Append(l, x) = 1 .. Len(l) + 1
  BY <1>1, <1>3
<1> QED
  BY <1>1, <1>2, <1>3, <1>4, <1>5

LEMMA SeqUpdate ==
  ASSUME NEW l, IsSeq(l), NEW k \in DOMAIN l, NEW x
  PROVE  /\ IsSeq([l EXCEPT ![k] = x]) /\ DOMAIN [l EXCEPT ![k] = x] = DOMAIN l
         /\ \A i \in DOMAIN l : [l EXCEPT ![k] = x][i] = IF i = k THEN x ELSE l[i]
<1> DEFINE S == Build!ToSet(l) \cup {x}
<1>1. l \in Seq(S)
  BY DEF IsSeq
<1> HIDE DEF S
<1>2. x \in S
  BY DEF S
<1>3. [l EXCEPT ![k] = x] \in Seq(S)
  BY <1>1, <1>2
<1> QED
  BY <1>3, SeqOf

-----------------------------------------------------------------------------
(* The upstreams *)

UpstreamFields == {"name", "noServer", "shape", "eps", "alts", "aff", "cookie", "pass"}

ServiceOf(k, r, p) == IF r = 0 THEN ings[k].def ELSE ings[k].rules[r].paths[p].svc

\* A place with a service.
HasService(k, r, p) == IsPlace(k, r, p) /\ (r = 0 \/ p # 0) /\ ServiceOf(k, r, p) # None

HostAt(k, r) == IF r = 0 THEN DefServer ELSE Build!HostOf(ings[k].rules[r])

\* An ingress that is no canary has the upstream n for its default backend, or for a
\* path of host h.
IsDefault(n) ==
  \E k : HasService(k, 0, 0) /\ ~ings[k].ann.canary /\ n = Build!upstreamName(ings[k].def)

IsServed(n, h) ==
  \E k, r, p : /\ HasService(k, r, p) /\ r # 0 /\ ~ings[k].ann.canary
               /\ n = Build!upstreamName(ServiceOf(k, r, p)) /\ h = HostAt(k, r)

\* u is the upstream n as the passes leave it.
UpstreamOK(u, n) ==
  /\ DOMAIN u = UpstreamFields
  /\ u.name = n /\ u.noServer \in BOOLEAN /\ (n = Build!DefUps \/ n[1] = "svc")
  /\ IsSeq(u.alts)
  /\ u.alts # <<>> => n # Build!DefUps /\ ~u.noServer
  /\ \A i \in DOMAIN u.alts : u.alts[i] # n /\ u.alts[i][1] = "svc"
  /\ n # Build!DefUps /\ ~u.noServer => IsDefault(n) \/ \E h : IsServed(n, h)

\* The upstream of the place has been made.
Made(k, r, p) == HasService(k, r, p) /\ (phase # "upstreams" \/ Passed(k, r, p))

Early == phase \in {"upstreams", "servers", "tls", "locations"}

UpstreamsOK ==
  /\ Build!DefUps \in DOMAIN ups /\ ~ups[Build!DefUps].noServer
  /\ \A n \in DOMAIN ups : UpstreamOK(ups[n], n)
  /\ Early => \A k, r, p : Made(k, r, p) => Build!upstreamName(ServiceOf(k, r, p)) \in DOMAIN ups
  /\ Early /\ Build!Apart =>
       \A k : Made(k, 0, 0) /\ ~ings[k].ann.canary =>
                ~ups[Build!upstreamName(ings[k].def)].noServer

LEMMA NamesDiffer ==
  /\ \A s : Build!upstreamName(s) # Build!DefUps /\ Build!upstreamName(s)[1] = "svc"
  /\ \A s : Build!CustomName(s) # Build!DefUps /\ Build!CustomName(s)[1] # "svc"
  /\ \A s, t : Build!upstreamName(s) = Build!upstreamName(t) => s = t
BY DEF Build!upstreamName, Build!DefUps, Build!CustomName

\* The services of canaries, by their places.
LEMMA ApartAt ==
  ASSUME OfBuild, PlaceOK, Build!Apart, NEW j, NEW q, NEW o, HasService(j, q, o), ings[j].ann.canary
  PROVE  /\ ~IsDefault(Build!upstreamName(ServiceOf(j, q, o)))
         /\ \A h : IsServed(Build!upstreamName(ServiceOf(j, q, o)), h) => h = HostAt(j, q)
<1> DEFINE s == ServiceOf(j, q, o)
<1>1. DOMAIN ings = 1 .. Len(ings) /\ \A k \in DOMAIN ings : DOMAIN ings[k].rules = 1 .. Len(ings[k].rules)
  BY ListsOfIngresses DEF Build!IsIngress, Build!IsList
<1>2. \A k \in DOMAIN ings : \A r \in DOMAIN ings[k].rules :
        DOMAIN ings[k].rules[r].paths = 1 .. Len(ings[k].rules[r].paths)
  BY ListsOfIngresses DEF Build!IsIngress, Build!IsList
<1>3. \A k, r, p : HasService(k, r, p) =>
        k \in DOMAIN ings /\ (r # 0 => r \in DOMAIN ings[k].rules /\ p \in DOMAIN ings[k].rules[r].paths)
  BY <1>1, <1>2 DEF HasService, IsPlace
<1>4. ASSUME NEW k \in DOMAIN ings, ~ings[k].ann.canary
      PROVE  ~Build!ServesElsewhere(ings[k], s, HostAt(j, q))
  BY <1>3, <1>4 DEF Build!Apart, HostAt, ServiceOf, HasService
<1> QED
  BY <1>3, <1>4, NamesDiffer DEF IsDefault, IsServed, Build!ServesElsewhere, HostAt, ServiceOf, HasService

\* What depends on the list alone stays.
LEMMA ListStays ==
  ASSUME ings' = ings
  PROVE  /\ \A k, r, p : HasService(k, r, p)' = HasService(k, r, p)
         /\ \A k, r, p : ServiceOf(k, r, p)' = ServiceOf(k, r, p)
         /\ \A k, r : HostAt(k, r)' = HostAt(k, r)
         /\ \A n : IsDefault(n)' = IsDefault(n)
         /\ \A n, h : IsServed(n, h)' = IsServed(n, h)
         /\ \A u, n : UpstreamOK(u, n)' = UpstreamOK(u, n)
         /\ Build!Apart' = Build!Apart
<1>1. /\ \A k, r, p : HasService(k, r, p)' = HasService(k, r, p)
      /\ \A k, r, p : ServiceOf(k, r, p)' = ServiceOf(k, r, p)
      /\ \A k, r : HostAt(k, r)' = HostAt(k, r)
  BY DEF HasService, IsPlace, ServiceOf, HostAt
<1>2. /\ \A n : IsDefault(n)' = IsDefault(n)
      /\ \A n, h : IsServed(n, h)' = IsServed(n, h)
  BY <1>1 DEF IsDefault, IsServed
<1>3. \A u, n : UpstreamOK(u, n)' = UpstreamOK(u, n)
  BY <1>2 DEF UpstreamOK
<1>4. Build!Apart' = Build!Apart
  BY DEF Build!Apart, Build!ServesElsewhere
<1> QED
  BY <1>1, <1>2, <1>3, <1>4

LEMMA NewUpstream ==
  /\ DOMAIN Build!newUpstream(Build!DefUps) = UpstreamFields
  /\ UpstreamOK(Build!newUpstream(Build!DefUps), Build!DefUps)
  /\ ~Build!newUpstream(Build!DefUps).noServer
BY SeqNone DEF Build!newUpstream, UpstreamOK, UpstreamFields

\* What a place makes of its service.
LEMMA MadeUpstream ==
  ASSUME OfBuild, PlaceOK, NEW k, NEW r, NEW p, HasService(k, r, p),
         NEW n, n = Build!upstreamName(ServiceOf(k, r, p)),
         NEW u, DOMAIN u = UpstreamFields, u.name = n, u.noServer = ings[k].ann.canary,
         u.alts = <<>>
  PROVE  UpstreamOK(u, n)
<1>1. ings[k].ann.canary \in BOOLEAN
  BY ListsOfIngresses DEF HasService, IsPlace, Build!IsList, Build!IsIngress
<1>2. ~ings[k].ann.canary => IsDefault(n) \/ \E h : IsServed(n, h)
  <2>1. CASE r = 0
    <3>1. p = 0
      BY <2>1 DEF HasService, IsPlace
    <3> QED
      BY <2>1, <3>1 DEF IsDefault, ServiceOf
  <2>2. CASE r # 0
    BY <2>2 DEF IsServed
  <2> QED
    BY <2>1, <2>2
<1>3. n[1] = "svc"
  BY NamesDiffer
<1> QED
  BY <1>1, <1>2, <1>3, SeqNone DEF UpstreamOK

LEMMA UpstreamsInit ==
  ASSUME OfBuild, Build!Init
  PROVE  PlaceOK /\ UpstreamsOK
<1>0. Build!IsList(ings)
  BY ModelAssumption DEF Build!Init, OfBuild, Build!BuildAssumption
<1>1. at.ing = 1 /\ at.rule = 0 /\ at.path = 0 /\ at = Build!PlaceAt(1, 0, 0)
  BY DEF Build!Init, Build!First, Build!PlaceAt
<1>2. PlaceOK
  <2>1. CASE Len(ings) = 0
    BY <1>1, <2>1 DEF PlaceOK, Build!Init
  <2>2. CASE Len(ings) # 0
    <3>1. Len(ings) \in Nat /\ 1 \in DOMAIN ings /\ 1 # Len(ings) + 1
      BY <1>0, <2>2 DEF Build!IsList
    <3>2. Len(ings[1].rules) \in Nat
      BY <3>1, ModelAssumption DEF Build!Init, OfBuild, Build!BuildAssumption, Build!IsIngress,
         Build!IsList
    <3>3. \A n \in Nat : 0 \in 0 .. n
      OBVIOUS
    <3>4. IsPlace(1, 0, 0)
      BY <1>0, <3>1, <3>2, <3>3 DEF IsPlace, Build!IsList
    <3> QED
      BY <1>1, <3>1, <3>4 DEF PlaceOK, Build!Init
  <2> QED
    BY <2>1, <2>2
<1>3. ASSUME NEW k, NEW r, NEW p
      PROVE  ~Made(k, r, p)
  BY <1>0, <1>1, <1>2, ListsOfIngresses
  DEF Made, Passed, HasService, IsPlace, Build!IsList, Build!IsIngress, Build!Init
<1>4. Build!DefUps \in DOMAIN ups /\ ups[Build!DefUps] = Build!newUpstream(Build!DefUps)
      /\ \A n \in DOMAIN ups : n = Build!DefUps
  BY DEF Build!Init
<1> QED
  BY <1>2, <1>3, <1>4, NewUpstream DEF UpstreamsOK

\* The service of the place of the pass.
LEMMA Here ==
  ASSUME OfBuild, PlaceOK, NEW q, Build!Visiting(q)
  PROVE  /\ IsPlace(at.ing, at.rule, at.path)
         /\ Build!AtIngress => at.path = 0
         /\ Build!AtService => /\ at.rule # 0 /\ ~Build!AtIngress
                               /\ ServiceOf(at.ing, at.rule, at.path) = Build!Path.svc
                               /\ HostAt(at.ing, at.rule) = Build!Host
         /\ HasService(at.ing, at.rule, at.path)
              <=> (Build!AtIngress /\ Build!Current.def # None) \/ Build!AtService
         /\ Build!Current.ann.canary \in BOOLEAN
<1>1. Len(ings) \in Nat /\ DOMAIN ings = 1 .. Len(ings)
  BY ListsOfIngresses DEF Build!IsList
<1>2. IsPlace(at.ing, at.rule, at.path)
  BY <1>1 DEF PlaceOK, Build!Visiting
<1>3. Build!Current.ann.canary \in BOOLEAN
  BY <1>1, <1>2, ListsOfIngresses DEF IsPlace, Build!IsIngress, Build!Current
<1> QED
  BY <1>2, <1>3 DEF IsPlace, HasService, ServiceOf, HostAt, Build!AtIngress, Build!AtService,
     Build!Path, Build!Rule, Build!Current, Build!Host

LEMMA SetValue ==
  ASSUME NEW f, NEW n, NEW v
  PROVE  /\ DOMAIN Build!Set(f, n, v) = DOMAIN f \cup {n}
         /\ Build!Set(f, n, v)[n] = v
         /\ \A m \in DOMAIN f : m # n => Build!Set(f, n, v)[m] = f[m]
BY DEF Build!Set

LEMMA CreateUpstream ==
  ASSUME OfBuild, PlaceOK, UpstreamsOK, UNCHANGED setup, Build!createUpstreams
  PROVE  PlaceOK' /\ UpstreamsOK'
<1>1. Build!Visit("upstreams") /\ Build!Visiting("upstreams")
  BY DEF Build!createUpstreams, Build!Visit
<1>2. phase = "upstreams" /\ phase' = phase /\ ings' = ings
  BY <1>1 DEF Build!Visit, Build!Visiting
<1> DEFINE k0 == at.ing
           r0 == at.rule
           p0 == at.path
           n0 == Build!upstreamName(ServiceOf(k0, r0, p0))
<1>3. /\ PlaceOK'
      /\ IsPlace(k0, r0, p0)
      /\ \A k, r, p : IsPlace(k, r, p)' = IsPlace(k, r, p)
      /\ \A k, r, p : IsPlace(k, r, p) =>
           (Passed(k, r, p)' <=> Passed(k, r, p) \/ IsAt(k, r, p))
  BY <1>1, OnePassed
<1>4. \A k, r, p : IsAt(k, r, p) => k = k0 /\ r = r0 /\ p = p0
  BY DEF IsAt, Build!PlaceAt
<1>5. \A k, r, p : Made(k, r, p)' => Made(k, r, p) \/ (HasService(k0, r0, p0) /\ k = k0 /\ r = r0 /\ p = p0)
  BY <1>2, <1>3, <1>4, ListStays DEF Made, HasService
<1>6. ASSUME ~HasService(k0, r0, p0)
      PROVE  UpstreamsOK'
  <2>1. ups' = ups
    BY <1>1, <1>6, Here DEF Build!createUpstreams
  <2>2. \A k, r, p : Made(k, r, p)' => Made(k, r, p)
    BY <1>5, <1>6
  <2> QED
    BY <1>2, <2>1, <2>2, ListStays DEF UpstreamsOK, Early
<1>7. ASSUME HasService(k0, r0, p0),
             NEW u, UpstreamOK(u, n0), u.noServer = ings[k0].ann.canary,
             r0 = 0 => ups' = Build!Set(ups, n0, u),
             r0 # 0 => ups' = Build!SetNew(ups, n0, u)
      PROVE  UpstreamsOK'
  <2>1. /\ DOMAIN ups' = DOMAIN ups \cup {n0}
        /\ \A n \in DOMAIN ups' : (ups'[n] = u /\ n = n0) \/ (n \in DOMAIN ups /\ ups'[n] = ups[n])
        /\ r0 = 0 => ups'[n0] = u
    <3>1. CASE r0 # 0 /\ n0 \in DOMAIN ups
      BY <1>7, <3>1 DEF Build!SetNew
    <3>2. CASE ~(r0 # 0 /\ n0 \in DOMAIN ups)
      <4>1. ups' = Build!Set(ups, n0, u)
        BY <1>7, <3>2 DEF Build!SetNew
      <4> QED
        BY <4>1 DEF Build!Set
    <3> QED
      BY <3>1, <3>2
  <2>2. n0 # Build!DefUps
    BY NamesDiffer
  <2>3. Build!DefUps \in DOMAIN ups' /\ ~ups'[Build!DefUps].noServer
    BY <2>1, <2>2 DEF UpstreamsOK
  <2>4. \A n \in DOMAIN ups' : UpstreamOK(ups'[n], n)
    BY <1>7, <2>1 DEF UpstreamsOK
  <2>5. \A k, r, p : Made(k, r, p)' => Build!upstreamName(ServiceOf(k, r, p)) \in DOMAIN ups'
    BY <1>2, <1>5, <2>1 DEF UpstreamsOK, Early
  <2>6. ASSUME Build!Apart, NEW k, Made(k, 0, 0)', ~ings[k].ann.canary
        PROVE  ~ups'[Build!upstreamName(ings[k].def)].noServer
    <3> DEFINE n == Build!upstreamName(ings[k].def)
    <3>1. n = Build!upstreamName(ServiceOf(k, 0, 0))
      BY DEF ServiceOf
    <3>2. CASE r0 = 0 /\ n = n0
      <4>1. HasService(k, 0, 0)
        BY <1>2, <2>6, ListStays DEF Made
      <4>2. IsDefault(n0)
        BY <2>6, <3>2, <4>1 DEF IsDefault
      <4>3. ~ings[k0].ann.canary
        BY <1>7, <4>2, ApartAt, <2>6
      <4> QED
        BY <1>7, <2>1, <3>2, <4>3
    <3>3. CASE ~(r0 = 0 /\ n = n0)
      <4>1. Made(k, 0, 0)
        BY <1>5, <2>6, <3>1, <3>3
      <4>2. n \in DOMAIN ups /\ ~ups[n].noServer
        BY <1>2, <2>6, <3>1, <4>1 DEF UpstreamsOK, Early
      <4>3. ups'[n] = ups[n]
        BY <1>7, <2>1, <3>3, <4>2, SetValue DEF Build!SetNew
      <4> QED
        BY <4>2, <4>3
    <3> QED
      BY <3>2, <3>3
  <2> QED
    BY <1>2, <2>3, <2>4, <2>5, <2>6, ListStays DEF UpstreamsOK
<1>8. CASE Build!AtIngress /\ Build!Current.def # None
  <2>1. HasService(k0, r0, p0) /\ r0 = 0 /\ p0 = 0 /\ ServiceOf(k0, r0, p0) = Build!Current.def
    BY <1>1, <1>8, Here DEF Build!AtIngress, ServiceOf, Build!Current
  <2>2. ups' = Build!Set(ups, n0, Build!DefaultUpstream(Build!Current))
    BY <1>8, <2>1 DEF Build!createUpstreams
  <2>3. /\ UpstreamOK(Build!DefaultUpstream(Build!Current), n0)
        /\ Build!DefaultUpstream(Build!Current).noServer = ings[k0].ann.canary
    <3> DEFINE u == Build!DefaultUpstream(Build!Current)
    <3>1. DOMAIN u = UpstreamFields /\ u.name = n0 /\ u.noServer = ings[k0].ann.canary /\ u.alts = <<>>
      BY <2>1 DEF Build!DefaultUpstream, Build!newUpstream, Build!Current, UpstreamFields
    <3> HIDE DEF u
    <3>2. UpstreamOK(u, n0)
      BY <2>1, <3>1, MadeUpstream
    <3> QED
      BY <3>1, <3>2 DEF u
  <2> QED
    BY <1>3, <1>7, <2>1, <2>2, <2>3
<1>9. CASE Build!AtService
  <2>1. /\ HasService(k0, r0, p0) /\ r0 # 0 /\ ServiceOf(k0, r0, p0) = Build!Path.svc
        /\ ~Build!AtIngress
    BY <1>1, <1>9, Here
  <2>2. ups' = Build!SetNew(ups, n0, Build!PathUpstream(Build!Current, Build!Path.svc))
    BY <1>9, <2>1 DEF Build!createUpstreams
  <2>3. /\ UpstreamOK(Build!PathUpstream(Build!Current, Build!Path.svc), n0)
        /\ Build!PathUpstream(Build!Current, Build!Path.svc).noServer = ings[k0].ann.canary
    <3> DEFINE u == Build!PathUpstream(Build!Current, Build!Path.svc)
    <3>1. DOMAIN u = UpstreamFields /\ u.name = n0 /\ u.noServer = ings[k0].ann.canary /\ u.alts = <<>>
      BY <2>1 DEF Build!PathUpstream, Build!newUpstream, Build!Current, UpstreamFields
    <3> HIDE DEF u
    <3>2. UpstreamOK(u, n0)
      BY <2>1, <3>1, MadeUpstream
    <3> QED
      BY <3>1, <3>2 DEF u
  <2> QED
    BY <1>3, <1>7, <2>1, <2>2, <2>3
<1> QED
  BY <1>1, <1>3, <1>6, <1>8, <1>9, Here

\* The upstreams after a step that makes none.
LEMMA UpstreamsKept ==
  ASSUME OfBuild, PlaceOK, UpstreamsOK, ings' = ings,
         Early' => Early /\ DOMAIN ups' = DOMAIN ups
                   /\ \A k, r, p : Made(k, r, p)' => Made(k, r, p),
         Build!DefUps \in DOMAIN ups',
         \A n \in DOMAIN ups' : /\ n \in DOMAIN ups /\ UpstreamOK(ups'[n], n)
                                /\ ups'[n].noServer = ups[n].noServer
  PROVE  UpstreamsOK'
<1>1. (\A n \in DOMAIN ups : UpstreamOK(ups[n], n))'
  BY ListStays
<1>2. ASSUME Early'
      PROVE  \A k, r, p : Made(k, r, p)' => Build!upstreamName(ServiceOf(k, r, p)') \in DOMAIN ups'
  BY <1>2, ListStays DEF UpstreamsOK
<1>3. ASSUME Early', Build!Apart', NEW k, Made(k, 0, 0)', ~ings'[k].ann.canary
      PROVE  ~ups'[Build!upstreamName(ings'[k].def)].noServer
  <2>1. Made(k, 0, 0) /\ Early /\ DOMAIN ups' = DOMAIN ups
    BY <1>3
  <2>2. Build!upstreamName(ings[k].def) \in DOMAIN ups
    BY <2>1 DEF UpstreamsOK, ServiceOf
  <2> QED
    BY <1>3, <2>1, <2>2, ListStays DEF UpstreamsOK
<1> QED
  BY <1>1, <1>2, <1>3 DEF UpstreamsOK

LEMMA AffinityKeeps ==
  ASSUME NEW u, NEW n, UpstreamOK(u, n), NEW g, NEW p, NEW hosts
  PROVE  /\ UpstreamOK(Build!WithAffinity(u, g, p, hosts), n)
         /\ Build!WithAffinity(u, g, p, hosts).noServer = u.noServer
<1> DEFINE v == Build!WithAffinity(u, g, p, hosts)
<1>1. DOMAIN u = UpstreamFields
  BY DEF UpstreamOK
<1>2. DOMAIN v = UpstreamFields /\ v.name = u.name /\ v.noServer = u.noServer /\ v.alts = u.alts
  BY <1>1 DEF Build!WithAffinity, UpstreamFields
<1> HIDE DEF v
<1>3. UpstreamOK(v, n) /\ v.noServer = u.noServer
  BY <1>2 DEF UpstreamOK
<1> QED
  BY <1>3 DEF v

LEMMA PlaceKeepsUpstreams ==
  ASSUME OfBuild, PlaceOK, UpstreamsOK, UNCHANGED setup, Build!placeLocations
  PROVE  /\ PlaceOK' /\ UpstreamsOK'
         /\ DOMAIN ups' = DOMAIN ups
         /\ \A n \in DOMAIN ups : ups'[n].noServer = ups[n].noServer
<1>1. Build!Visit("locations") /\ Build!Visiting("locations")
  BY DEF Build!placeLocations, Build!Visit
<1>2. phase = "locations" /\ phase' = phase /\ ings' = ings
  BY <1>1 DEF Build!Visit, Build!Visiting
<1>3. PlaceOK'
  BY <1>1, OnePassed
<1>4. \A k, r, p : Made(k, r, p)' => Made(k, r, p)
  BY <1>2, ListStays DEF Made
<1>5. Early /\ Early' /\ Build!DefUps \in DOMAIN ups
  BY <1>2 DEF Early, UpstreamsOK
<1>6. CASE ~Build!Placed
  <2>1. ups' = ups
    BY <1>6 DEF Build!placeLocations
  <2> QED
    BY <1>2, <1>3, <1>4, <1>5, <2>1, UpstreamsKept DEF UpstreamsOK
<1>7. CASE Build!Placed
  <2> DEFINE n == Build!upstreamName(Build!Path.svc)
  <2>1. PICK hosts : ups' = [ups EXCEPT ![n] =
                               Build!WithAffinity(@, Build!Current, Build!Path, hosts)]
    BY <1>7 DEF Build!placeLocations
  <2> HIDE DEF n
  <2>2. DOMAIN ups' = DOMAIN ups
    BY <2>1
  <2>3. \A m \in DOMAIN ups : /\ m # n => ups'[m] = ups[m]
                              /\ m = n => ups'[m] = Build!WithAffinity(ups[m], Build!Current, Build!Path, hosts)
    BY <2>1
  <2>4. \A m \in DOMAIN ups : UpstreamOK(ups'[m], m) /\ ups'[m].noServer = ups[m].noServer
    BY <2>3, AffinityKeeps DEF UpstreamsOK
  <2> QED
    BY <1>2, <1>3, <1>4, <1>5, <2>2, <2>4, UpstreamsKept
<1> QED
  BY <1>6, <1>7

\* What the pass over the canaries does to the upstreams: an alternative goes only when
\* no location of its host sends requests to it.
LEMMA MergeEffect ==
  ASSUME OfBuild, PlaceOK, UpstreamsOK, NEW s, NEW locs, IsSeq(locs),
         Build!upstreamName(s) \in DOMAIN ups,
         ups' = Build!mergeAlternativeBackends(Build!upstreamName(s), locs)
  PROVE  /\ Build!DefUps \in DOMAIN ups'
         /\ \A n \in DOMAIN ups' : /\ n \in DOMAIN ups /\ UpstreamOK(ups'[n], n)
                                   /\ ups'[n].noServer = ups[n].noServer
         /\ \A n \in DOMAIN ups \ DOMAIN ups' :
              n = Build!upstreamName(s) /\ \A k \in DOMAIN locs : locs[k].backend # n
<1> DEFINE new == Build!upstreamName(s)
<1>1. new # Build!DefUps /\ new[1] = "svc" /\ new \in DOMAIN ups
  BY NamesDiffer
<1> HIDE DEF new
<1>2. \A n \in DOMAIN ups : UpstreamOK(ups[n], n) /\ DOMAIN ups[n] = UpstreamFields /\ ups[n].name = n
  BY DEF UpstreamsOK, UpstreamOK
<1>3. ups' = Build!mergeAlternativeBackends(new, locs)
  BY DEF new
<1>4. CASE Build!Primaries(new, locs) = {} /\ Build!LocationsBefore(locs, new) = DOMAIN locs
  <2>1. ups' = [n \in DOMAIN ups \ {new} |-> ups[n]]
    BY <1>3, <1>4 DEF Build!mergeAlternativeBackends
  <2>2. ASSUME NEW k \in DOMAIN locs
        PROVE  locs[k].backend # new
    <3>1. \A j \in 1 .. k : locs[j].backend # new
      BY <1>4, <2>2 DEF Build!LocationsBefore
    <3>2. k \in 1 .. k
      BY SeqIsList
    <3> QED
      BY <3>1, <3>2
  <2> QED
    BY <1>1, <1>2, <2>1, <2>2 DEF UpstreamsOK, new
<1>5. CASE ~(Build!Primaries(new, locs) = {} /\ Build!LocationsBefore(locs, new) = DOMAIN locs)
  <2> DEFINE hits  == Build!Primaries(new, locs)
             fresh == {k \in hits : /\ new \notin Build!ToSet(ups[locs[k].backend].alts)
                                    /\ \A j \in hits : locs[j].backend = locs[k].backend => k <= j}
             pri   == ups[locs[Build!Max(fresh)].backend]
             Listing(n) == \E k \in fresh : locs[k].backend = n
             Sharing(n) == n = new /\ fresh # {} /\ ~Build!Current.ann.legacyAffinity
  <2>1. ups' = [n \in DOMAIN ups |->
                  IF Listing(n) THEN [ups[n] EXCEPT !.alts = Append(@, new)]
                  ELSE IF Sharing(n) THEN [ups[n] EXCEPT !.aff = pri.aff, !.cookie = pri.cookie]
                  ELSE ups[n]]
    BY <1>3, <1>5 DEF Build!mergeAlternativeBackends, Build!mergeAlternativeBackend
  <2>2. ASSUME NEW n \in DOMAIN ups, Listing(n)
        PROVE  n # new /\ n # Build!DefUps /\ ~ups[n].noServer
    BY <1>1, <1>2, <2>2 DEF Build!Primaries, Build!canMergeBackend
  <2> HIDE DEF Listing, Sharing, pri
  <2>3. ASSUME NEW n \in DOMAIN ups
        PROVE  UpstreamOK(ups'[n], n) /\ ups'[n].noServer = ups[n].noServer
    <3>0. DOMAIN ups[n] = UpstreamFields
      BY <1>2
    <3>1. CASE Listing(n)
      <4>1. ups'[n] = [ups[n] EXCEPT !.alts = Append(ups[n].alts, new)]
        BY <2>1, <3>0, <3>1 DEF UpstreamFields
      <4>2. /\ DOMAIN ups'[n] = UpstreamFields /\ ups'[n].name = ups[n].name
            /\ ups'[n].noServer = ups[n].noServer /\ ups'[n].alts = Append(ups[n].alts, new)
        BY <3>0, <4>1 DEF UpstreamFields
      <4>3. IsSeq(ups[n].alts)
        BY <1>2 DEF UpstreamOK
      <4>4. /\ IsSeq(ups'[n].alts)
            /\ \A i \in DOMAIN ups'[n].alts : ups'[n].alts[i] # n /\ ups'[n].alts[i][1] = "svc"
        BY <1>1, <1>2, <2>2, <3>1, <4>2, <4>3, SeqAppend DEF UpstreamOK
      <4> QED
        BY <1>2, <2>2, <3>1, <4>2, <4>4 DEF UpstreamOK
    <3>2. CASE ~Listing(n) /\ Sharing(n)
      <4>1. ups'[n] = [ups[n] EXCEPT !.aff = pri.aff, !.cookie = pri.cookie]
        BY <2>1, <3>2
      <4>2. /\ DOMAIN ups'[n] = UpstreamFields /\ ups'[n].name = ups[n].name
            /\ ups'[n].noServer = ups[n].noServer /\ ups'[n].alts = ups[n].alts
        BY <3>0, <4>1 DEF UpstreamFields
      <4> QED
        BY <1>2, <4>2 DEF UpstreamOK
    <3>3. CASE ~Listing(n) /\ ~Sharing(n)
      BY <1>2, <2>1, <3>3
    <3> QED
      BY <3>1, <3>2, <3>3
  <2>4. DOMAIN ups' = DOMAIN ups
    BY <2>1
  <2> QED
    BY <2>3, <2>4 DEF UpstreamsOK
<1> QED
  BY <1>4, <1>5

-----------------------------------------------------------------------------
(* The servers and their locations *)

ServerFields == {"locs", "aliases", "snippet", "cert", "pass", "ca", "www"}

LocationFields == {"path", "type", "isDef", "backend", "ing", "ann", "customDef"}

\* l is a location at index i as the passes leave it: only the root that comes with a
\* server is a default one.
LocationOK(l, i) ==
  /\ DOMAIN l = LocationFields
  /\ l.customDef = Build!DefUps /\ l.path \in Build!ToSet(LongestFirst) /\ l.isDef \in BOOLEAN
  /\ l.isDef => i = 1 /\ l.path = Root /\ l.type = "Prefix"

ServerOK(s) ==
  /\ DOMAIN s = ServerFields
  /\ IsSeq(s.locs) /\ 1 \in DOMAIN s.locs
  /\ \A i \in DOMAIN s.locs : LocationOK(s.locs[i], i)

\* The upstream n has a server, and may serve host h.
BackendOK(n, h) ==
  /\ n \in DOMAIN ups /\ ~ups[n].noServer
  /\ n = Build!DefUps \/ IsDefault(n) \/ IsServed(n, h)

\* The place is one of an ingress that is no canary, whose host has a server.
Hosted(k, r) ==
  /\ IsPlace(k, r, 0) /\ r # 0 /\ ~ings[k].ann.canary
  /\ phase # "upstreams" /\ (phase = "servers" => Passed(k, r, 0))

ServersOK ==
  /\ DefServer \in DOMAIN servers
  /\ \A h \in DOMAIN servers : ServerOK(servers[h])
  /\ \A k, r : Hosted(k, r) => HostAt(k, r) \in DOMAIN servers
  /\ phase = "upstreams" =>
       \A h \in DOMAIN servers : \A i \in DOMAIN servers[h].locs :
          servers[h].locs[i].backend = Build!DefUps
  /\ Build!Apart =>
       \A h \in DOMAIN servers : \A i \in DOMAIN servers[h].locs :
          BackendOK(servers[h].locs[i].backend, h)

LEMMA LeastIndex ==
  ASSUME NEW I, I \subseteq Nat, I # {}
  PROVE  /\ Build!Min(I) \in I
         /\ \A i \in I : Build!Min(I) <= i
  BY LeastNat DEF Build!Min

LEMMA AnIngressLocation ==
  ASSUME OfBuild, NEW path \in Build!ToSet(LongestFirst), NEW type, NEW isDef \in BOOLEAN,
         NEW n, NEW g, NEW l, l = Build!IngressLocation(path, type, isDef, n, g)
  PROVE  /\ DOMAIN l = LocationFields
         /\ l.path = path /\ l.type = type /\ l.isDef = isDef /\ l.backend = n
         /\ l.ing = g.name /\ l.customDef = Build!DefUps
BY DEF Build!IngressLocation, Build!locationApplyAnnotations, Build!Location, LocationFields

LEMMA ANewServer ==
  ASSUME NEW l, LocationOK(l, 1), NEW passthrough, NEW s, s = Build!newServer(l, passthrough)
  PROVE  /\ ServerOK(s) /\ s.locs = <<l>> /\ s.aliases = {} /\ s.cert = None
         /\ DOMAIN s.locs = {1} /\ s.locs[1] = l
<1>1. DOMAIN s = ServerFields /\ s.locs = <<l>> /\ s.aliases = {} /\ s.cert = None
  BY DEF Build!newServer, ServerFields
<1>2. IsSeq(s.locs) /\ DOMAIN s.locs = {1} /\ s.locs[1] = l
  BY <1>1, SeqOne
<1>3. ServerOK(s)
  BY <1>1, <1>2 DEF ServerOK
<1> QED
  BY <1>1, <1>2, <1>3

LEMMA ServersInit ==
  ASSUME OfBuild, Build!Init, UpstreamsOK
  PROVE  /\ ServersOK
         /\ DOMAIN servers = {DefServer}
         /\ servers[DefServer].cert = "default" /\ servers[DefServer].aliases = {}
         /\ servers[DefServer].locs[1].isDef /\ DOMAIN servers[DefServer].locs = {1}
         /\ servers[DefServer].locs[1].path = Root
         /\ servers[DefServer].locs[1].type = "Prefix"
<1> DEFINE l == Build!Location(Root, "Prefix", TRUE, Build!DefUps)
           s0 == Build!newServer(l, FALSE)
           s == [s0 EXCEPT !.cert = "default"]
<1>1. Root \in Build!ToSet(LongestFirst)
  BY ModelAssumption DEF Build!BuildAssumption
<1>2. /\ DOMAIN l = LocationFields /\ l.path = Root /\ l.type = "Prefix" /\ l.isDef = TRUE
      /\ l.backend = Build!DefUps /\ l.customDef = Build!DefUps
  BY DEF Build!Location, LocationFields
<1> HIDE DEF l
<1>3. LocationOK(l, 1)
  BY <1>1, <1>2 DEF LocationOK
<1> HIDE DEF s0
<1>12. DOMAIN s0 = ServerFields /\ s0.locs = <<l>> /\ s0.aliases = {}
  BY DEF s0, Build!newServer, ServerFields
<1>4. /\ ServerOK(s0) /\ s0.aliases = {} /\ DOMAIN s0.locs = {1} /\ s0.locs[1] = l
  <2>1. IsSeq(s0.locs) /\ DOMAIN s0.locs = {1} /\ s0.locs[1] = l
    BY <1>12, SeqOne
  <2> QED
    BY <1>3, <1>12, <2>1 DEF ServerOK
<1>5. /\ DOMAIN s = ServerFields /\ s.locs = s0.locs /\ s.aliases = s0.aliases /\ s.cert = "default"
  BY <1>4 DEF ServerOK, ServerFields
<1>6. servers = [h \in {DefServer} |-> s]
  BY DEF Build!Init, Build!DefaultServer, s0, l
<1> HIDE DEF s
<1>7. DOMAIN servers = {DefServer} /\ servers[DefServer] = s
  BY <1>6
<1>8. ServerOK(s)
  BY <1>4, <1>5 DEF ServerOK
<1>9. BackendOK(Build!DefUps, DefServer)
  BY DEF BackendOK, UpstreamsOK
<1>10. phase = "upstreams"
  BY DEF Build!Init
<1>11. ServersOK
  BY <1>2, <1>4, <1>5, <1>7, <1>8, <1>9, <1>10 DEF ServersOK, Hosted
<1> QED
  BY <1>2, <1>4, <1>5, <1>7, <1>11

\* Before the paths are placed, a server has its root alone, and the default server's is
\* taken over by ingresses without rules only.
SomeCatchAll == \E k \in DOMAIN ings : Build!IsCatchAll(ings[k])

RootsOnly ==
  phase \in {"upstreams", "servers", "tls"} =>
    \A h \in DOMAIN servers :
      LET locs == servers[h].locs
      IN /\ DOMAIN locs = {1} /\ locs[1].path = Root /\ locs[1].type = "Prefix"
         /\ ~locs[1].isDef => h = DefServer /\ SomeCatchAll

LEMMA CatchAllEffect ==
  ASSUME NEW l, NEW i, LocationOK(l, i), NEW g
  PROVE  LET m == Build!CatchAll(l, g)
         IN /\ LocationOK(m, i)
            /\ m.path = l.path /\ m.type = l.type /\ m.backend = Build!upstreamName(g.def)
            /\ m.isDef # l.isDef => g.rules = <<>> /\ l.isDef
<1> DEFINE m == [l EXCEPT !.backend = Build!upstreamName(g.def), !.ing = g.name]
<1>1. /\ DOMAIN m = LocationFields /\ m.path = l.path /\ m.type = l.type /\ m.isDef = l.isDef
      /\ m.backend = Build!upstreamName(g.def) /\ m.customDef = l.customDef
  BY DEF LocationOK, LocationFields
<1>2. Build!CatchAll(l, g) =
        IF l.isDef /\ g.rules = <<>>
        THEN [Build!locationApplyAnnotations(m, g) EXCEPT !.isDef = FALSE, !.ann.rewrite = "no"]
        ELSE m
  BY DEF Build!CatchAll
<1> HIDE DEF m
<1>3. CASE l.isDef /\ g.rules = <<>>
  <2> DEFINE a == Build!locationApplyAnnotations(m, g)
             c == [a EXCEPT !.isDef = FALSE, !.ann.rewrite = "no"]
  <2>1. /\ DOMAIN a = LocationFields /\ a.path = l.path /\ a.type = l.type
        /\ a.backend = Build!upstreamName(g.def) /\ a.customDef = Build!DefUps
    BY <1>1 DEF Build!locationApplyAnnotations, LocationFields
  <2> HIDE DEF a
  <2>2. /\ DOMAIN c = LocationFields /\ c.path = l.path /\ c.type = l.type /\ c.isDef = FALSE
        /\ c.backend = Build!upstreamName(g.def) /\ c.customDef = Build!DefUps
    BY <2>1 DEF LocationFields
  <2>3. Build!CatchAll(l, g) = c
    BY <1>2, <1>3 DEF a
  <2> HIDE DEF c
  <2> QED
    BY <1>3, <2>2, <2>3 DEF LocationOK
<1>4. CASE ~(l.isDef /\ g.rules = <<>>)
  BY <1>1, <1>2, <1>4 DEF LocationOK
<1> QED
  BY <1>3, <1>4

\* The default backend of an ingress that is no canary, or the default upstream.
LEMMA DefaultBackend ==
  ASSUME OfBuild, PlaceOK, UpstreamsOK, phase = "servers", at.ing <= Len(ings),
         ~Build!Current.ann.canary, NEW h, Build!Apart
  PROVE  /\ BackendOK(Build!DefaultOf(Build!Current), h)
         /\ Build!Current.def # None => BackendOK(Build!upstreamName(Build!Current.def), h)
<1>1. CASE Build!Current.def = None
  BY <1>1 DEF Build!DefaultOf, BackendOK, UpstreamsOK
<1>2. CASE Build!Current.def # None
  <2> DEFINE n == Build!upstreamName(Build!Current.def)
  <2>1. at.ing \in 1 .. Len(ings) /\ Len(ings[at.ing].rules) \in Nat
    BY ListsOfIngresses DEF PlaceOK, IsPlace, Build!IsList, Build!IsIngress
  <2>2. HasService(at.ing, 0, 0)
    <3>1. \A m \in Nat : 0 \in 0 .. m
      OBVIOUS
    <3> QED
      BY <1>2, <2>1, <3>1 DEF HasService, IsPlace, ServiceOf, Build!Current
  <2>3. Made(at.ing, 0, 0)
    BY <2>2 DEF Made
  <2>4. n = Build!upstreamName(ServiceOf(at.ing, 0, 0))
    BY DEF ServiceOf, Build!Current
  <2>5. n \in DOMAIN ups /\ ~ups[n].noServer
    BY <2>3, <2>4 DEF UpstreamsOK, Early, Build!Current
  <2>6. IsDefault(n)
    BY <2>2 DEF IsDefault, Build!Current
  <2> QED
    BY <1>2, <2>5, <2>6 DEF Build!DefaultOf, BackendOK
<1> QED
  BY <1>1, <1>2

LEMMA BackendsStay ==
  ASSUME ings' = ings, ups' = ups
  PROVE  \A n, h : BackendOK(n, h)' = BackendOK(n, h)
BY ListStays DEF BackendOK

LEMMA CreateServer ==
  ASSUME OfBuild, PlaceOK, UpstreamsOK, ServersOK, RootsOnly, UNCHANGED setup, Build!createServers
  PROVE  PlaceOK' /\ UpstreamsOK' /\ ServersOK' /\ RootsOnly'
<1>1. Build!Visit("servers") /\ Build!Visiting("servers")
  BY DEF Build!createServers, Build!Visit
<1>2. phase = "servers" /\ phase' = phase /\ ings' = ings /\ ups' = ups /\ at.ing <= Len(ings)
  BY <1>1 DEF Build!createServers, Build!Visit, Build!Visiting
<1>3. /\ PlaceOK'
      /\ IsPlace(at.ing, at.rule, at.path)
      /\ \A k, r, p : IsPlace(k, r, p)' = IsPlace(k, r, p)
      /\ \A k, r, p : IsPlace(k, r, p) =>
           (Passed(k, r, p)' <=> Passed(k, r, p) \/ IsAt(k, r, p))
  BY <1>1, OnePassed
<1>4. UpstreamsOK'
  BY <1>2, ListStays, UpstreamsKept DEF UpstreamsOK, Made, Early
<1>5. /\ \A n, h : BackendOK(n, h)' = BackendOK(n, h)
      /\ SomeCatchAll' = SomeCatchAll /\ Build!Apart' = Build!Apart
      /\ \A k, r : HostAt(k, r)' = HostAt(k, r)
  BY <1>2, BackendsStay, ListStays DEF SomeCatchAll
<1>6. ASSUME NEW k, NEW r, Hosted(k, r)'
      PROVE  Hosted(k, r) \/ (k = at.ing /\ r = at.rule /\ Build!AtRule /\ ~Build!Current.ann.canary)
  <2>1. IsPlace(k, r, 0) /\ r # 0 /\ ~ings[k].ann.canary /\ (Passed(k, r, 0) \/ IsAt(k, r, 0))
    BY <1>2, <1>3, <1>6 DEF Hosted
  <2> QED
    BY <1>2, <2>1 DEF Hosted, IsAt, Build!PlaceAt, Build!AtRule, Build!Current
\* The servers as one case leaves them.
<1>7. ASSUME DefServer \in DOMAIN servers', DOMAIN servers \subseteq DOMAIN servers',
             Build!AtRule /\ ~Build!Current.ann.canary => Build!Host \in DOMAIN servers',
             \A h \in DOMAIN servers' :
                /\ ServerOK(servers'[h])
                /\ DOMAIN servers'[h].locs = {1} /\ servers'[h].locs[1].path = Root
                /\ servers'[h].locs[1].type = "Prefix"
                /\ ~servers'[h].locs[1].isDef => h = DefServer /\ SomeCatchAll
                /\ Build!Apart => BackendOK(servers'[h].locs[1].backend, h)
      PROVE  ServersOK' /\ RootsOnly'
  <2>1. \A k, r : Hosted(k, r)' => HostAt(k, r) \in DOMAIN servers'
    BY <1>6, <1>7 DEF ServersOK, HostAt, Build!Host, Build!Rule, Build!Current, Build!AtRule
  <2>2. (\A h \in DOMAIN servers : ServerOK(servers[h]))'
    BY <1>7 DEF ServerOK, LocationOK
  <2>3. (Build!Apart => \A h \in DOMAIN servers : \A i \in DOMAIN servers[h].locs :
                          BackendOK(servers[h].locs[i].backend, h))'
    BY <1>5, <1>7
  <2> QED
    BY <1>2, <1>5, <1>7, <2>1, <2>2, <2>3 DEF ServersOK, RootsOnly
<1>8. ASSUME NEW h \in DOMAIN servers
      PROVE  /\ ServerOK(servers[h])
             /\ DOMAIN servers[h].locs = {1} /\ servers[h].locs[1].path = Root
             /\ servers[h].locs[1].type = "Prefix"
             /\ ~servers[h].locs[1].isDef => h = DefServer /\ SomeCatchAll
             /\ Build!Apart => BackendOK(servers[h].locs[1].backend, h)
  BY <1>2 DEF ServersOK, RootsOnly
<1>9. CASE servers' = servers /\ ~(Build!AtRule /\ ~Build!Current.ann.canary)
  BY <1>3, <1>4, <1>7, <1>8, <1>9 DEF ServersOK
<1>10. CASE ~Build!Current.ann.canary /\ Build!AtIngress /\ Build!Current.def # None
  <2> DEFINE l == servers[DefServer].locs[1]
             m == Build!CatchAll(l, Build!Current)
  <2>1. servers' = [servers EXCEPT ![DefServer].locs[1] = m]
    BY <1>10 DEF Build!createServers
  <2>2. DefServer \in DOMAIN servers /\ DOMAIN servers' = DOMAIN servers
    BY <2>1 DEF ServersOK
  <2>3. LocationOK(l, 1)
    BY <1>8, <2>2 DEF ServerOK
  <2>4. /\ LocationOK(m, 1)
        /\ m.path = l.path /\ m.type = l.type /\ m.backend = Build!upstreamName(Build!Current.def)
        /\ m.isDef # l.isDef => Build!Current.rules = <<>> /\ l.isDef
    BY <2>3, CatchAllEffect
  <2>5. m.isDef # l.isDef => SomeCatchAll
    <3>1. at.ing \in DOMAIN ings
      BY <1>3, ListsOfIngresses DEF IsPlace, Build!IsList
    <3> QED
      BY <1>10, <2>4, <3>1 DEF SomeCatchAll, Build!IsCatchAll, Build!Current
  <2>6. Build!Apart => BackendOK(m.backend, DefServer)
    BY <1>2, <1>10, <2>4, DefaultBackend
  <2> HIDE DEF m, l
  <2>7. DOMAIN servers[DefServer] = ServerFields /\ DOMAIN servers[DefServer].locs = {1}
        /\ IsSeq(servers[DefServer].locs)
    BY <1>8, <2>2 DEF ServerOK
  <2>8. /\ DOMAIN servers'[DefServer] = ServerFields
        /\ servers'[DefServer].locs = [servers[DefServer].locs EXCEPT ![1] = m]
        /\ \A h \in DOMAIN servers : h # DefServer => servers'[h] = servers[h]
    BY <2>1, <2>2, <2>7 DEF ServerFields
  <2>9. /\ IsSeq(servers'[DefServer].locs) /\ DOMAIN servers'[DefServer].locs = {1}
        /\ servers'[DefServer].locs[1] = m
    BY <2>7, <2>8, SeqUpdate
  <2>10. ServerOK(servers'[DefServer])
    BY <2>4, <2>8, <2>9 DEF ServerOK
  <2>11. l.isDef \/ SomeCatchAll
    BY <1>8, <2>2 DEF l
  <2>12. l.path = Root /\ l.type = "Prefix"
    BY <1>8, <2>2 DEF l
  <2>13. m.isDef \in BOOLEAN /\ l.isDef \in BOOLEAN
    BY <2>3, <2>4 DEF LocationOK
  <2>14. ~(Build!AtRule /\ ~Build!Current.ann.canary)
    BY <1>10 DEF Build!AtRule, Build!AtIngress
  <2> QED
    BY <1>3, <1>4, <1>7, <1>8, <2>2, <2>4, <2>5, <2>6, <2>8, <2>9, <2>10, <2>11, <2>12, <2>13, <2>14
<1>11. CASE ~Build!Current.ann.canary /\ Build!AtRule
  <2> DEFINE l == Build!RootLocation(Build!Current)
             s == Build!newServer(l, Build!Current.ann.passthrough)
  <2>1. servers' = Build!SetNew(servers, Build!Host, s)
    BY <1>11 DEF Build!createServers, Build!AtRule, Build!AtIngress
  <2>2. /\ DOMAIN l = LocationFields
        /\ l.path = Root /\ l.type = "Prefix" /\ l.isDef = TRUE
        /\ l.backend = Build!DefaultOf(Build!Current) /\ l.customDef = Build!DefUps
    BY DEF Build!RootLocation, Build!IngressLocation, Build!locationApplyAnnotations,
       Build!Location, LocationFields
  <2>3. Root \in Build!ToSet(LongestFirst)
    BY ModelAssumption DEF Build!BuildAssumption
  <2> HIDE DEF l
  <2>8. LocationOK(l, 1)
    BY <2>2, <2>3 DEF LocationOK
  <2>4. ServerOK(s) /\ s.locs = <<l>> /\ DOMAIN s.locs = {1} /\ s.locs[1] = l
    BY <2>8, ANewServer
  <2>5. Build!Apart => BackendOK(l.backend, Build!Host)
    BY <1>2, <1>11, <2>2, DefaultBackend
  <2> HIDE DEF s
  <2>6. CASE Build!Host \in DOMAIN servers
    <3>1. servers' = servers
      BY <2>1, <2>6 DEF Build!SetNew
    <3> QED
      BY <1>3, <1>4, <1>7, <1>8, <2>6, <3>1 DEF ServersOK
  <2>7. CASE Build!Host \notin DOMAIN servers
    <3>1. servers' = Build!Set(servers, Build!Host, s)
      BY <2>1, <2>7 DEF Build!SetNew
    <3>2. /\ DOMAIN servers' = DOMAIN servers \cup {Build!Host}
          /\ servers'[Build!Host] = s
          /\ \A h \in DOMAIN servers : servers'[h] = servers[h]
      BY <2>7, <3>1 DEF Build!Set
    <3> QED
      BY <1>3, <1>4, <1>7, <1>8, <2>2, <2>4, <2>5, <3>2 DEF ServersOK
  <2> QED
    BY <2>6, <2>7
<1> QED
  <2>1. CASE Build!Current.ann.canary
    BY <1>3, <1>4, <1>9, <2>1 DEF Build!createServers
  <2>2. CASE ~Build!Current.ann.canary /\ ~Build!AtRule /\ ~(Build!AtIngress /\ Build!Current.def # None)
    <3>1. servers' = servers
      BY <2>2 DEF Build!createServers
    <3> QED
      BY <1>3, <1>4, <1>9, <2>2, <3>1
  <2> QED
    BY <1>3, <1>4, <1>10, <1>11, <2>1, <2>2

\* The servers after a step that changes no location and makes no server.
LEMMA ServersKept ==
  ASSUME OfBuild, ServersOK, RootsOnly, ings' = ings,
         phase' = "upstreams" => phase = "upstreams",
         phase' \in {"upstreams", "servers", "tls"} => phase \in {"upstreams", "servers", "tls"},
         DOMAIN servers' = DOMAIN servers,
         \A h \in DOMAIN servers : /\ DOMAIN servers'[h] = ServerFields
                                   /\ servers'[h].locs = servers[h].locs,
         \A k, r : Hosted(k, r)' => Hosted(k, r) \/ HostAt(k, r) \in DOMAIN servers,
         Build!Apart => \A h \in DOMAIN servers : \A i \in DOMAIN servers[h].locs :
                          BackendOK(servers[h].locs[i].backend, h)
                            => (\A n : n = servers[h].locs[i].backend => BackendOK(n, h))'
  PROVE  ServersOK' /\ RootsOnly'
<1>1. /\ \A k, r : HostAt(k, r)' = HostAt(k, r)
      /\ Build!Apart' = Build!Apart /\ SomeCatchAll' = SomeCatchAll
  BY ListStays DEF SomeCatchAll
<1>2. (\A h \in DOMAIN servers : ServerOK(servers[h]))'
  BY DEF ServersOK, ServerOK, LocationOK
<1> QED
  BY <1>1, <1>2 DEF ServersOK, RootsOnly

LEMMA UpstreamsKeepServers ==
  ASSUME OfBuild, PlaceOK, UpstreamsOK', ServersOK, RootsOnly, UNCHANGED setup,
         Build!createUpstreams
  PROVE  ServersOK' /\ RootsOnly'
<1>1. /\ phase = "upstreams" /\ phase' = phase /\ ings' = ings /\ servers' = servers
  BY DEF Build!createUpstreams, Build!Visit, Build!Visiting
<1>2. \A k, r : ~Hosted(k, r)'
  BY <1>1 DEF Hosted
<1>3. ASSUME NEW h, NEW n, n = Build!DefUps
      PROVE  BackendOK(n, h)'
  BY <1>3 DEF BackendOK, UpstreamsOK
<1>4. \A h \in DOMAIN servers : \A i \in DOMAIN servers[h].locs :
        (\A n : n = servers[h].locs[i].backend => BackendOK(n, h))'
  BY <1>1, <1>3 DEF ServersOK
<1>5. \A h \in DOMAIN servers : DOMAIN servers[h] = ServerFields
  BY DEF ServersOK, ServerOK
<1> QED
  BY <1>1, <1>2, <1>4, <1>5, ServersKept

\* Client certificate settings, and those of the second pass, leave the locations alone.
LEMMA AuthOnly ==
  ASSUME NEW s, DOMAIN s = ServerFields, NEW g
  PROVE  /\ DOMAIN Build!WithAuth(s, g) = ServerFields
         /\ Build!WithAuth(s, g).locs = s.locs /\ Build!WithAuth(s, g).aliases = s.aliases
         /\ Build!WithAuth(s, g).cert = s.cert
BY DEF Build!WithAuth, ServerFields

LEMMA SettingsOnly ==
  ASSUME NEW s, DOMAIN s = ServerFields, NEW g, NEW h
  PROVE  /\ DOMAIN Build!ConfigureServer(s, g, h) = ServerFields
         /\ Build!ConfigureServer(s, g, h).locs = s.locs
         /\ Build!ConfigureServer(s, g, h).aliases = IF s.aliases = {} THEN g.ann.aliases ELSE s.aliases
         /\ Build!ConfigureServer(s, g, h).cert =
              IF s.cert # None \/ g.tls = <<>> THEN s.cert ELSE Build!CertFor(g, h)
BY DEF Build!ConfigureServer, ServerFields

LEMMA ConfigureKeeps ==
  ASSUME OfBuild, PlaceOK, UpstreamsOK, ServersOK, RootsOnly, UNCHANGED setup,
         Build!configureServers
  PROVE  /\ PlaceOK' /\ UpstreamsOK' /\ ServersOK' /\ RootsOnly'
         /\ DOMAIN servers' = DOMAIN servers
<1>1. Build!Visit("tls")
  BY DEF Build!configureServers
<1>2. phase = "tls" /\ phase' = phase /\ ings' = ings /\ ups' = ups
  BY <1>1 DEF Build!configureServers, Build!Visit, Build!Visiting
<1>3. PlaceOK' /\ \A k, r, p : IsPlace(k, r, p)' = IsPlace(k, r, p)
  BY <1>1, OnePassed
<1>4. UpstreamsOK'
  BY <1>2, ListStays, UpstreamsKept DEF UpstreamsOK, Made, Early
<1>5. \A k, r : Hosted(k, r)' => Hosted(k, r)
  BY <1>2, <1>3 DEF Hosted
<1>6. \A h \in DOMAIN servers : DOMAIN servers[h] = ServerFields
  BY DEF ServersOK, ServerOK
<1>7. /\ DOMAIN servers' = DOMAIN servers
      /\ \A h \in DOMAIN servers : /\ DOMAIN servers'[h] = ServerFields
                                   /\ servers'[h].locs = servers[h].locs
  <2>1. CASE servers' = servers
    BY <1>6, <2>1
  <2>2. CASE servers' = [servers EXCEPT ![Build!Host] =
                           Build!ConfigureServer(servers[Build!Host], Build!Current, Build!Host)]
    <3>1. \A h \in DOMAIN servers :
            servers'[h] = IF h = Build!Host
                          THEN Build!ConfigureServer(servers[Build!Host], Build!Current, Build!Host)
                          ELSE servers[h]
      BY <2>2
    <3> QED
      BY <1>6, <2>2, <3>1, SettingsOnly
  <2> QED
    BY <2>1, <2>2 DEF Build!configureServers
<1>8. \A n, h : BackendOK(n, h)' = BackendOK(n, h)
  BY <1>2, BackendsStay
<1> QED
  BY <1>2, <1>3, <1>4, <1>5, <1>7, <1>8, ServersKept

LEMMA PassKeeps ==
  ASSUME OfBuild, PlaceOK, UpstreamsOK, ServersOK, RootsOnly, UNCHANGED setup,
         Build!dropAliases \/ Build!NextPass
  PROVE  /\ PlaceOK' /\ UpstreamsOK' /\ ServersOK' /\ RootsOnly'
         /\ DOMAIN servers' = DOMAIN servers
<1>1. PICK q, t : /\ Build!EndPass(q, t)
                  /\ <<q, t>> \in {<<"upstreams", "servers">>, <<"servers", "tls">>,
                                   <<"tls", "locations">>, <<"locations", "canary">>}
  BY DEF Build!dropAliases, Build!NextPass
<1>2. /\ phase = q /\ phase' = t /\ ings' = ings /\ ups' = ups
  BY <1>1 DEF Build!EndPass, Build!dropAliases, Build!NextPass
<1>3. /\ PlaceOK'
      /\ \A k, r, p : IsPlace(k, r, p)' = IsPlace(k, r, p)
      /\ \A k, r, p : IsPlace(k, r, p) => Passed(k, r, p) /\ ~Passed(k, r, p)'
  BY <1>1, PassEnds
<1>4. UpstreamsOK'
  <2>1. \A k, r, p : Made(k, r, p)' => Made(k, r, p)
    BY <1>2, <1>3, ListStays DEF Made, HasService
  <2> QED
    BY <1>1, <1>2, <2>1, UpstreamsKept DEF UpstreamsOK, Early
<1>5. \A k, r : Hosted(k, r)' => Hosted(k, r)
  BY <1>1, <1>2, <1>3 DEF Hosted
<1>6. \A h \in DOMAIN servers : DOMAIN servers[h] = ServerFields
  BY DEF ServersOK, ServerOK
<1>7. /\ DOMAIN servers' = DOMAIN servers
      /\ \A h \in DOMAIN servers : /\ DOMAIN servers'[h] = ServerFields
                                   /\ servers'[h].locs = servers[h].locs
  <2>1. CASE servers' = servers
    BY <1>6, <2>1
  <2>2. CASE servers' = [h \in DOMAIN servers |->
                           IF h \in DOMAIN allAliases
                           THEN [servers[h] EXCEPT !.aliases = allAliases[h] \ DOMAIN servers]
                           ELSE servers[h]]
    BY <1>6, <2>2 DEF ServerFields
  <2> QED
    BY <2>1, <2>2 DEF Build!dropAliases, Build!NextPass
<1>8. \A n, h : BackendOK(n, h)' = BackendOK(n, h)
  BY <1>2, BackendsStay
<1> QED
  BY <1>1, <1>2, <1>3, <1>4, <1>5, <1>7, <1>8, ServersKept

LEMMA CanaryKeeps ==
  ASSUME OfBuild, PlaceOK, UpstreamsOK, ServersOK, RootsOnly, UNCHANGED setup,
         Build!mergeCanary
  PROVE  PlaceOK' /\ UpstreamsOK' /\ ServersOK' /\ RootsOnly' /\ servers' = servers
<1>1. Build!Visit("canary") /\ Build!Visiting("canary") /\ servers' = servers
  BY DEF Build!mergeCanary, Build!Visit
<1>2. phase = "canary" /\ phase' = phase /\ ings' = ings
  BY <1>1 DEF Build!Visit, Build!Visiting
<1>3. PlaceOK' /\ \A k, r, p : IsPlace(k, r, p)' = IsPlace(k, r, p)
  BY <1>1, OnePassed
<1>4. \A k, r : Hosted(k, r)' => Hosted(k, r)
  BY <1>2, <1>3 DEF Hosted
<1>5. \A h \in DOMAIN servers : DOMAIN servers[h] = ServerFields
  BY DEF ServersOK, ServerOK
<1>6. ~Early'
  BY <1>2 DEF Early
<1>7. CASE ~Build!Considered
  <2>1. ups' = ups
    BY <1>7 DEF Build!mergeCanary
  <2>2. UpstreamsOK'
    BY <1>2, <1>6, <2>1, UpstreamsKept DEF UpstreamsOK
  <2>3. \A n, h : BackendOK(n, h)' = BackendOK(n, h)
    BY <1>2, <2>1, BackendsStay
  <2> QED
    BY <1>1, <1>2, <1>3, <1>4, <1>5, <2>2, <2>3, ServersKept
<1>8. CASE Build!Considered
  <2> DEFINE s == Build!Alternative
             n == Build!upstreamName(s)
             locs == servers[Build!AltHost].locs
  <2>1. /\ ups' = Build!mergeAlternativeBackends(n, locs) /\ n \in DOMAIN ups
        /\ Build!AltHost \in DOMAIN servers /\ Build!Current.ann.canary /\ s # None
    BY <1>8 DEF Build!mergeCanary, Build!Considered, Build!Merging
  <2>2. IsSeq(locs)
    BY <2>1 DEF ServersOK, ServerOK
  <2>3. /\ Build!DefUps \in DOMAIN ups'
        /\ \A m \in DOMAIN ups' : /\ m \in DOMAIN ups /\ UpstreamOK(ups'[m], m)
                                  /\ ups'[m].noServer = ups[m].noServer
        /\ \A m \in DOMAIN ups \ DOMAIN ups' :
             m = n /\ \A k \in DOMAIN locs : locs[k].backend # m
    BY <2>1, <2>2, MergeEffect
  <2>4. UpstreamsOK'
    BY <1>2, <1>6, <2>3, UpstreamsKept
  <2>5. /\ HasService(at.ing, at.rule, at.path) /\ ings[at.ing].ann.canary
        /\ ServiceOf(at.ing, at.rule, at.path) = s
        /\ HostAt(at.ing, at.rule) = Build!AltHost
    <3>1. CASE Build!AtIngress
      BY <1>1, <2>1, <3>1, Here
      DEF Build!AtIngress, Build!Alternative, Build!AltHost, ServiceOf, HostAt, Build!Current
    <3>2. CASE ~Build!AtIngress
      <4>1. Build!AtService /\ s = Build!Path.svc /\ Build!AltHost = Build!Host
        BY <2>1, <3>2 DEF Build!Alternative, Build!AltHost
      <4> QED
        BY <1>1, <2>1, <4>1, Here DEF Build!Current
    <3> QED
      BY <3>1, <3>2
  <2>6. ASSUME Build!Apart, NEW h, NEW m, BackendOK(m, h), h \in DOMAIN servers,
               NEW i \in DOMAIN servers[h].locs, servers[h].locs[i].backend = m
        PROVE  BackendOK(m, h)'
    <3>1. m \in DOMAIN ups'
      <4>1. SUFFICES ASSUME m \notin DOMAIN ups'
                     PROVE  FALSE
        OBVIOUS
      <4>2. m = n /\ h # Build!AltHost
        BY <2>3, <2>6, <4>1 DEF BackendOK
      <4>3. m # Build!DefUps
        BY <4>2, NamesDiffer
      <4>4. ~IsDefault(m) /\ (IsServed(m, h) => h = Build!AltHost)
        BY <2>5, <2>6, <4>2, ApartAt
      <4> QED
        BY <2>6, <4>2, <4>3, <4>4 DEF BackendOK
    <3> QED
      BY <1>2, <2>3, <2>6, <3>1, ListStays DEF BackendOK
  <2>7. Build!Apart => \A h \in DOMAIN servers : \A i \in DOMAIN servers[h].locs :
                          BackendOK(servers[h].locs[i].backend, h)
                            => (\A m : m = servers[h].locs[i].backend => BackendOK(m, h))'
    BY <1>1, <2>6
  <2> QED
    BY <1>1, <1>2, <1>3, <1>4, <1>5, <2>4, <2>7, ServersKept
<1> QED
  BY <1>7, <1>8

\* The location of a path.
PathLocation(g, p) ==
  Build!IngressLocation(Build!nginxPath(p), p.type, FALSE, Build!upstreamName(p.svc), g)

LEMMA APathLocation ==
  ASSUME NEW g, NEW p
  PROVE  LET l == PathLocation(g, p)
         IN /\ DOMAIN l = LocationFields /\ l.path = Build!nginxPath(p) /\ l.type = p.type
            /\ l.isDef = FALSE /\ l.backend = Build!upstreamName(p.svc)
            /\ l.customDef = Build!DefUps /\ l.ing = g.name
BY DEF PathLocation, Build!IngressLocation, Build!locationApplyAnnotations, Build!Location,
   LocationFields

\* What a path does to the locations of its server: it is there already, it is added, or
\* it takes the place of the default root.
LEMMA PlaceLocationEffect ==
  ASSUME OfBuild, NEW s, ServerOK(s), NEW g, NEW p,
         Build!nginxPath(p) \in Build!ToSet(LongestFirst),
         NEW new, new = PathLocation(g, p),
         NEW t, t = Build!PlaceLocation(s, g, p)
  PROVE  /\ DOMAIN t = ServerFields /\ t.aliases = s.aliases /\ t.cert = s.cert
         /\ \/ /\ t = s
               /\ \E k \in DOMAIN s.locs : /\ s.locs[k].path = new.path /\ s.locs[k].type = new.type
                                           /\ ~s.locs[k].isDef
            \/ /\ t.locs = Append(s.locs, new)
               /\ \A k \in DOMAIN s.locs :
                    s.locs[k].isDef => ~(s.locs[k].path = new.path /\ s.locs[k].type = new.type)
            \/ /\ t.locs = [s.locs EXCEPT ![1] = new]
               /\ s.locs[1].isDef /\ s.locs[1].path = new.path /\ s.locs[1].type = new.type
<1> DEFINE same == {k \in DOMAIN s.locs : s.locs[k].path = Build!nginxPath(p)}
           k0 == Build!Min(same)
<1>1. new.path = Build!nginxPath(p) /\ new.type = p.type
  BY APathLocation
<1>2. /\ DOMAIN s = ServerFields /\ IsSeq(s.locs) /\ DOMAIN s.locs \subseteq Nat
      /\ 1 \in DOMAIN s.locs /\ \A i \in DOMAIN s.locs : LocationOK(s.locs[i], i) /\ 1 <= i
  BY SeqIsList DEF ServerOK
<1>3. same # {} => k0 \in same /\ \A i \in same : k0 <= i
  BY <1>2, LeastIndex
<1>4. t = IF same = {} \/ s.locs[k0].type # p.type
          THEN [s EXCEPT !.locs = Append(s.locs, new), !.www = s.www \/ g.ann.www]
          ELSE IF s.locs[k0].isDef
          THEN [s EXCEPT !.locs[k0] = new, !.www = s.www \/ g.ann.www]
          ELSE s
  BY DEF Build!PlaceLocation, PathLocation
<1> HIDE DEF k0
<1>5. ASSUME NEW k \in DOMAIN s.locs, s.locs[k].isDef, s.locs[k].path = new.path
      PROVE  same # {} /\ k0 = 1 /\ k = 1
  <2>1. k = 1 /\ k \in same
    BY <1>1, <1>2, <1>5 DEF LocationOK
  <2>2. k0 \in same /\ k0 <= 1
    BY <1>3, <2>1
  <2>3. k0 \in Nat /\ 1 <= k0
    BY <1>2, <2>2
  <2> QED
    BY <2>1, <2>2, <2>3
<1>6. CASE same = {} \/ s.locs[k0].type # p.type
  <2>1. t = [s EXCEPT !.locs = Append(s.locs, new), !.www = s.www \/ g.ann.www]
    BY <1>4, <1>6
  <2>2. /\ DOMAIN t = ServerFields /\ t.aliases = s.aliases /\ t.cert = s.cert
        /\ t.locs = Append(s.locs, new)
    BY <1>2, <2>1 DEF ServerFields
  <2>3. \A k \in DOMAIN s.locs :
          s.locs[k].isDef => ~(s.locs[k].path = new.path /\ s.locs[k].type = new.type)
    BY <1>1, <1>5, <1>6
  <2> QED
    BY <2>2, <2>3
<1>7. CASE same # {} /\ s.locs[k0].type = p.type /\ s.locs[k0].isDef
  <2>1. k0 \in DOMAIN s.locs /\ s.locs[k0].path = new.path
    BY <1>1, <1>3, <1>7
  <2>2. k0 = 1
    BY <1>5, <1>7, <2>1
  <2>3. t = [s EXCEPT !.locs[1] = new, !.www = s.www \/ g.ann.www]
    BY <1>4, <1>7, <2>2
  <2>4. /\ DOMAIN t = ServerFields /\ t.aliases = s.aliases /\ t.cert = s.cert
        /\ t.locs = [s.locs EXCEPT ![1] = new]
    BY <1>2, <2>3 DEF ServerFields
  <2> QED
    BY <1>1, <1>7, <2>1, <2>2, <2>4
<1>8. CASE same # {} /\ s.locs[k0].type = p.type /\ ~s.locs[k0].isDef
  <2>1. t = s /\ k0 \in DOMAIN s.locs /\ s.locs[k0].path = new.path
    BY <1>1, <1>3, <1>4, <1>8
  <2> QED
    BY <1>1, <1>2, <1>8, <2>1
<1> QED
  BY <1>6, <1>7, <1>8

LEMMA ServerAfterPath ==
  ASSUME OfBuild, NEW s, ServerOK(s), NEW g, NEW p,
         Build!nginxPath(p) \in Build!ToSet(LongestFirst)
  PROVE  LET t == Build!PlaceLocation(s, g, p)
         IN /\ ServerOK(t) /\ t.aliases = s.aliases /\ t.cert = s.cert
            /\ \A i \in DOMAIN t.locs : \/ t.locs[i].backend = Build!upstreamName(p.svc)
                                        \/ i \in DOMAIN s.locs /\ t.locs[i] = s.locs[i]
<1> DEFINE new == PathLocation(g, p)
           t == Build!PlaceLocation(s, g, p)
<1>1. /\ DOMAIN new = LocationFields /\ new.path = Build!nginxPath(p) /\ new.isDef = FALSE
      /\ new.backend = Build!upstreamName(p.svc) /\ new.customDef = Build!DefUps
  BY APathLocation
<1>2. /\ DOMAIN t = ServerFields /\ t.aliases = s.aliases /\ t.cert = s.cert
      /\ t = s \/ t.locs = Append(s.locs, new) \/ t.locs = [s.locs EXCEPT ![1] = new]
  <2>1. new = PathLocation(g, p) /\ t = Build!PlaceLocation(s, g, p)
    OBVIOUS
  <2> HIDE DEF new, t
  <2> QED
    BY <2>1, PlaceLocationEffect
<1> HIDE DEF new, t
<1>3. \A i : LocationOK(new, i)
  BY <1>1 DEF LocationOK
<1>4. IsSeq(s.locs) /\ 1 \in DOMAIN s.locs /\ \A i \in DOMAIN s.locs : LocationOK(s.locs[i], i)
  BY DEF ServerOK
<1>5. CASE t = s
  BY <1>5 DEF t
<1>6. CASE t.locs = Append(s.locs, new)
  <2>1. /\ IsSeq(t.locs) /\ DOMAIN t.locs = DOMAIN s.locs \cup {Len(s.locs) + 1}
        /\ \A i \in DOMAIN s.locs : t.locs[i] = s.locs[i]
        /\ t.locs[Len(s.locs) + 1] = new
    BY <1>4, <1>6, SeqAppend
  <2>2. ServerOK(t)
    BY <1>2, <1>3, <1>4, <2>1 DEF ServerOK
  <2>3. \A i \in DOMAIN t.locs : \/ t.locs[i].backend = Build!upstreamName(p.svc)
                                 \/ i \in DOMAIN s.locs /\ t.locs[i] = s.locs[i]
    BY <1>1, <2>1
  <2> QED
    BY <1>2, <2>2, <2>3 DEF t
<1>7. CASE t.locs = [s.locs EXCEPT ![1] = new]
  <2>1. /\ IsSeq(t.locs) /\ DOMAIN t.locs = DOMAIN s.locs
        /\ \A i \in DOMAIN s.locs : t.locs[i] = IF i = 1 THEN new ELSE s.locs[i]
    BY <1>4, <1>7, SeqUpdate
  <2>2. ServerOK(t)
    BY <1>2, <1>3, <1>4, <2>1 DEF ServerOK
  <2>3. \A i \in DOMAIN t.locs : \/ t.locs[i].backend = Build!upstreamName(p.svc)
                                 \/ i \in DOMAIN s.locs /\ t.locs[i] = s.locs[i]
    BY <1>1, <2>1
  <2> QED
    BY <1>2, <2>2, <2>3 DEF t
<1> QED
  BY <1>2, <1>5, <1>6, <1>7

\* The place of a path whose service has a server.
LEMMA PlacedHere ==
  ASSUME OfBuild, PlaceOK, UpstreamsOK, ServersOK, phase = "locations",
         Build!Visiting("locations"), Build!Placed
  PROVE  LET n == Build!upstreamName(Build!Path.svc)
             h == Build!ServerOf(servers, Build!Host)
         IN /\ h \in DOMAIN servers
            /\ HasService(at.ing, at.rule, at.path) /\ at.rule # 0
            /\ ServiceOf(at.ing, at.rule, at.path) = Build!Path.svc
            /\ HostAt(at.ing, at.rule) = Build!Host
            /\ Build!nginxPath(Build!Path) \in Build!ToSet(LongestFirst)
            /\ Build!Apart => BackendOK(n, h)
<1> DEFINE n == Build!upstreamName(Build!Path.svc)
           h == Build!ServerOf(servers, Build!Host)
<1>1. /\ Build!AtService /\ at.rule # 0 /\ IsPlace(at.ing, at.rule, at.path)
      /\ HasService(at.ing, at.rule, at.path)
      /\ ServiceOf(at.ing, at.rule, at.path) = Build!Path.svc
      /\ HostAt(at.ing, at.rule) = Build!Host
      /\ ings[at.ing].ann.canary \in BOOLEAN
  BY Here DEF Build!Placed, Build!Current
<1>2. h \in DOMAIN servers
  BY DEF Build!ServerOf, ServersOK
<1>3. /\ DOMAIN ings = 1 .. Len(ings)
      /\ \A k \in DOMAIN ings : /\ DOMAIN ings[k].rules = 1 .. Len(ings[k].rules)
                                /\ \A r \in DOMAIN ings[k].rules :
                                     /\ Len(ings[k].rules[r].paths) \in Nat
                                     /\ DOMAIN ings[k].rules[r].paths = 1 .. Len(ings[k].rules[r].paths)
                                     /\ \A p \in DOMAIN ings[k].rules[r].paths :
                                          Build!nginxPath(ings[k].rules[r].paths[p])
                                            \in Build!ToSet(LongestFirst)
  BY ListsOfIngresses DEF Build!IsIngress, Build!IsList
<1>4. ASSUME NEW k, NEW r, NEW p, IsPlace(k, r, p), r # 0
      PROVE  /\ k \in DOMAIN ings /\ r \in DOMAIN ings[k].rules
             /\ IsPlace(k, r, 0)
             /\ p # 0 => p \in DOMAIN ings[k].rules[r].paths
  <2>1. k \in DOMAIN ings /\ r \in DOMAIN ings[k].rules
    BY <1>3, <1>4 DEF IsPlace
  <2>2. /\ Len(ings[k].rules[r].paths) \in Nat
        /\ DOMAIN ings[k].rules[r].paths = 1 .. Len(ings[k].rules[r].paths)
    BY <1>3, <2>1
  <2>3. p \in 0 .. Len(ings[k].rules[r].paths)
    BY <1>4 DEF IsPlace
  <2>4. \A m \in Nat : 0 \in 0 .. m /\ \A i \in 0 .. m : i # 0 => i \in 1 .. m
    OBVIOUS
  <2>5. 0 \in 0 .. Len(ings[k].rules[r].paths)
    BY <2>2, <2>4
  <2>6. p # 0 => p \in DOMAIN ings[k].rules[r].paths
    BY <2>2, <2>3, <2>4
  <2> QED
    BY <1>4, <2>1, <2>5, <2>6 DEF IsPlace
<1>5. Build!nginxPath(Build!Path) \in Build!ToSet(LongestFirst)
  <2>1. at.path \in DOMAIN ings[at.ing].rules[at.rule].paths
    BY <1>1, <1>4 DEF Build!AtService
  <2> QED
    BY <1>1, <1>3, <1>4, <2>1 DEF Build!Path, Build!Rule, Build!Current
<1>6. n \in DOMAIN ups /\ ~ups[n].noServer /\ n # Build!DefUps
  <2>1. Made(at.ing, at.rule, at.path)
    BY <1>1 DEF Made
  <2> QED
    BY <1>1, <2>1, NamesDiffer DEF UpstreamsOK, Early, Build!Placed
<1>7. ASSUME Build!Apart
      PROVE  BackendOK(n, h)
  <2>1. \E k, r, p : /\ HasService(k, r, p) /\ r # 0 /\ ~ings[k].ann.canary
                     /\ n = Build!upstreamName(ServiceOf(k, r, p)) /\ Build!Host = HostAt(k, r)
    <3>1. CASE ~ings[at.ing].ann.canary
      BY <1>1, <3>1
    <3>2. CASE ings[at.ing].ann.canary
      <4>1. IsDefault(n) \/ \E g : IsServed(n, g)
        BY <1>6 DEF UpstreamsOK, UpstreamOK
      <4>2. ~IsDefault(n) /\ \A g : IsServed(n, g) => g = Build!Host
        BY <1>1, <1>7, <3>2, ApartAt
      <4>3. IsServed(n, Build!Host)
        BY <4>1, <4>2
      <4> QED
        BY <4>3 DEF IsServed
    <3> QED
      BY <3>1, <3>2
  <2>2. PICK k, r, p : /\ HasService(k, r, p) /\ r # 0 /\ ~ings[k].ann.canary
                       /\ n = Build!upstreamName(ServiceOf(k, r, p)) /\ Build!Host = HostAt(k, r)
    BY <2>1
  <2>3. Hosted(k, r)
    BY <1>4, <2>2 DEF Hosted, HasService
  <2>4. h = Build!Host
    BY <2>2, <2>3 DEF ServersOK, Build!ServerOf
  <2>5. IsServed(n, h)
    BY <2>2, <2>4 DEF IsServed
  <2> QED
    BY <1>6, <2>5 DEF BackendOK
<1> QED
  BY <1>1, <1>2, <1>5, <1>7

LEMMA PlaceKeepsServers ==
  ASSUME OfBuild, PlaceOK, UpstreamsOK, ServersOK, RootsOnly, UNCHANGED setup,
         Build!placeLocations
  PROVE  ServersOK' /\ RootsOnly' /\ DOMAIN servers' = DOMAIN servers
<1>1. Build!Visit("locations") /\ Build!Visiting("locations")
  BY DEF Build!placeLocations, Build!Visit
<1>2. phase = "locations" /\ phase' = phase /\ ings' = ings
  BY <1>1 DEF Build!Visit, Build!Visiting
<1>3. \A k, r, p : IsPlace(k, r, p)' = IsPlace(k, r, p)
  BY <1>1, OnePassed
<1>4. \A k, r : Hosted(k, r)' => Hosted(k, r)
  BY <1>2, <1>3 DEF Hosted
<1>5. ASSUME NEW n, NEW h, BackendOK(n, h)
      PROVE  BackendOK(n, h)'
  <2>1. DOMAIN ups' = DOMAIN ups /\ \A m \in DOMAIN ups : ups'[m].noServer = ups[m].noServer
    BY PlaceKeepsUpstreams
  <2> QED
    BY <1>2, <1>5, <2>1, ListStays DEF BackendOK
<1>6. \A h \in DOMAIN servers : DOMAIN servers[h] = ServerFields
  BY DEF ServersOK, ServerOK
<1> DEFINE h0 == Build!ServerOf(servers, Build!Host)
<1>7. CASE /\ DOMAIN servers' = DOMAIN servers
           /\ \A h \in DOMAIN servers : /\ DOMAIN servers'[h] = ServerFields
                                        /\ servers'[h].locs = servers[h].locs
  <2>1. Build!Apart => \A h \in DOMAIN servers : \A i \in DOMAIN servers[h].locs :
                          BackendOK(servers[h].locs[i].backend, h)
                            => (\A n : n = servers[h].locs[i].backend => BackendOK(n, h))'
    BY <1>5, <1>7
  <2> QED
    BY <1>2, <1>4, <1>7, <2>1, ServersKept
<1>8. CASE /\ Build!Placed
           /\ servers' = [servers EXCEPT ![h0] =
                            Build!PlaceLocation(servers[h0], Build!Current, Build!Path)]
  <2> DEFINE n == Build!upstreamName(Build!Path.svc)
             t == Build!PlaceLocation(servers[h0], Build!Current, Build!Path)
  <2>1. /\ h0 \in DOMAIN servers /\ Build!nginxPath(Build!Path) \in Build!ToSet(LongestFirst)
        /\ Build!Apart => BackendOK(n, h0)
    BY <1>1, <1>2, <1>8, PlacedHere
  <2>2. ServerOK(servers[h0])
    BY <2>1 DEF ServersOK
  <2>3. /\ ServerOK(t)
        /\ \A i \in DOMAIN t.locs : \/ t.locs[i].backend = n
                                    \/ i \in DOMAIN servers[h0].locs /\ t.locs[i] = servers[h0].locs[i]
    BY <2>1, <2>2, ServerAfterPath
  <2> HIDE DEF t, n
  <2>4. /\ DOMAIN servers' = DOMAIN servers /\ servers'[h0] = t
        /\ \A h \in DOMAIN servers : h # h0 => servers'[h] = servers[h]
    BY <1>8, <2>1 DEF t
  <2> HIDE DEF h0
  <2>5. (\A h \in DOMAIN servers : ServerOK(servers[h]))'
    BY <2>3, <2>4 DEF ServersOK, ServerOK, LocationOK
  <2>6. ASSUME Build!Apart, NEW h \in DOMAIN servers', NEW i \in DOMAIN servers'[h].locs
        PROVE  BackendOK(servers'[h].locs[i].backend, h)
    BY <2>1, <2>3, <2>4, <2>6 DEF ServersOK
  <2>7. (Build!Apart => \A h \in DOMAIN servers : \A i \in DOMAIN servers[h].locs :
                          BackendOK(servers[h].locs[i].backend, h))'
    <3>1. Build!Apart' = Build!Apart
      BY <1>2, ListStays
    <3>2. ASSUME NEW h \in DOMAIN servers', NEW i \in DOMAIN servers'[h].locs, Build!Apart,
                 NEW b, b = servers'[h].locs[i].backend
          PROVE  BackendOK(b, h)'
      BY <1>5, <2>6, <3>2
    <3> QED
      BY <3>1, <3>2
  <2>8. \A k, r : HostAt(k, r)' = HostAt(k, r)
    BY <1>2, ListStays
  <2>9. RootsOnly'
    BY <1>2 DEF RootsOnly
  <2>10. ServersOK'
    BY <1>2, <1>4, <2>4, <2>5, <2>7, <2>8 DEF ServersOK
  <2> QED
    BY <2>4, <2>9, <2>10
<1> QED
  <2>1. CASE Build!AtRule /\ (Build!Rule.http \/ Build!Host = DefServer)
    <3>1. servers' = [servers EXCEPT ![h0] = Build!WithAuth(servers[h0], Build!Current)]
      BY <2>1 DEF Build!placeLocations
    <3>2. \A h \in DOMAIN servers :
            servers'[h] = IF h = h0 THEN Build!WithAuth(servers[h0], Build!Current) ELSE servers[h]
      BY <3>1
    <3>3. DOMAIN servers' = DOMAIN servers
      BY <3>1
    <3> HIDE DEF h0
    <3>4. ASSUME NEW h \in DOMAIN servers
          PROVE  DOMAIN servers'[h] = ServerFields /\ servers'[h].locs = servers[h].locs
      BY <1>6, <3>2, AuthOnly
    <3> QED
      BY <1>7, <3>3, <3>4
  <2>2. CASE ~(Build!AtRule /\ (Build!Rule.http \/ Build!Host = DefServer)) /\ Build!Placed
    <3>1. servers' = [servers EXCEPT ![h0] =
                        Build!PlaceLocation(servers[h0], Build!Current, Build!Path)]
      BY <2>2 DEF Build!placeLocations
    <3> QED
      BY <1>8, <2>2, <3>1
  <2>3. CASE ~(Build!AtRule /\ (Build!Rule.http \/ Build!Host = DefServer)) /\ ~Build!Placed
    <3>1. servers' = servers
      BY <2>3 DEF Build!placeLocations
    <3> QED
      BY <1>6, <1>7, <3>1
  <2> QED
    BY <2>1, <2>2, <2>3

-----------------------------------------------------------------------------
(* The configuration that is returned *)

LEMMA CountsAlike == \A S : Build!Cardinality(S) = Cardinality(S)
BY DEF Build!Cardinality, Cardinality

\* Every place of the order is taken by a location.
LEMMA SortedFromList ==
  ASSUME NEW locs, IsSeq(locs),
         \A k \in DOMAIN locs : locs[k].path \in Build!ToSet(LongestFirst)
  PROVE  /\ DOMAIN Build!SortLocations(locs) = DOMAIN locs
         /\ \A n \in DOMAIN locs : \E k \in DOMAIN locs : Build!SortLocations(locs)[n] = locs[k]
<1> DEFINE D == DOMAIN locs
           R(k) == Build!Rank(locs[k].path)
           B(j, k) == Build!Before(locs, j, k)
           Below(k) == {j \in D : B(j, k)}
           f == [k \in D |-> Build!PlaceOf(locs, k)]
<1>1. Len(locs) \in Nat /\ D = 1 .. Len(locs)
  BY SeqIsList
<1>2. IsFiniteSet(D) /\ Cardinality(D) = Len(locs)
  BY <1>1, FS_Interval
<1>3. \A k \in D : R(k) \in Nat
  <2>1. DOMAIN LongestFirst \subseteq Nat
    BY ModelAssumption DEF Build!BuildAssumption, Build!IsList
  <2>2. ASSUME NEW k \in D
        PROVE  \E i \in DOMAIN LongestFirst : LongestFirst[i] = locs[k].path
    BY DEF Build!ToSet
  <2> QED
    BY <2>1, <2>2 DEF Build!Rank
<1>4. \A j, k : B(j, k) <=> R(j) < R(k) \/ (R(j) = R(k) /\ j < k)
  BY DEF Build!Before
<1> HIDE DEF R, B
<1>5. ASSUME NEW j \in D, NEW k \in D, B(j, k)
      PROVE  Cardinality(Below(j)) < Cardinality(Below(k))
  <2>1. Below(j) \subseteq Below(k) /\ j \in Below(k) /\ j \notin Below(j)
    <3>1. \A i \in D : B(i, j) => B(i, k)
      BY <1>1, <1>3, <1>4, <1>5
    <3>2. ~B(j, j)
      BY <1>1, <1>3, <1>4
    <3> QED
      BY <1>5, <3>1, <3>2
  <2> HIDE DEF D
  <2>2. IsFiniteSet(Below(k)) /\ IsFiniteSet(Below(j))
    BY <1>2, FS_Subset
  <2>3. Cardinality(Below(k)) \in Nat /\ Cardinality(Below(j)) \in Nat
    BY <2>2, FS_CardinalityType
  <2> HIDE DEF Below
  <2>4. Cardinality(Below(j)) <= Cardinality(Below(k)) /\ Cardinality(Below(j)) # Cardinality(Below(k))
    BY <2>1, <2>2, FS_Subset
  <2> QED
    BY <2>3, <2>4
<1>6. \A k \in D : f[k] = 1 + Cardinality(Below(k))
  BY CountsAlike DEF Build!PlaceOf, B
<1>7. ASSUME NEW j \in D, NEW k \in D, j # k
      PROVE  f[j] # f[k]
  <2>1. B(j, k) \/ B(k, j)
    BY <1>1, <1>3, <1>4, <1>7
  <2>2. Cardinality(Below(k)) \in Nat /\ Cardinality(Below(j)) \in Nat
    BY <1>2, FS_Subset, FS_CardinalityType
  <2> HIDE DEF Below, f, D
  <2>3. Cardinality(Below(k)) # Cardinality(Below(j))
    BY <1>5, <2>1, <2>2
  <2> QED
    BY <1>6, <2>2, <2>3
<1>8. \A k \in D : f[k] \in D
  <2>1. SUFFICES ASSUME NEW k \in D
                 PROVE  f[k] \in D
    OBVIOUS
  <2>2. Below(k) \subseteq D \ {k}
    BY <1>1, <1>3, <1>4
  <2> HIDE DEF Below, D, f
  <2>3. /\ Cardinality(Below(k)) \in Nat /\ Cardinality(Below(k)) <= Cardinality(D \ {k})
        /\ Cardinality(D \ {k}) = Cardinality(D) - 1
    BY <1>2, <2>2, FS_Subset, FS_CardinalityType, FS_RemoveElement
  <2> QED
    BY <1>1, <1>2, <1>6, <2>3
<1>9. f \in Injection(D, D)
  BY <1>7, <1>8 DEF Injection, IsInjective
<1>10. f \in Surjection(D, D)
  BY <1>2, <1>9, FS_Injection
<1>11. ASSUME NEW n \in D
       PROVE  \E k \in D : Build!PlaceOf(locs, k) = n
  BY <1>10 DEF Surjection
<1>12. ASSUME NEW n \in D
       PROVE  /\ Build!SortLocations(locs)[n] = locs[CHOOSE k \in D : Build!PlaceOf(locs, k) = n]
              /\ (CHOOSE k \in D : Build!PlaceOf(locs, k) = n) \in D
  BY <1>11 DEF Build!SortLocations
<1> QED
  BY <1>12 DEF Build!SortLocations

\* The elements of a flattened list are those of its lists.
LEMMA FlattenedFromLists ==
  ASSUME NEW ls, IsSeq(ls), \A i \in DOMAIN ls : IsSeq(ls[i])
  PROVE  \A x \in Build!ToSet(Build!FlattenSeq(ls)) :
           \E i \in DOMAIN ls : x \in Build!ToSet(ls[i])
<1> DEFINE S == UNION {Build!ToSet(ls[i]) : i \in DOMAIN ls}
           n == Len(ls)
           Is(g, k) == g = [i \in 1 .. k |-> IF i = 1 THEN ls[i] ELSE g[i - 1] \o ls[i]]
           T == {k \in Nat : \E g : Is(g, k)}
<1>1. n \in Nat /\ DOMAIN ls = 1 .. n
  BY SeqIsList
<1>2. \A i \in 1 .. n : ls[i] \in Seq(S)
  <2>1. SUFFICES ASSUME NEW i \in 1 .. n
                 PROVE  ls[i] \in Seq(S)
    OBVIOUS
  <2>2. ls[i] \in Seq(Build!ToSet(ls[i]))
    BY <1>1 DEF IsSeq
  <2>3. Build!ToSet(ls[i]) \subseteq S
    BY <1>1
  <2> HIDE DEF S
  <2> QED
    BY <2>2, <2>3
<1> HIDE DEF S
<1>3. CASE n = 0
  BY <1>1, <1>3 DEF Build!FlattenSeq, Build!ToSet
<1>4. CASE n # 0
  <2>1. 0 \in T
    <3>1. Is([i \in 1 .. 0 |-> ls], 0)
      OBVIOUS
    <3> QED
      BY <3>1
  <2>2. ASSUME NEW k \in Nat, k \in T
        PROVE  k + 1 \in T
    <3>1. PICK g : Is(g, k)
      BY <2>2
    <3> DEFINE h == [i \in 1 .. k + 1 |->
                       IF i = k + 1 THEN IF i = 1 THEN ls[1] ELSE g[k] \o ls[k + 1] ELSE g[i]]
    <3>2. ASSUME NEW i \in 1 .. k + 1
          PROVE  h[i] = IF i = 1 THEN ls[i] ELSE h[i - 1] \o ls[i]
      <4>1. CASE i = 1 /\ i # k + 1
        BY <3>1, <4>1
      <4>2. CASE i = k + 1
        <5>1. i # 1 => h[i - 1] = g[k]
          BY <4>2
        <5> QED
          BY <4>2, <5>1
      <4>3. CASE i # 1 /\ i # k + 1
        <5>1. i \in 1 .. k /\ i - 1 \in 1 .. k
          BY <4>3
        <5>2. h[i - 1] = g[i - 1] /\ h[i] = g[i]
          BY <4>3, <5>1
        <5>3. g[i] = g[i - 1] \o ls[i]
          BY <3>1, <4>3, <5>1
        <5> QED
          BY <4>3, <5>2, <5>3
      <4> QED
        BY <4>1, <4>2, <4>3
    <3>3. h = [i \in 1 .. k + 1 |-> h[i]]
      OBVIOUS
    <3> HIDE DEF h
    <3>4. Is(h, k + 1)
      BY <3>2, <3>3
    <3> HIDE DEF Is
    <3> QED
      BY <3>4
  <2>3. n \in T
    <3>1. \A i \in 0 .. n - 1 : i \in T => i + 1 \in T
      BY <2>2
    <3> HIDE DEF T
    <3>2. 0 .. n \subseteq T
      BY <1>1, <2>1, <3>1, UpTo
    <3> QED
      BY <1>1, <3>2
  <2> DEFINE F == CHOOSE g : Is(g, n)
  <2>4. Is(F, n)
    BY <2>3
  <2>5. Build!FlattenSeq(ls) = F[n]
    BY <1>4 DEF Build!FlattenSeq
  <2> HIDE DEF F
  <2>6. \A i \in 1 .. n : F[i] = IF i = 1 THEN ls[i] ELSE F[i - 1] \o ls[i]
    BY <2>4
  <2> DEFINE G == {i \in Nat : i \in 1 .. n => F[i] \in Seq(S)}
  <2>7. 0 \in G
    OBVIOUS
  <2>8. ASSUME NEW i \in 0 .. n - 1, i \in G
        PROVE  i + 1 \in G
    <3>1. CASE i = 0
      <4>1. F[1] = ls[1] /\ ls[1] \in Seq(S)
        BY <1>1, <1>2, <1>4, <2>6
      <4> QED
        BY <3>1, <4>1
    <3>2. CASE i # 0
      <4>1. i \in 1 .. n /\ i + 1 \in 1 .. n /\ i + 1 # 1 /\ (i + 1) - 1 = i /\ i + 1 \in Nat
        BY <1>1, <3>2
      <4>2. F[i + 1] = F[i] \o ls[i + 1]
        BY <2>6, <4>1
      <4>3. F[i] \in Seq(S) /\ ls[i + 1] \in Seq(S)
        BY <1>2, <2>8, <4>1
      <4>4. F[i] \o ls[i + 1] \in Seq(S)
        BY <4>3
      <4> QED
        BY <4>1, <4>2, <4>4
    <3> QED
      BY <3>1, <3>2
  <2>9. n \in G
    <3> HIDE DEF G
    <3>1. 0 .. n \subseteq G
      BY <1>1, <2>7, <2>8, UpTo
    <3> QED
      BY <1>1, <3>1
  <2>10. F[n] \in Seq(S)
    BY <1>1, <1>4, <2>9 DEF G
  <2>11. \A x \in Build!ToSet(F[n]) : x \in S
    BY <2>10 DEF Build!ToSet
  <2> QED
    BY <2>5, <2>11 DEF S
<1> QED
  BY <1>3, <1>4

LEMMA ListIsSeq ==
  ASSUME NEW n \in Nat, NEW f, f = [i \in 1 .. n |-> f[i]]
  PROVE  IsSeq(f) /\ Len(f) = n /\ DOMAIN f = 1 .. n
<1>1. DOMAIN f = 1 .. n
  OBVIOUS
<1>2. \A i \in 1 .. n : f[i] \in Build!ToSet(f)
  BY <1>1 DEF Build!ToSet
<1>3. f \in [1 .. n -> Build!ToSet(f)]
  BY <1>2
<1> QED
  BY <1>1, <1>3 DEF IsSeq

LEMMA ShortLists ==
  ASSUME NEW S, NEW x \in S, NEW y \in S
  PROVE  <<x>> \in Seq(S) /\ <<x, y>> \in Seq(S)
OBVIOUS

\* A location may be split into one with and one without a slash, nothing else.
LEMMA ExpandedLocation ==
  ASSUME NEW l, DOMAIN l = LocationFields, NEW exact
  PROVE  LET ls == Build!ExpandLocation(l, exact)
         IN /\ IsSeq(ls)
            /\ \A x \in Build!ToSet(ls) : x.backend = l.backend /\ x.customDef = l.customDef
<1> DEFINE slash == [l EXCEPT !.path = SlashOf[l.path]]
           plain == [l EXCEPT !.type = "Exact"]
           ls == Build!ExpandLocation(l, exact)
<1>1. /\ slash.backend = l.backend /\ slash.customDef = l.customDef
      /\ plain.backend = l.backend /\ plain.customDef = l.customDef
  BY DEF LocationFields
<1>2. ls = <<l>> \/ ls = <<slash>> \/ ls = <<slash, plain>>
  BY DEF Build!ExpandLocation
<1> HIDE DEF slash, plain, ls
<1>3. ls \in Seq({l, slash, plain})
  BY <1>2, ShortLists
<1>4. IsSeq(ls)
  BY <1>3, SeqOf
<1>5. \A x \in Build!ToSet(ls) : x \in {l, slash, plain}
  BY <1>3 DEF Build!ToSet
<1> QED
  BY <1>1, <1>4, <1>5 DEF ls

LEMMA CustomLocation ==
  ASSUME NEW l, DOMAIN l = LocationFields, l.customDef = Build!DefUps
  PROVE  LET w == Build!WithCustom(l)
         IN /\ DOMAIN w = LocationFields /\ w.path = l.path
            /\ \/ w.customDef = Build!DefUps
               \/ Build!Custom(l) /\ w.customDef = Build!CustomName(l.ann.defBackend)
            /\ \/ w.backend = l.backend
               \/ Build!Custom(l) /\ w.backend = Build!CustomName(l.ann.defBackend)
BY DEF Build!WithCustom, LocationFields

\* Where the locations of the result come from.
LEMMA FinalFromLocation ==
  ASSUME OfBuild, NEW h, h \in DOMAIN servers, ServerOK(servers[h]),
         NEW l \in Build!ToSet(Build!FinalLocations(h))
  PROVE  \E x \in Build!ToSet(servers[h].locs) :
            /\ DOMAIN x = LocationFields /\ x.customDef = Build!DefUps
            /\ l.backend = Build!WithCustom(x).backend
            /\ l.customDef = Build!WithCustom(x).customDef
<1> DEFINE locs == servers[h].locs
           w == [k \in DOMAIN locs |-> Build!WithCustom(locs[k])]
           s == Build!SortLocations(w)
           exact == {x.path : x \in {y \in Build!ToSet(s) : y.type = "Exact"}}
           ls == [k \in DOMAIN s |-> Build!ExpandLocation(s[k], exact)]
           n == Len(locs)
<1>1. n \in Nat /\ DOMAIN locs = 1 .. n /\ \A k \in DOMAIN locs : LocationOK(locs[k], k)
  BY SeqIsList DEF ServerOK
<1>2. \A k \in 1 .. n : /\ w[k] = Build!WithCustom(locs[k])
                        /\ DOMAIN w[k] = LocationFields /\ w[k].path \in Build!ToSet(LongestFirst)
  <2>1. SUFFICES ASSUME NEW k \in 1 .. n
                 PROVE  /\ w[k] = Build!WithCustom(locs[k])
                        /\ DOMAIN w[k] = LocationFields /\ w[k].path \in Build!ToSet(LongestFirst)
    OBVIOUS
  <2>2. w[k] = Build!WithCustom(locs[k]) /\ LocationOK(locs[k], k)
    BY <1>1
  <2> HIDE DEF w, locs
  <2> QED
    BY <2>2, CustomLocation DEF LocationOK
<1>3. w = [k \in 1 .. n |-> w[k]]
  BY <1>1
<1> HIDE DEF w, locs
<1>4. IsSeq(w) /\ DOMAIN w = 1 .. n
  BY <1>1, <1>3, ListIsSeq
<1>5. DOMAIN s = 1 .. n /\ \A k \in 1 .. n : \E j \in 1 .. n : s[k] = w[j]
  <2> HIDE DEF s
  <2>1. \A k \in DOMAIN w : w[k].path \in Build!ToSet(LongestFirst)
    BY <1>2, <1>4
  <2>2. s = Build!SortLocations(w)
    BY DEF s
  <2> QED
    BY <1>4, <2>1, <2>2, SortedFromList
<1>6. s = [k \in 1 .. n |-> s[k]]
  BY <1>5 DEF Build!SortLocations
<1> HIDE DEF s
<1>7. \A k \in 1 .. n : /\ ls[k] = Build!ExpandLocation(s[k], exact)
                        /\ IsSeq(ls[k])
                        /\ \A x \in Build!ToSet(ls[k]) :
                             x.backend = s[k].backend /\ x.customDef = s[k].customDef
  <2>1. SUFFICES ASSUME NEW k \in 1 .. n
                 PROVE  /\ ls[k] = Build!ExpandLocation(s[k], exact)
                        /\ IsSeq(ls[k])
                        /\ \A x \in Build!ToSet(ls[k]) :
                             x.backend = s[k].backend /\ x.customDef = s[k].customDef
    OBVIOUS
  <2>2. ls[k] = Build!ExpandLocation(s[k], exact)
    BY <1>5
  <2>3. DOMAIN s[k] = LocationFields
    BY <1>2, <1>5
  <2> HIDE DEF ls, exact
  <2> QED
    BY <2>2, <2>3, ExpandedLocation
<1>8. ls = [k \in 1 .. n |-> ls[k]]
  BY <1>5
<1>9. Build!FinalLocations(h) = Build!FlattenSeq(ls)
  BY DEF Build!FinalLocations, Build!updateServerLocations, s, w, locs
<1> HIDE DEF ls, exact
<1>10. IsSeq(ls) /\ DOMAIN ls = 1 .. n
  BY <1>1, <1>8, ListIsSeq
<1>11. PICK k \in 1 .. n : l \in Build!ToSet(ls[k])
  BY <1>7, <1>9, <1>10, FlattenedFromLists
<1>12. PICK j \in 1 .. n : s[k] = w[j]
  BY <1>5
<1>13. l.backend = Build!WithCustom(locs[j]).backend /\ l.customDef = Build!WithCustom(locs[j]).customDef
  BY <1>2, <1>7, <1>11, <1>12
<1>14. locs[j] \in Build!ToSet(locs)
  BY <1>1 DEF Build!ToSet
<1>15. DOMAIN locs[j] = LocationFields /\ locs[j].customDef = Build!DefUps
  BY <1>1 DEF LocationOK
<1> QED
  BY <1>13, <1>14, <1>15 DEF locs

LEMMA ConfigurationClosed ==
  ASSUME OfBuild, PlaceOK, UpstreamsOK, ServersOK, UNCHANGED setup, Build!getConfiguration
  PROVE  (Build!Apart => Build!LocationsServed)' /\ Build!CanaryIsAlternative'
<1> DEFINE Own(n) == [ups[n] EXCEPT !.pass = Build!Passthrough(n)]
           Given(l) == [ups[l.backend] EXCEPT !.name = Build!CustomName(l.ann.defBackend),
                                              !.eps  = Build!serviceEndpoints(l.ann.defBackend)]
           All == UNION {Build!ToSet(servers[h].locs) : h \in DOMAIN servers}
           ss == [h \in DOMAIN servers |-> [servers[h] EXCEPT !.locs = Build!FinalLocations(h)]]
<1>1. /\ ings' = ings
      /\ cfg'.servers = ss
      /\ cfg'.backends = {Own(n) : n \in DOMAIN ups} \cup Build!CustomBackends
      /\ Build!CustomBackends = {Given(l) : l \in {x \in All : Build!Custom(x)}}
  BY DEF Build!getConfiguration, Build!CustomBackends
<1>2. ASSUME NEW n \in DOMAIN ups
      PROVE  /\ UpstreamOK(ups[n], n) /\ ups[n].name = n /\ DOMAIN ups[n] = UpstreamFields
             /\ Own(n).name = n /\ Own(n).noServer = ups[n].noServer /\ Own(n).alts = ups[n].alts
  BY DEF UpstreamsOK, UpstreamOK, UpstreamFields
<1>3. ASSUME NEW l \in All, Build!Custom(l)
      PROVE  /\ l.backend \in DOMAIN ups /\ l.backend # Build!DefUps
             /\ Given(l).name = Build!CustomName(l.ann.defBackend)
             /\ Given(l).noServer = ups[l.backend].noServer /\ Given(l).alts = ups[l.backend].alts
             /\ Build!Apart => ~ups[l.backend].noServer
  <2>1. l.backend \in DOMAIN ups /\ l.backend # Build!DefUps
    BY <1>3 DEF Build!Custom, Build!shouldCreateUpstreamForLocationDefaultBackend
  <2>2. DOMAIN ups[l.backend] = UpstreamFields
    BY <1>2, <2>1
  <2>3. PICK h \in DOMAIN servers : \E i \in DOMAIN servers[h].locs : l = servers[h].locs[i]
    BY DEF Build!ToSet
  <2>4. Build!Apart => ~ups[l.backend].noServer
    BY <2>3 DEF ServersOK, BackendOK
  <2> QED
    BY <2>1, <2>2, <2>4 DEF UpstreamFields
<1> HIDE DEF Own, Given, All
<1>4. Build!CanaryIsAlternative'
  <2>1. SUFFICES ASSUME NEW b, b \in cfg'.backends, b.alts # <<>>
                 PROVE  /\ b.name # Build!DefUps /\ ~b.noServer
                        /\ b.name \notin Build!ToSet(b.alts)
    BY DEF Build!CanaryIsAlternative
  <2>2. CASE \E n \in DOMAIN ups : b = Own(n)
    BY <1>2, <2>1, <2>2 DEF UpstreamOK, Build!ToSet
  <2>3. CASE \E l \in All : Build!Custom(l) /\ b = Given(l)
    <3>1. PICK l \in All : Build!Custom(l) /\ b = Given(l)
      BY <2>3
    <3>2. /\ l.backend \in DOMAIN ups /\ b.name = Build!CustomName(l.ann.defBackend)
          /\ b.noServer = ups[l.backend].noServer /\ b.alts = ups[l.backend].alts
      BY <1>3, <3>1
    <3>3. UpstreamOK(ups[l.backend], l.backend)
      BY <1>2, <3>2
    <3>4. b.name # Build!DefUps /\ b.name[1] # "svc"
      BY <3>2, NamesDiffer
    <3> QED
      BY <2>1, <3>2, <3>3, <3>4 DEF UpstreamOK, Build!ToSet
  <2> QED
    BY <1>1, <2>1, <2>2, <2>3
<1>5. ASSUME Build!Apart'
      PROVE  Build!LocationsServed'
  <2>1. Build!Apart
    BY <1>1, <1>5, ListStays
  <2>2. SUFFICES ASSUME NEW h \in DOMAIN servers, NEW l \in Build!ToSet(ss[h].locs)
                 PROVE  /\ \E b \in cfg'.backends : b.name = l.backend
                        /\ \E b \in cfg'.backends : b.name = l.customDef
                        /\ \A b \in cfg'.backends : b.name = l.backend => ~b.noServer
    BY <1>1 DEF Build!LocationsServed, Build!BackendNames
  <2>3. ServerOK(servers[h])
    BY DEF ServersOK
  <2>4. l \in Build!ToSet(Build!FinalLocations(h))
    BY <2>3 DEF ServerOK, ServerFields
  <2>5. PICK x \in Build!ToSet(servers[h].locs) :
            /\ DOMAIN x = LocationFields /\ x.customDef = Build!DefUps
            /\ l.backend = Build!WithCustom(x).backend
            /\ l.customDef = Build!WithCustom(x).customDef
    BY <2>3, <2>4, FinalFromLocation
  <2>6. /\ l.customDef = Build!DefUps
           \/ (Build!Custom(x) /\ l.customDef = Build!CustomName(x.ann.defBackend))
        /\ l.backend = x.backend
           \/ (Build!Custom(x) /\ l.backend = Build!CustomName(x.ann.defBackend))
    BY <2>5, CustomLocation
  <2>7. x.backend \in DOMAIN ups /\ ~ups[x.backend].noServer
    <3>1. PICK i \in DOMAIN servers[h].locs : x = servers[h].locs[i]
      BY <2>5 DEF Build!ToSet
    <3> QED
      BY <2>1, <3>1 DEF ServersOK, BackendOK
  <2>8. x \in All
    BY DEF All
  <2>9. \A n \in DOMAIN ups : \E b \in cfg'.backends : b.name = n
    BY <1>1, <1>2
  <2>10. Build!Custom(x) =>
           \E b \in cfg'.backends : b.name = Build!CustomName(x.ann.defBackend)
    BY <1>1, <1>3, <2>8
  <2>11. Build!DefUps \in DOMAIN ups
    BY DEF UpstreamsOK
  <2>12. ASSUME NEW b \in cfg'.backends, b.name = l.backend
         PROVE  ~b.noServer
    <3>1. CASE \E n \in DOMAIN ups : b = Own(n)
      <4>1. PICK n \in DOMAIN ups : b = Own(n)
        BY <3>1
      <4>2. b.name = n /\ b.noServer = ups[n].noServer /\ (n = Build!DefUps \/ n[1] = "svc")
        BY <1>2, <4>1 DEF UpstreamOK
      <4>3. l.backend # Build!CustomName(x.ann.defBackend)
        BY <2>12, <4>2, NamesDiffer
      <4> QED
        BY <2>6, <2>7, <2>12, <4>2, <4>3
    <3>2. CASE \E y \in All : Build!Custom(y) /\ b = Given(y)
      BY <1>3, <2>1, <3>2
    <3> QED
      BY <1>1, <3>1, <3>2
  <2> QED
    BY <2>6, <2>7, <2>9, <2>10, <2>11, <2>12
<1> QED
  BY <1>4, <1>5

-----------------------------------------------------------------------------
(* The passes leave a closed model *)

BuildOK ==
  /\ PlaceOK
  /\ phase # "done" => cfg = None
  /\ phase \notin {"done", "panicked"} => UpstreamsOK /\ ServersOK /\ RootsOnly
  /\ Build!Apart => Build!LocationsServed
  /\ Build!CanaryIsAlternative

LEMMA BuildInit == OfBuild /\ Build!Init => BuildOK
<1> SUFFICES ASSUME OfBuild, Build!Init
             PROVE  BuildOK
  OBVIOUS
<1>1. PlaceOK /\ UpstreamsOK
  BY UpstreamsInit
<1>2. ServersOK /\ RootsOnly
  BY <1>1, ServersInit DEF RootsOnly
<1>3. cfg = None
  BY DEF Build!Init
<1> QED
  BY <1>1, <1>2, <1>3 DEF BuildOK, Build!LocationsServed, Build!CanaryIsAlternative

\* Without a configuration there is nothing to say about it.
LEMMA NothingReturned ==
  ASSUME cfg' = None
  PROVE  (Build!Apart => Build!LocationsServed)' /\ Build!CanaryIsAlternative'
BY DEF Build!LocationsServed, Build!CanaryIsAlternative

LEMMA BuildStep ==
  ASSUME OfBuild, BuildOK, UNCHANGED setup, Build!Step
  PROVE  BuildOK'
<1>1. ASSUME Build!createUpstreams
      PROVE  BuildOK'
  <2>1. /\ phase = "upstreams" /\ phase' = phase /\ cfg' = cfg
    BY <1>1 DEF Build!createUpstreams, Build!Visit, Build!Visiting
  <2>2. PlaceOK' /\ UpstreamsOK'
    BY <1>1, <2>1, CreateUpstream DEF BuildOK
  <2>3. ServersOK' /\ RootsOnly'
    BY <1>1, <2>1, <2>2, UpstreamsKeepServers DEF BuildOK
  <2> QED
    BY <2>1, <2>2, <2>3, NothingReturned DEF BuildOK
<1>2. ASSUME Build!createServers
      PROVE  BuildOK'
  <2>1. phase = "servers" /\ phase' = phase /\ cfg' = cfg
    BY <1>2 DEF Build!createServers, Build!Visit, Build!Visiting
  <2>2. PlaceOK' /\ UpstreamsOK' /\ ServersOK' /\ RootsOnly'
    BY <1>2, <2>1, CreateServer DEF BuildOK
  <2> QED
    BY <2>1, <2>2, NothingReturned DEF BuildOK
<1>3. ASSUME Build!configureServers
      PROVE  BuildOK'
  <2>1. phase = "tls" /\ phase' = phase /\ cfg' = cfg
    BY <1>3 DEF Build!configureServers, Build!Visit, Build!Visiting
  <2>2. PlaceOK' /\ UpstreamsOK' /\ ServersOK' /\ RootsOnly'
    BY <1>3, <2>1, ConfigureKeeps DEF BuildOK
  <2> QED
    BY <2>1, <2>2, NothingReturned DEF BuildOK
<1>4. ASSUME Build!dropAliases \/ Build!NextPass
      PROVE  BuildOK'
  <2>1. /\ phase \in {"upstreams", "servers", "tls", "locations"} /\ cfg' = cfg
        /\ phase' # "done"
    BY <1>4 DEF Build!dropAliases, Build!NextPass, Build!EndPass
  <2>2. PlaceOK' /\ UpstreamsOK' /\ ServersOK' /\ RootsOnly'
    BY <1>4, <2>1, PassKeeps DEF BuildOK
  <2> QED
    BY <2>1, <2>2, NothingReturned DEF BuildOK
<1>5. ASSUME Build!placeLocations
      PROVE  BuildOK'
  <2>1. phase = "locations" /\ phase' = phase /\ cfg' = cfg
    BY <1>5 DEF Build!placeLocations, Build!Visit, Build!Visiting
  <2>2. PlaceOK' /\ UpstreamsOK' /\ ServersOK' /\ RootsOnly'
    BY <1>5, <2>1, PlaceKeepsUpstreams, PlaceKeepsServers DEF BuildOK
  <2> QED
    BY <2>1, <2>2, NothingReturned DEF BuildOK
<1>6. ASSUME Build!mergeCanary
      PROVE  BuildOK'
  <2>1. phase = "canary" /\ phase' = phase /\ cfg' = cfg
    BY <1>6 DEF Build!mergeCanary, Build!Visit, Build!Visiting
  <2>2. PlaceOK' /\ UpstreamsOK' /\ ServersOK' /\ RootsOnly'
    BY <1>6, <2>1, CanaryKeeps DEF BuildOK
  <2> QED
    BY <2>1, <2>2, NothingReturned DEF BuildOK
<1>7. ASSUME Build!panic
      PROVE  BuildOK'
  <2>1. phase = "canary" /\ phase' = "panicked" /\ UNCHANGED <<ings, at, cfg>>
    BY <1>7 DEF Build!panic, Build!Visiting
  <2>2. PlaceOK'
    BY <2>1 DEF BuildOK, PlaceOK, IsPlace
  <2> QED
    BY <2>1, <2>2, NothingReturned DEF BuildOK
<1>8. ASSUME Build!getConfiguration
      PROVE  BuildOK'
  <2>1. phase = "canary" /\ phase' = "done" /\ UNCHANGED <<ings, at>>
    BY <1>8 DEF Build!getConfiguration
  <2>2. PlaceOK'
    BY <2>1 DEF BuildOK, PlaceOK, IsPlace
  <2>3. (Build!Apart => Build!LocationsServed)' /\ Build!CanaryIsAlternative'
    BY <1>8, <2>1, ConfigurationClosed DEF BuildOK
  <2> QED
    BY <2>1, <2>2, <2>3 DEF BuildOK
<1>9. ASSUME Build!Done
      PROVE  BuildOK'
  <2>1. /\ UNCHANGED <<phase, ings, at, ups, servers, allAliases, cfg>>
        /\ phase \in {"done", "panicked"}
    BY <1>9 DEF Build!Done, Build!vars
  <2>2. PlaceOK'
    BY <2>1 DEF BuildOK, PlaceOK, IsPlace
  <2>3. Build!LocationsServed' = Build!LocationsServed
        /\ Build!CanaryIsAlternative' = Build!CanaryIsAlternative /\ Build!Apart' = Build!Apart
    BY <2>1, ListStays DEF Build!LocationsServed, Build!CanaryIsAlternative, Build!BackendNames
  <2> QED
    BY <2>1, <2>2, <2>3 DEF BuildOK
<1> QED
  BY <1>1, <1>2, <1>3, <1>4, <1>5, <1>6, <1>7, <1>8, <1>9 DEF Build!Step

LEMMA BuildStays ==
  ASSUME OfBuild, BuildOK, UNCHANGED setup,
         UNCHANGED <<phase, ings, at, ups, servers, allAliases, cfg>>
  PROVE  BuildOK'
<1>1. PlaceOK' /\ \A k, r, p : IsPlace(k, r, p)' = IsPlace(k, r, p)
  BY DEF BuildOK, PlaceOK, IsPlace
<1>2. /\ Build!LocationsServed' = Build!LocationsServed
      /\ Build!CanaryIsAlternative' = Build!CanaryIsAlternative
      /\ Build!Apart' = Build!Apart /\ SomeCatchAll' = SomeCatchAll
  BY ListStays
  DEF Build!LocationsServed, Build!CanaryIsAlternative, Build!BackendNames, SomeCatchAll
<1>3. /\ \A k, r, p : Passed(k, r, p)' = Passed(k, r, p)
      /\ \A k, r, p : Made(k, r, p)' = Made(k, r, p)
      /\ \A k, r : Hosted(k, r)' = Hosted(k, r)
      /\ Early' = Early
  BY <1>1, ListStays DEF Passed, Made, Hosted, Early
<1>4. CASE phase \notin {"done", "panicked"}
  <2>1. UpstreamsOK /\ ServersOK /\ RootsOnly
    BY <1>4 DEF BuildOK
  <2>2. UpstreamsOK'
    BY <1>3, <2>1, UpstreamsKept DEF BuildOK, UpstreamsOK
  <2>3. \A n, h : BackendOK(n, h)' = BackendOK(n, h)
    BY BackendsStay
  <2>4. \A h \in DOMAIN servers : DOMAIN servers[h] = ServerFields
    BY <2>1 DEF ServersOK, ServerOK
  <2>5. ServersOK' /\ RootsOnly'
    BY <1>3, <2>1, <2>3, <2>4, ServersKept
  <2> QED
    BY <1>1, <1>2, <2>2, <2>5 DEF BuildOK
<1>5. CASE phase \in {"done", "panicked"}
  BY <1>1, <1>2, <1>5 DEF BuildOK
<1> QED
  BY <1>4, <1>5

(***************************************************************************)
(* The model that is returned is closed: every location sends its requests *)
(* to an upstream of it and to none that is only a canary, if the services *)
(* of canaries stay apart, and alternatives are canaries' upstreams.       *)
(***************************************************************************)
THEOREM ModelStaysClosed == Spec => []ModelIsClosed
<1>1. Init => (OfBuild => BuildOK)
  BY InitOfOne, BuildInit
<1>2. (OfBuild => BuildOK) /\ [Next]_vars => (OfBuild => BuildOK)'
  <2> SUFFICES ASSUME OfBuild => BuildOK, [Next]_vars
               PROVE  (OfBuild => BuildOK)'
    OBVIOUS
  <2>1. setup' = setup
    BY StepOfOne
  <2>2. CASE OfBuild
    <3>1. CASE Build!Next
      BY <2>1, <2>2, <3>1, BuildStep DEF Build!Next
    <3>2. CASE UNCHANGED <<Build!vars, setup>>
      <4>1. UNCHANGED <<phase, ings, at, ups, servers, allAliases, cfg>>
        BY <3>2 DEF Build!vars
      <4> QED
        BY <2>1, <2>2, <4>1, BuildStays
    <3> QED
      BY <2>2, <3>1, <3>2, StepOfOne
  <2>3. CASE ~OfBuild
    BY <2>1, <2>3 DEF OfBuild
  <2> QED
    BY <2>2, <2>3
<1>3. (OfBuild => BuildOK) => ModelIsClosed
  BY DEF BuildOK, ModelIsClosed
<1> QED
  BY <1>1, <1>2, <1>3, PTL DEF Spec

-----------------------------------------------------------------------------
(* Certificates and aliases *)

\* The second pass has been at rule r of ingress k.
Configured(k, r) ==
  phase \notin {"upstreams", "servers"} /\ (phase = "tls" => Passed(k, r, 0))

\* The ingresses with a TLS section for the host that it has been at.
TlsOf(h) ==
  {k \in DOMAIN ings :
     /\ ~ings[k].ann.canary /\ ings[k].tls # <<>>
     /\ \E r \in DOMAIN ings[k].rules :
          Build!HostOf(ings[k].rules[r]) = h /\ Configured(k, r)}

\* The certificate is that of the oldest one.
CertOK(c, h, T) == c = IF T = {} THEN None ELSE Build!CertFor(ings[Build!Min(T)], h)

CertsOK == \A h \in DOMAIN servers \ {DefServer} : CertOK(servers[h].cert, h, TlsOf(h))

AliasesOK ==
  /\ phase \in {"upstreams", "servers"} =>
       \A h \in DOMAIN servers : servers[h].aliases = {}
  /\ phase = "tls" =>
       \A h \in DOMAIN servers : servers[h].aliases = {} \/ h \in DOMAIN allAliases
  /\ phase \in {"locations", "canary"} =>
       \A h \in DOMAIN servers : servers[h].aliases \cap DOMAIN servers = {}

LEMMA CertsGiven ==
  ASSUME NEW g, NEW h, Build!IsList(g.tls), NEW c, c = Build!CertFor(g, h)
  PROVE  /\ c # None
         /\ c # "default" => /\ \E t \in DOMAIN g.tls : g.tls[t].secret = c
                             /\ h \in CertHosts[c] \cup CommonName[c]
<1>1. None \notin DOMAIN CertHosts /\ None # "default"
  BY ModelAssumption DEF Build!BuildAssumption
<1> DEFINE secret == Build!extractTLSSecretName(g, h)
           named  == {k \in DOMAIN g.tls : h \in g.tls[k].hosts}
           covers == {k \in DOMAIN g.tls : /\ g.tls[k].secret \in DOMAIN CertHosts
                                           /\ Build!VerifyHostname(g.tls[k].secret, h)}
<1>2. secret = IF named # {} THEN g.tls[Build!Min(named)].secret
               ELSE IF covers # {} THEN g.tls[Build!Min(covers)].secret
               ELSE None
  BY DEF Build!extractTLSSecretName
<1>3. DOMAIN g.tls \subseteq Nat
  BY DEF Build!IsList
<1>4. secret = None \/ \E t \in DOMAIN g.tls : g.tls[t].secret = secret
  <2>1. named # {} => Build!Min(named) \in named
    BY <1>3, LeastIndex
  <2>2. covers # {} => Build!Min(covers) \in covers
    BY <1>3, LeastIndex
  <2> HIDE DEF secret
  <2> QED
    BY <1>2, <2>1, <2>2
<1>5. c = IF /\ secret \in DOMAIN CertHosts
             /\ Build!VerifyHostname(secret, h) \/ Build!verifyHostname(secret, h)
          THEN secret ELSE "default"
  BY DEF Build!CertFor
<1> HIDE DEF secret
<1> QED
  BY <1>1, <1>4, <1>5 DEF Build!VerifyHostname, Build!verifyHostname

\* The least number of a set that grows.
LEMMA LeastStays ==
  ASSUME NEW T, T \subseteq Nat, NEW i \in Nat, \A k \in T : k <= i
  PROVE  /\ T # {} => Build!Min(T \cup {i}) = Build!Min(T)
         /\ Build!Min({i}) = i
<1>1. Build!Min({i}) = i
  BY LeastIndex
<1>2. ASSUME T # {}
      PROVE  Build!Min(T \cup {i}) = Build!Min(T)
  <2> DEFINE a == Build!Min(T \cup {i})
             b == Build!Min(T)
  <2>1. b \in T /\ \A k \in T : b <= k
    BY <1>2, LeastIndex
  <2>2. a \in T \cup {i} /\ \A k \in T \cup {i} : a <= k
    BY LeastIndex
  <2> HIDE DEF a, b
  <2>3. a <= b /\ b <= a
    <3>1. b <= i
      BY <2>1
    <3> QED
      BY <2>1, <2>2, <3>1
  <2>4. a \in Nat /\ b \in Nat
    BY <2>1, <2>2
  <2> QED
    BY <2>3, <2>4 DEF a, b
<1> QED
  BY <1>1, <1>2

\* What the passes do to the certificate and the aliases of a server.
LEMMA ServerSettings ==
  ASSUME OfBuild, PlaceOK, UpstreamsOK, ServersOK, UNCHANGED setup,
         \/ Build!createUpstreams \/ Build!createServers \/ Build!placeLocations
         \/ Build!mergeCanary \/ Build!NextPass
  PROVE  \A h \in DOMAIN servers' :
           \/ /\ h \in DOMAIN servers /\ servers'[h].cert = servers[h].cert
              /\ servers'[h].aliases = servers[h].aliases
           \/ Build!createServers /\ servers'[h].cert = None /\ servers'[h].aliases = {}
<1> DEFINE Same(h) == /\ h \in DOMAIN servers /\ servers'[h].cert = servers[h].cert
                      /\ servers'[h].aliases = servers[h].aliases
<1>1. CASE servers' = servers
  BY <1>1
<1>2. \A h \in DOMAIN servers : ServerOK(servers[h]) /\ DOMAIN servers[h] = ServerFields
  BY DEF ServersOK, ServerOK
<1>3. CASE Build!createServers
  <2>1. CASE Build!Current.ann.canary
    BY <1>1, <1>3, <2>1 DEF Build!createServers
  <2>2. CASE ~Build!Current.ann.canary /\ Build!AtIngress /\ Build!Current.def # None
    <3>1. PICK m : servers' = [servers EXCEPT ![DefServer].locs[1] = m]
      BY <1>3, <2>2 DEF Build!createServers
    <3>2. \A h \in DOMAIN servers : Same(h)
      BY <1>2, <3>1 DEF ServerFields
    <3> QED
      BY <3>1, <3>2
  <2>3. CASE ~Build!Current.ann.canary /\ Build!AtRule
    <3> DEFINE s == Build!newServer(Build!RootLocation(Build!Current), Build!Current.ann.passthrough)
    <3>1. servers' = Build!SetNew(servers, Build!Host, s)
      BY <1>3, <2>3 DEF Build!createServers, Build!AtRule, Build!AtIngress
    <3>2. s.cert = None /\ s.aliases = {}
      BY DEF Build!newServer
    <3> HIDE DEF s
    <3>3. ASSUME NEW h \in DOMAIN servers'
          PROVE  (h \in DOMAIN servers /\ servers'[h] = servers[h]) \/ servers'[h] = s
      BY <3>1, <3>3 DEF Build!SetNew, Build!Set
    <3> QED
      BY <1>3, <3>2, <3>3
  <2>4. CASE ~Build!Current.ann.canary /\ ~Build!AtRule /\ ~(Build!AtIngress /\ Build!Current.def # None)
    BY <1>1, <1>3, <2>4 DEF Build!createServers
  <2> QED
    BY <2>1, <2>2, <2>3, <2>4
<1>4. CASE Build!placeLocations
  <2> DEFINE h0 == Build!ServerOf(servers, Build!Host)
  <2>1. Build!Visit("locations") /\ Build!Visiting("locations") /\ phase = "locations"
    BY <1>4 DEF Build!placeLocations, Build!Visit, Build!Visiting
  <2>2. CASE servers' = [servers EXCEPT ![h0] = Build!WithAuth(servers[h0], Build!Current)]
    <3>1. \A h \in DOMAIN servers :
            servers'[h] = IF h = h0 THEN Build!WithAuth(servers[h0], Build!Current) ELSE servers[h]
      BY <2>2
    <3>2. DOMAIN servers' = DOMAIN servers
      BY <2>2
    <3> HIDE DEF h0
    <3>3. \A h \in DOMAIN servers : Same(h)
      BY <1>2, <3>1, AuthOnly
    <3> QED
      BY <3>2, <3>3
  <2>3. CASE Build!Placed /\ servers' = [servers EXCEPT ![h0] =
                    Build!PlaceLocation(servers[h0], Build!Current, Build!Path)]
    <3> DEFINE t == Build!PlaceLocation(servers[h0], Build!Current, Build!Path)
    <3>1. h0 \in DOMAIN servers /\ Build!nginxPath(Build!Path) \in Build!ToSet(LongestFirst)
      BY <2>1, <2>3, PlacedHere
    <3>2. t.cert = servers[h0].cert /\ t.aliases = servers[h0].aliases
      BY <1>2, <3>1, ServerAfterPath
    <3>3. /\ DOMAIN servers' = DOMAIN servers
          /\ \A h \in DOMAIN servers : servers'[h] = IF h = h0 THEN t ELSE servers[h]
      BY <2>3
    <3> HIDE DEF h0, t
    <3> QED
      BY <3>2, <3>3
  <2> QED
    BY <1>1, <1>4, <2>2, <2>3 DEF Build!placeLocations
<1> QED
  BY <1>1, <1>3, <1>4 DEF Build!createUpstreams, Build!mergeCanary, Build!NextPass

LEMMA RulePlaces ==
  ASSUME OfBuild, PlaceOK
  PROVE  /\ DOMAIN ings \subseteq Nat
         /\ \A k \in DOMAIN ings : \A r \in DOMAIN ings[k].rules : IsPlace(k, r, 0) /\ r # 0
<1>1. Len(ings) \in Nat /\ DOMAIN ings = 1 .. Len(ings)
  BY ListsOfIngresses DEF Build!IsList
<1>2. SUFFICES ASSUME NEW k \in DOMAIN ings, NEW r \in DOMAIN ings[k].rules
               PROVE  IsPlace(k, r, 0) /\ r # 0
  BY <1>1
<1>3. /\ Len(ings[k].rules) \in Nat /\ r \in 1 .. Len(ings[k].rules)
      /\ Len(ings[k].rules[r].paths) \in Nat
  BY ListsOfIngresses DEF Build!IsIngress, Build!IsList
<1>4. \A n \in Nat : 0 \in 0 .. n /\ \A i \in 1 .. n : i \in 0 .. n /\ i # 0
  OBVIOUS
<1>5. 0 \in 0 .. Len(ings[k].rules[r].paths) /\ r \in 0 .. Len(ings[k].rules) /\ r # 0
  BY <1>3, <1>4
<1> QED
  BY <1>1, <1>5 DEF IsPlace

LEMMA TlsStays ==
  ASSUME OfBuild, PlaceOK, ings' = ings,
         \A k, r : IsPlace(k, r, 0) /\ r # 0 => (Configured(k, r)' <=> Configured(k, r))
  PROVE  \A h : TlsOf(h)' = TlsOf(h)
BY RulePlaces DEF TlsOf

LEMMA CertsInit ==
  ASSUME OfBuild, Build!Init, UpstreamsOK
  PROVE  CertsOK /\ AliasesOK
<1>1. DOMAIN servers = {DefServer} /\ servers[DefServer].aliases = {} /\ phase = "upstreams"
  BY ServersInit DEF Build!Init
<1> QED
  BY <1>1 DEF CertsOK, AliasesOK

\* The steps that set no certificate.
LEMMA CertsKept ==
  ASSUME OfBuild, PlaceOK, UpstreamsOK, ServersOK, CertsOK, AliasesOK, UNCHANGED setup,
         \/ Build!createUpstreams \/ Build!createServers \/ Build!placeLocations
         \/ Build!mergeCanary \/ Build!NextPass,
         DOMAIN servers' = DOMAIN servers \/ phase' = "servers"
  PROVE  CertsOK' /\ AliasesOK'
<1>1. /\ ings' = ings
      /\ \/ phase' = phase /\ phase \in {"upstreams", "servers", "locations", "canary"}
         \/ Build!NextPass /\ phase = "upstreams" /\ phase' = "servers"
         \/ Build!NextPass /\ phase = "servers" /\ phase' = "tls" /\ Build!EndPass("servers", "tls")
         \/ Build!NextPass /\ phase = "locations" /\ phase' = "canary"
  BY DEF Build!createUpstreams, Build!createServers, Build!placeLocations, Build!mergeCanary,
     Build!NextPass, Build!Visit, Build!Visiting, Build!EndPass
<1>2. \A h : TlsOf(h)' = TlsOf(h)
  <2>1. ASSUME Build!EndPass("servers", "tls")
        PROVE  \A k, r, p : IsPlace(k, r, p) => ~Passed(k, r, p)'
    BY <2>1, PassEnds
  <2>2. \A k, r : IsPlace(k, r, 0) /\ r # 0 => (Configured(k, r)' <=> Configured(k, r))
    BY <1>1, <2>1 DEF Configured
  <2> QED
    BY <1>1, <2>2, TlsStays
<1>3. \A c, h, T : CertOK(c, h, T)' = CertOK(c, h, T)
  BY <1>1 DEF CertOK
<1>4. \A h \in DOMAIN servers' :
        \/ /\ h \in DOMAIN servers /\ servers'[h].cert = servers[h].cert
           /\ servers'[h].aliases = servers[h].aliases
        \/ Build!createServers /\ servers'[h].cert = None /\ servers'[h].aliases = {}
  BY ServerSettings
<1>5. Build!createServers => phase = "servers" /\ phase' = "servers"
  BY DEF Build!createServers, Build!Visit, Build!Visiting
<1>6. phase = "servers" => \A h : TlsOf(h) = {}
  BY DEF TlsOf, Configured
<1>7. CertsOK'
  <2>1. SUFFICES ASSUME NEW h \in DOMAIN servers', h # DefServer, NEW c, c = servers'[h].cert
                 PROVE  CertOK(c, h, TlsOf(h))
    BY <1>2, <1>3 DEF CertsOK
  <2>2. CASE h \in DOMAIN servers /\ servers'[h].cert = servers[h].cert
    BY <2>1, <2>2 DEF CertsOK
  <2>3. CASE Build!createServers /\ servers'[h].cert = None
    BY <1>5, <1>6, <2>1, <2>3 DEF CertOK
  <2> QED
    BY <1>4, <2>2, <2>3
<1>8. AliasesOK'
  <2>1. CASE phase \in {"upstreams", "servers"}
    BY <1>1, <1>4, <2>1 DEF AliasesOK
  <2>2. CASE phase \in {"locations", "canary"}
    <3>1. phase' \in {"locations", "canary"} /\ DOMAIN servers' = DOMAIN servers
      BY <1>1, <2>2
    <3>2. \A h \in DOMAIN servers : servers'[h].aliases = servers[h].aliases
      BY <1>4, <1>5, <2>2, <3>1
    <3> QED
      BY <2>2, <3>1, <3>2 DEF AliasesOK
  <2> QED
    BY <1>1, <2>1, <2>2
<1> QED
  BY <1>7, <1>8

\* The second pass.
LEMMA CertsConfigured ==
  ASSUME OfBuild, PlaceOK, ServersOK, CertsOK, AliasesOK, UNCHANGED setup,
         Build!configureServers, DOMAIN servers' = DOMAIN servers
  PROVE  CertsOK' /\ AliasesOK'
<1> DEFINE g == Build!Current
           h0 == Build!Host
<1>1. /\ Build!Visit("tls") /\ phase = "tls" /\ phase' = phase /\ ings' = ings
      /\ at.ing <= Len(ings)
  BY DEF Build!configureServers, Build!Visit, Build!Visiting
<1>2. /\ IsPlace(at.ing, at.rule, at.path) /\ IsAt(at.ing, at.rule, at.path)
      /\ \A k, r, p : IsPlace(k, r, p) => (Passed(k, r, p)' <=> Passed(k, r, p) \/ IsAt(k, r, p))
  BY <1>1, OnePassed
<1>3. /\ DOMAIN ings \subseteq Nat /\ DOMAIN ings = 1 .. Len(ings) /\ Len(ings) \in Nat
      /\ \A k \in DOMAIN ings : Build!IsIngress(ings[k])
  BY ListsOfIngresses, RulePlaces DEF Build!IsList
<1>4. at.ing \in DOMAIN ings /\ g = ings[at.ing] /\ g.ann.canary \in BOOLEAN /\ Build!IsList(g.tls)
  <2>1. at.ing \in DOMAIN ings
    BY <1>2, <1>3 DEF IsPlace
  <2> QED
    BY <1>3, <2>1 DEF Build!Current, Build!IsIngress
<1>5. \A k, r : (Configured(k, r) <=> Passed(k, r, 0)) /\ (Configured(k, r)' <=> Passed(k, r, 0)')
  BY <1>1 DEF Configured
<1>6. \A c, h, T : CertOK(c, h, T)' = CertOK(c, h, T)
  BY <1>1 DEF CertOK
<1>7. \A k, r : IsAt(k, r, 0) /\ r # 0 =>
        Build!AtRule /\ k = at.ing /\ Build!HostOf(ings[k].rules[r]) = h0
  BY DEF IsAt, Build!PlaceAt, PlaceOK, Build!AtRule, Build!Host, Build!Rule, Build!Current
<1>8. CASE g.ann.canary \/ ~Build!AtRule
  <2>1. servers' = servers /\ allAliases' = allAliases
    BY <1>8 DEF Build!configureServers
  <2>2. \A h : TlsOf(h)' = TlsOf(h)
    <3>1. ASSUME NEW h, NEW k \in DOMAIN ings, ~ings[k].ann.canary, NEW r \in DOMAIN ings[k].rules
          PROVE  Configured(k, r)' <=> Configured(k, r)
      BY <1>2, <1>4, <1>5, <1>7, <1>8, <3>1, RulePlaces
    <3> QED
      BY <1>1, <3>1 DEF TlsOf
  <2> QED
    BY <1>1, <1>6, <2>1, <2>2 DEF CertsOK, AliasesOK
<1>9. CASE ~(g.ann.canary \/ ~Build!AtRule)
  <2>1. /\ \A h \in DOMAIN servers :
             servers'[h] = IF h = h0 THEN Build!ConfigureServer(servers[h0], g, h0) ELSE servers[h]
        /\ allAliases' = Build!NoteAliases(allAliases, g, h0)
    BY <1>9 DEF Build!configureServers
  <2>2. \A h \in DOMAIN servers : DOMAIN servers[h] = ServerFields
    BY DEF ServersOK, ServerOK
  <2>3. DOMAIN allAliases \subseteq DOMAIN allAliases' /\ h0 \in DOMAIN allAliases'
    BY <2>1 DEF Build!NoteAliases, Build!Set
  <2>4. AliasesOK'
    BY <1>1, <2>1, <2>3 DEF AliasesOK
  <2>5. ASSUME NEW h, h # h0 \/ g.tls = <<>>
        PROVE  TlsOf(h)' = TlsOf(h)
    <3>1. ASSUME NEW k \in DOMAIN ings, ings[k].tls # <<>>, NEW r \in DOMAIN ings[k].rules,
                 Build!HostOf(ings[k].rules[r]) = h
          PROVE  Configured(k, r)' <=> Configured(k, r)
      BY <1>2, <1>4, <1>5, <1>7, <2>5, <3>1, RulePlaces
    <3> QED
      BY <1>1, <3>1 DEF TlsOf
  <2>6. ASSUME NEW h, h = h0, g.tls # <<>>
        PROVE  /\ \A k \in TlsOf(h) : k <= at.ing
               /\ \A k : k \in TlsOf(h)' <=> k \in TlsOf(h) \/ k = at.ing
    <3>1. \A k \in TlsOf(h) : k <= at.ing
      BY <1>3, <1>4, <1>5 DEF TlsOf, Passed
    <3>2. /\ at.rule \in DOMAIN ings[at.ing].rules /\ at.rule # 0 /\ IsAt(at.ing, at.rule, 0)
          /\ Build!HostOf(ings[at.ing].rules[at.rule]) = h
      <4>1. at.rule # 0 /\ at.path = 0
        BY <1>9 DEF Build!AtRule
      <4>2. Len(g.rules) \in Nat /\ DOMAIN g.rules = 1 .. Len(g.rules)
        BY <1>3, <1>4 DEF Build!IsIngress, Build!IsList
      <4>3. at.rule \in 0 .. Len(g.rules)
        BY <1>2, <1>4 DEF IsPlace
      <4>4. at.rule \in DOMAIN g.rules
        BY <4>1, <4>2, <4>3
      <4> QED
        BY <1>2, <1>4, <1>7, <2>6, <4>1, <4>4
    <3>3. \A k \in DOMAIN ings : \A r \in DOMAIN ings[k].rules :
            Configured(k, r)' <=> Configured(k, r) \/ IsAt(k, r, 0)
      BY <1>2, <1>5, RulePlaces
    <3>4. \A k \in DOMAIN ings : \A r \in DOMAIN ings[k].rules : IsAt(k, r, 0) => k = at.ing
      BY <1>7, RulePlaces
    <3>5. ASSUME NEW k
          PROVE  k \in TlsOf(h)' <=> k \in TlsOf(h) \/ k = at.ing
      <4>1. k \in TlsOf(h)' <=>
              /\ k \in DOMAIN ings /\ ~ings[k].ann.canary /\ ings[k].tls # <<>>
              /\ \E r \in DOMAIN ings[k].rules :
                    Build!HostOf(ings[k].rules[r]) = h /\ Configured(k, r)'
        BY <1>1 DEF TlsOf
      <4>2. k \in TlsOf(h) <=>
              /\ k \in DOMAIN ings /\ ~ings[k].ann.canary /\ ings[k].tls # <<>>
              /\ \E r \in DOMAIN ings[k].rules :
                    Build!HostOf(ings[k].rules[r]) = h /\ Configured(k, r)
        BY DEF TlsOf
      <4> QED
        BY <1>4, <1>9, <2>6, <3>2, <3>3, <3>4, <4>1, <4>2
    <3> QED
      BY <3>1, <3>5
  <2>7. ASSUME NEW h \in DOMAIN servers, h # DefServer, NEW c, c = servers'[h].cert,
               NEW T, T = TlsOf(h)'
        PROVE  CertOK(c, h, T)
    <3>1. CertOK(servers[h].cert, h, TlsOf(h))
      BY <2>7 DEF CertsOK
    <3>2. CASE h # h0
      BY <2>1, <2>5, <2>7, <3>1, <3>2
    <3>3. CASE h = h0
      <4>1. c = IF servers[h].cert # None \/ g.tls = <<>> THEN servers[h].cert
                ELSE Build!CertFor(g, h)
        BY <2>1, <2>2, <2>7, <3>3, SettingsOnly
      <4>2. CASE g.tls = <<>>
        BY <2>5, <2>7, <3>1, <4>1, <4>2
      <4>3. CASE g.tls # <<>>
        <5> DEFINE U == TlsOf(h)
        <5>1. T = U \cup {at.ing} /\ \A k \in U : k <= at.ing
          <6>1. /\ \A k \in U : k <= at.ing
                /\ \A k : k \in T <=> k \in U \/ k = at.ing
            BY <2>6, <2>7, <3>3, <4>3
          <6> QED
            BY <6>1
        <5>2. U \subseteq DOMAIN ings
          BY DEF TlsOf
        <5>3. servers[h].cert = IF U = {} THEN None ELSE Build!CertFor(ings[Build!Min(U)], h)
          BY <3>1 DEF CertOK
        <5> HIDE DEF U
        <5>4. at.ing \in Nat /\ U \subseteq Nat
          BY <1>3, <1>4, <5>2
        <5>5. (U # {} => Build!Min(T) = Build!Min(U)) /\ (U = {} => Build!Min(T) = at.ing)
          <6>1. U # {} => Build!Min(U \cup {at.ing}) = Build!Min(U)
            BY <5>1, <5>4, LeastStays
          <6>2. Build!Min({at.ing}) = at.ing
            BY <5>4, LeastIndex
          <6>3. U = {} => T = {at.ing}
            BY <5>1
          <6> QED
            BY <5>1, <6>1, <6>2, <6>3
        <5>6. T # {}
          BY <5>1
        <5>7. CASE U = {}
          BY <1>4, <4>1, <4>3, <5>3, <5>5, <5>6, <5>7 DEF CertOK
        <5>8. CASE U # {}
          <6>1. Build!Min(U) \in DOMAIN ings
            BY <5>2, <5>4, <5>8, LeastIndex
          <6>2. Build!IsList(ings[Build!Min(U)].tls)
            BY <1>3, <6>1 DEF Build!IsIngress
          <6>3. servers[h].cert # None
            BY <5>3, <5>8, <6>2, CertsGiven
          <6> QED
            BY <4>1, <5>3, <5>5, <5>6, <5>8, <6>3 DEF CertOK
        <5> QED
          BY <5>7, <5>8
      <4> QED
        BY <4>2, <4>3
    <3> QED
      BY <3>2, <3>3
  <2>8. CertsOK'
    BY <1>6, <2>7 DEF CertsOK
  <2> QED
    BY <2>4, <2>8
<1> QED
  BY <1>8, <1>9

\* The end of the second pass.
LEMMA AliasesDropped ==
  ASSUME OfBuild, PlaceOK, ServersOK, CertsOK, AliasesOK, UNCHANGED setup, Build!dropAliases
  PROVE  CertsOK' /\ AliasesOK'
<1>1. /\ Build!EndPass("tls", "locations") /\ phase = "tls" /\ phase' = "locations" /\ ings' = ings
      /\ servers' = [h \in DOMAIN servers |->
                       IF h \in DOMAIN allAliases
                       THEN [servers[h] EXCEPT !.aliases = allAliases[h] \ DOMAIN servers]
                       ELSE servers[h]]
  BY DEF Build!dropAliases, Build!EndPass
<1>2. \A k, r, p : IsPlace(k, r, p) => Passed(k, r, p)
  BY <1>1, PassEnds
<1>3. \A h : TlsOf(h)' = TlsOf(h)
  <2>1. \A k, r : IsPlace(k, r, 0) /\ r # 0 => (Configured(k, r)' <=> Configured(k, r))
    BY <1>1, <1>2 DEF Configured
  <2> QED
    BY <1>1, <2>1, TlsStays
<1>4. \A c, h, T : CertOK(c, h, T)' = CertOK(c, h, T)
  BY <1>1 DEF CertOK
<1>5. \A h \in DOMAIN servers : DOMAIN servers[h] = ServerFields
  BY DEF ServersOK, ServerOK
<1>6. /\ DOMAIN servers' = DOMAIN servers
      /\ \A h \in DOMAIN servers :
           /\ servers'[h].cert = servers[h].cert
           /\ servers'[h].aliases = IF h \in DOMAIN allAliases THEN allAliases[h] \ DOMAIN servers
                                    ELSE servers[h].aliases
  BY <1>1, <1>5 DEF ServerFields
<1>7. CertsOK'
  BY <1>3, <1>4, <1>6 DEF CertsOK
<1>8. AliasesOK'
  BY <1>1, <1>6 DEF AliasesOK
<1> QED
  BY <1>7, <1>8

\* The certificates of the servers ss are those of their oldest ingresses.
CertsRight(ss, gs) ==
  \A h \in DOMAIN ss \ {DefServer} :
    LET tls == {k \in DOMAIN gs : /\ ~gs[k].ann.canary /\ gs[k].tls # <<>>
                                  /\ \E r \in DOMAIN gs[k].rules :
                                        Build!HostOf(gs[k].rules[r]) = h}
        c   == ss[h].cert
    IN /\ (c = None) <=> (tls = {})
       /\ c \notin {None, "default"} =>
            /\ \E t \in DOMAIN gs[Build!Min(tls)].tls : gs[Build!Min(tls)].tls[t].secret = c
            /\ h \in CertHosts[c] \cup CommonName[c]

\* The certificates and aliases of the result are those of the passes.
LEMMA ConfigurationCertified ==
  ASSUME OfBuild, PlaceOK, ServersOK, CertsOK, AliasesOK, Build!getConfiguration
  PROVE  Build!OldestCertificate' /\ Build!AliasNotHost'
<1> DEFINE ss == [h \in DOMAIN servers |-> [servers[h] EXCEPT !.locs = Build!FinalLocations(h)]]
<1>1. cfg'.servers = ss /\ ings' = ings /\ phase = "canary"
  BY DEF Build!getConfiguration
<1>2. \A h \in DOMAIN servers : DOMAIN servers[h] = ServerFields
  BY DEF ServersOK, ServerOK
<1>3. /\ DOMAIN ss = DOMAIN servers
      /\ \A h \in DOMAIN servers : ss[h].cert = servers[h].cert /\ ss[h].aliases = servers[h].aliases
  BY <1>2 DEF ServerFields
<1> HIDE DEF ss
<1>4. Build!AliasNotHost'
  BY <1>1, <1>3 DEF Build!AliasNotHost, AliasesOK
<1>5. \A h : TlsOf(h) = {k \in DOMAIN ings : /\ ~ings[k].ann.canary /\ ings[k].tls # <<>>
                                             /\ \E r \in DOMAIN ings[k].rules :
                                                   Build!HostOf(ings[k].rules[r]) = h}
  BY <1>1 DEF TlsOf, Configured
<1>6. DOMAIN ings \subseteq Nat /\ \A k \in DOMAIN ings : Build!IsList(ings[k].tls)
  BY ListsOfIngresses, RulePlaces DEF Build!IsIngress
<1>7. ASSUME NEW h \in DOMAIN servers, h # DefServer, NEW c, c = servers[h].cert,
             NEW T, T = TlsOf(h)
      PROVE  /\ c = None <=> T = {}
             /\ c \notin {None, "default"} =>
                  /\ \E t \in DOMAIN ings[Build!Min(T)].tls : ings[Build!Min(T)].tls[t].secret = c
                  /\ h \in CertHosts[c] \cup CommonName[c]
  <2>1. c = IF T = {} THEN None ELSE Build!CertFor(ings[Build!Min(T)], h)
    BY <1>7 DEF CertsOK, CertOK
  <2>2. T \subseteq DOMAIN ings
    BY <1>7 DEF TlsOf
  <2>3. T # {} => Build!Min(T) \in DOMAIN ings
    BY <1>6, <2>2, LeastIndex
  <2>4. T # {} => Build!IsList(ings[Build!Min(T)].tls)
    BY <1>6, <2>3
  <2> QED
    BY <2>1, <2>4, CertsGiven
<1>8. CertsRight(ss, ings)
  BY <1>3, <1>5, <1>7 DEF CertsRight
<1>9. CertsRight(cfg'.servers, ings')
  BY <1>1, <1>8
<1>10. Build!OldestCertificate'
  BY <1>9 DEF Build!OldestCertificate, CertsRight
<1> QED
  BY <1>4, <1>10

-----------------------------------------------------------------------------
(* The locations go to the oldest ingress *)

\* Ingress k defines the location at a place the third pass has been.
Claimed(h, path, type) ==
  {k \in DOMAIN ings : \E r \in DOMAIN ings[k].rules : \E p \in DOMAIN ings[k].rules[r].paths :
      Build!DefinesAt(k, r, p, h, path, type) /\ (phase = "locations" => Passed(k, r, p))}

\* The first of these locations, if any, is the oldest ingress's; otherwise the default one
\* may be there alone.
HeldBy(locs, path, type, K) ==
  LET having == {i \in DOMAIN locs : locs[i].path = path /\ locs[i].type = type}
  IN IF K = {} THEN \A i \in having : locs[i].isDef
     ELSE /\ having # {}
          /\ ~locs[Build!Min(having)].isDef
          /\ locs[Build!Min(having)].ing = ings[Build!Min(K)].name

Taken(h, path) == h = DefServer /\ path = Root /\ SomeCatchAll

LocationsHeld ==
  \/ phase \notin {"locations", "canary"}
  \/ phase = "canary" /\ at # Build!First
  \/ \A h \in DOMAIN servers, path \in Build!ToSet(LongestFirst), type \in {"Exact", "Prefix"} :
       Taken(h, path) \/ HeldBy(servers[h].locs, path, type, Claimed(h, path, type))

LEMMA HeldWins ==
  ASSUME OfBuild, PlaceOK, LocationsHeld
  PROVE  Build!OldestWins
<1> SUFFICES ASSUME phase = "canary", at = Build!First,
                    NEW h \in DOMAIN servers, NEW path \in Build!ToSet(LongestFirst),
                    NEW type \in {"Exact", "Prefix"},
                    Build!Claims(h, path, type) # {}
             PROVE  \/ Taken(h, path)
                    \/ /\ Build!Having(h, path, type) # {}
                       /\ servers[h].locs[Build!Min(Build!Having(h, path, type))].ing
                            = ings[Build!Min(Build!Claims(h, path, type))].name
  BY DEF Build!OldestWins, Taken, SomeCatchAll
<1>1. Claimed(h, path, type) = Build!Claims(h, path, type)
  BY DEF Claimed, Build!Claims
<1>2. Taken(h, path) \/ HeldBy(servers[h].locs, path, type, Claimed(h, path, type))
  BY DEF LocationsHeld
<1> QED
  BY <1>1, <1>2 DEF HeldBy, Build!Having

\* A place's own location joins its server, unless one of an older ingress is there.
LEMMA HeldAfterPath ==
  ASSUME OfBuild, NEW s, ServerOK(s), NEW i \in Nat, NEW p,
         Build!nginxPath(p) \in Build!ToSet(LongestFirst), NEW path, NEW type,
         NEW K, K \in SUBSET Nat, \A k \in K : k <= i, HeldBy(s.locs, path, type, K)
  PROVE  /\ path = Build!nginxPath(p) /\ type = p.type =>
              HeldBy(Build!PlaceLocation(s, ings[i], p).locs, path, type, K \cup {i})
         /\ ~(path = Build!nginxPath(p) /\ type = p.type) =>
              HeldBy(Build!PlaceLocation(s, ings[i], p).locs, path, type, K)
<1> SUFFICES ASSUME NEW g, g = ings[i], NEW t, t = Build!PlaceLocation(s, g, p),
                    NEW L, L = IF path = Build!nginxPath(p) /\ type = p.type THEN K \cup {i} ELSE K
             PROVE  HeldBy(t.locs, path, type, L)
  OBVIOUS
<1> DEFINE new == PathLocation(g, p)
           H(l) == {j \in DOMAIN l : l[j].path = path /\ l[j].type = type}
<1>1. /\ new.path = Build!nginxPath(p) /\ new.type = p.type /\ new.isDef = FALSE
      /\ new.ing = ings[i].name
  BY APathLocation
<1>2. /\ IsSeq(s.locs) /\ Len(s.locs) \in Nat /\ DOMAIN s.locs = 1 .. Len(s.locs)
      /\ 1 \in DOMAIN s.locs /\ \A j \in DOMAIN s.locs : LocationOK(s.locs[j], j)
  BY SeqIsList DEF ServerOK
<1>3. \/ /\ t = s
         /\ \E k \in DOMAIN s.locs : /\ s.locs[k].path = new.path /\ s.locs[k].type = new.type
                                     /\ ~s.locs[k].isDef
      \/ /\ t.locs = Append(s.locs, new)
         /\ \A k \in DOMAIN s.locs :
              s.locs[k].isDef => ~(s.locs[k].path = new.path /\ s.locs[k].type = new.type)
      \/ /\ t.locs = [s.locs EXCEPT ![1] = new]
         /\ s.locs[1].isDef /\ s.locs[1].path = new.path /\ s.locs[1].type = new.type
  <2>1. new = PathLocation(g, p)
    OBVIOUS
  <2> HIDE DEF new
  <2> QED
    BY <2>1, PlaceLocationEffect
<1> HIDE DEF new
<1>4. /\ K = {} => \A j \in H(s.locs) : s.locs[j].isDef
      /\ K # {} => /\ H(s.locs) # {} /\ ~s.locs[Build!Min(H(s.locs))].isDef
                   /\ s.locs[Build!Min(H(s.locs))].ing = ings[Build!Min(K)].name
  BY DEF HeldBy
<1>5. H(s.locs) \subseteq DOMAIN s.locs /\ H(s.locs) \subseteq Nat
  BY <1>2
<1>6. CASE path = new.path /\ type = new.type
  <2>1. L = K \cup {i} /\ (K # {} => Build!Min(L) = Build!Min(K)) /\ (K = {} => Build!Min(L) = i)
    <3>1. L = K \cup {i}
      BY <1>1, <1>6
    <3>2. K # {} => Build!Min(K \cup {i}) = Build!Min(K)
      BY LeastStays
    <3>3. Build!Min({i}) = i
      BY LeastStays
    <3>4. K = {} => L = {i}
      BY <3>1
    <3> QED
      BY <3>1, <3>2, <3>3, <3>4
  <2>2. CASE t = s /\ \E k \in DOMAIN s.locs : /\ s.locs[k].path = new.path
                                               /\ s.locs[k].type = new.type /\ ~s.locs[k].isDef
    <3>1. K # {}
      BY <1>4, <1>6, <2>2
    <3> QED
      BY <1>4, <2>1, <2>2, <3>1 DEF HeldBy
  <2>3. CASE /\ t.locs = Append(s.locs, new)
             /\ \A k \in DOMAIN s.locs :
                  s.locs[k].isDef => ~(s.locs[k].path = new.path /\ s.locs[k].type = new.type)
    <3> DEFINE n == Len(s.locs) + 1
    <3>1. /\ DOMAIN t.locs = DOMAIN s.locs \cup {n} /\ t.locs[n] = new
          /\ \A j \in DOMAIN s.locs : t.locs[j] = s.locs[j]
      BY <1>2, <2>3, SeqAppend
    <3>2. H(t.locs) = H(s.locs) \cup {n}
      BY <1>6, <3>1
    <3>3. n \in Nat /\ \A j \in H(s.locs) : j <= n
      BY <1>2, <1>5
    <3> HIDE DEF n
    <3>4. CASE K = {}
      <4>1. H(s.locs) = {}
        BY <1>4, <1>6, <2>3, <3>4
      <4>2. H(t.locs) = {n}
        BY <3>2, <4>1
      <4>3. Build!Min(H(t.locs)) = n
        BY <3>3, <4>2, LeastIndex
      <4> QED
        BY <1>1, <2>1, <3>1, <3>4, <4>2, <4>3 DEF HeldBy
    <3>5. CASE K # {}
      <4>1. H(s.locs) # {}
        BY <1>4, <3>5
      <4>4. Build!Min(H(s.locs) \cup {n}) = Build!Min(H(s.locs)) /\ Build!Min(H(s.locs)) \in DOMAIN s.locs
        <5> DEFINE M == H(s.locs)
        <5>1. M \subseteq Nat /\ M \subseteq DOMAIN s.locs /\ M # {} /\ \A j \in M : j <= n
          BY <1>5, <3>3, <4>1
        <5> HIDE DEF M
        <5>2. Build!Min(M \cup {n}) = Build!Min(M)
          BY <3>3, <5>1, LeastStays
        <5>3. Build!Min(M) \in M
          BY <5>1, LeastIndex
        <5> QED
          BY <5>1, <5>2, <5>3 DEF M
      <4>2. Build!Min(H(t.locs)) = Build!Min(H(s.locs))
        BY <3>2, <4>4
      <4>3. H(t.locs) # {}
        BY <3>2
      <4> QED
        BY <1>4, <2>1, <3>1, <3>5, <4>2, <4>3, <4>4 DEF HeldBy
    <3> QED
      BY <3>4, <3>5
  <2>4. CASE /\ t.locs = [s.locs EXCEPT ![1] = new]
             /\ s.locs[1].isDef /\ s.locs[1].path = new.path /\ s.locs[1].type = new.type
    <3>1. /\ DOMAIN t.locs = DOMAIN s.locs /\ t.locs[1] = new
          /\ \A j \in DOMAIN s.locs : j # 1 => t.locs[j] = s.locs[j]
      BY <1>2, <2>4, SeqUpdate
    <3>2. H(t.locs) = H(s.locs) /\ 1 \in H(s.locs)
      BY <1>2, <1>6, <2>4, <3>1
    <3>3. Build!Min(H(s.locs)) = 1
      <4> DEFINE m == Build!Min(H(s.locs))
      <4>1. m \in H(s.locs) /\ m <= 1
        BY <1>5, <3>2, LeastIndex
      <4>2. \A j \in DOMAIN s.locs : j \in Nat /\ 1 <= j
        BY <1>2
      <4>3. m \in Nat /\ 1 <= m
        BY <1>5, <4>1, <4>2
      <4> HIDE DEF m
      <4>4. m = 1
        BY <4>1, <4>3
      <4> QED
        BY <4>4 DEF m
    <3>4. K = {}
      BY <1>4, <2>4, <3>3
    <3> QED
      BY <1>1, <2>1, <3>1, <3>2, <3>3, <3>4 DEF HeldBy
  <2> QED
    BY <1>3, <2>2, <2>3, <2>4
<1>7. CASE ~(path = new.path /\ type = new.type)
  <2>1. L = K
    BY <1>1, <1>7
  <2>2. H(t.locs) = H(s.locs) /\ \A j \in H(s.locs) : t.locs[j] = s.locs[j]
    <3>1. CASE t = s
      BY <3>1
    <3>2. CASE t.locs = Append(s.locs, new)
      <4>1. /\ DOMAIN t.locs = DOMAIN s.locs \cup {Len(s.locs) + 1} /\ t.locs[Len(s.locs) + 1] = new
            /\ \A j \in DOMAIN s.locs : t.locs[j] = s.locs[j]
        BY <1>2, <3>2, SeqAppend
      <4> QED
        BY <1>7, <4>1
    <3>3. CASE /\ t.locs = [s.locs EXCEPT ![1] = new]
               /\ s.locs[1].path = new.path /\ s.locs[1].type = new.type
      <4>1. /\ DOMAIN t.locs = DOMAIN s.locs /\ t.locs[1] = new
            /\ \A j \in DOMAIN s.locs : j # 1 => t.locs[j] = s.locs[j]
        BY <1>2, <3>3, SeqUpdate
      <4> QED
        BY <1>7, <3>3, <4>1
    <3> QED
      BY <1>3, <3>1, <3>2, <3>3
  <2>3. H(s.locs) # {} => Build!Min(H(s.locs)) \in H(s.locs)
    BY <1>5, LeastIndex
  <2>4. /\ L = {} => \A j \in H(t.locs) : t.locs[j].isDef
        /\ L # {} => /\ H(t.locs) # {} /\ ~t.locs[Build!Min(H(t.locs))].isDef
                     /\ t.locs[Build!Min(H(t.locs))].ing = ings[Build!Min(L)].name
    <3> HIDE DEF H
    <3> QED
      BY <1>4, <2>1, <2>2, <2>3
  <2> QED
    BY <2>4 DEF HeldBy
<1> QED
  BY <1>6, <1>7

\* The paths of the rules are places.
LEMMA PathPlaces ==
  ASSUME OfBuild, PlaceOK
  PROVE  \A k \in DOMAIN ings : \A r \in DOMAIN ings[k].rules :
           \A p \in DOMAIN ings[k].rules[r].paths : IsPlace(k, r, p) /\ r # 0 /\ p # 0
<1> SUFFICES ASSUME NEW k \in DOMAIN ings, NEW r \in DOMAIN ings[k].rules,
                    NEW p \in DOMAIN ings[k].rules[r].paths
             PROVE  IsPlace(k, r, p) /\ r # 0 /\ p # 0
  OBVIOUS
<1>1. IsPlace(k, r, 0) /\ r # 0
  BY RulePlaces
<1>2. /\ Len(ings[k].rules[r].paths) \in Nat /\ p \in 1 .. Len(ings[k].rules[r].paths)
  BY ListsOfIngresses DEF Build!IsIngress, Build!IsList
<1>3. \A n \in Nat : \A i \in 1 .. n : i \in 0 .. n /\ i # 0
  OBVIOUS
<1>4. p \in 0 .. Len(ings[k].rules[r].paths) /\ p # 0
  BY <1>2, <1>3
<1> QED
  BY <1>1, <1>4 DEF IsPlace

\* Who defines a location depends on the list, the hosts and which upstreams have servers.
LEMMA DefinesAlike ==
  ASSUME OfBuild, PlaceOK, UpstreamsOK, Early, phase # "upstreams",
         ings' = ings, DOMAIN servers' = DOMAIN servers,
         \A n \in DOMAIN ups : ups'[n].noServer = ups[n].noServer
  PROVE  \A k \in DOMAIN ings : \A r \in DOMAIN ings[k].rules :
           \A p \in DOMAIN ings[k].rules[r].paths : \A h, path, type :
              Build!DefinesAt(k, r, p, h, path, type)' <=> Build!DefinesAt(k, r, p, h, path, type)
<1> SUFFICES ASSUME NEW k \in DOMAIN ings, NEW r \in DOMAIN ings[k].rules,
                    NEW p \in DOMAIN ings[k].rules[r].paths, NEW h, NEW path, NEW type
             PROVE  Build!DefinesAt(k, r, p, h, path, type)' <=> Build!DefinesAt(k, r, p, h, path, type)
  OBVIOUS
<1> DEFINE rule == ings[k].rules[r]
           here == rule.paths[p]
<1>1. Build!DefinesAt(k, r, p, h, path, type) <=>
        /\ here.svc # None /\ Build!ServerOf(servers, Build!HostOf(rule)) = h
        /\ Build!nginxPath(here) = path /\ here.type = type
        /\ ~ups[Build!upstreamName(here.svc)].noServer
  BY DEF Build!DefinesAt
<1>2. Build!DefinesAt(k, r, p, h, path, type)' <=>
        /\ here.svc # None /\ Build!ServerOf(servers', Build!HostOf(rule)) = h
        /\ Build!nginxPath(here) = path /\ here.type = type
        /\ ~ups'[Build!upstreamName(here.svc)].noServer
  BY DEF Build!DefinesAt
<1>3. Build!ServerOf(servers', Build!HostOf(rule)) = Build!ServerOf(servers, Build!HostOf(rule))
  BY DEF Build!ServerOf
<1>4. here.svc # None => Build!upstreamName(here.svc) \in DOMAIN ups
  <2>1. here.svc # None => Made(k, r, p) /\ ServiceOf(k, r, p) = here.svc
    BY PathPlaces DEF Made, HasService, ServiceOf
  <2> QED
    BY <2>1 DEF UpstreamsOK
<1> QED
  BY <1>1, <1>2, <1>3, <1>4

\* A location that is defined here belongs to its path.
LEMMA DefinedHere ==
  ASSUME OfBuild, PlaceOK, Build!Visiting("locations"),
         NEW k \in DOMAIN ings, NEW r \in DOMAIN ings[k].rules,
         NEW p \in DOMAIN ings[k].rules[r].paths, IsAt(k, r, p), NEW h, NEW path, NEW type
  PROVE  /\ k = at.ing
         /\ Build!DefinesAt(k, r, p, h, path, type) <=>
              /\ Build!Placed /\ h = Build!ServerOf(servers, Build!Host)
              /\ path = Build!nginxPath(Build!Path) /\ type = Build!Path.type
<1>1. k = at.ing /\ r = at.rule /\ p = at.path /\ at.path # 0
  BY PathPlaces DEF IsAt, Build!PlaceAt, PlaceOK
<1> QED
  BY <1>1 DEF Build!DefinesAt, Build!Placed, Build!AtService, Build!Path, Build!Rule,
     Build!Current, Build!Host

LEMMA ClaimsGrow ==
  ASSUME OfBuild, PlaceOK, UpstreamsOK, ServersOK, RootsOnly, UNCHANGED setup,
         Build!placeLocations, NEW h, NEW path, NEW type
  PROVE  /\ Claimed(h, path, type) \subseteq Nat
         /\ \A k \in Claimed(h, path, type) : k <= at.ing
         /\ Claimed(h, path, type)' =
              IF /\ Build!Placed /\ h = Build!ServerOf(servers, Build!Host)
                 /\ path = Build!nginxPath(Build!Path) /\ type = Build!Path.type
              THEN Claimed(h, path, type) \cup {at.ing} ELSE Claimed(h, path, type)
<1> DEFINE Defined == /\ Build!Placed /\ h = Build!ServerOf(servers, Build!Host)
                      /\ path = Build!nginxPath(Build!Path) /\ type = Build!Path.type
<1>1. /\ Build!Visit("locations") /\ Build!Visiting("locations")
      /\ phase = "locations" /\ phase' = phase /\ ings' = ings
  BY DEF Build!placeLocations, Build!Visit, Build!Visiting
<1>2. /\ IsPlace(at.ing, at.rule, at.path) /\ IsAt(at.ing, at.rule, at.path)
      /\ \A k, r, p : IsPlace(k, r, p) => (Passed(k, r, p)' <=> Passed(k, r, p) \/ IsAt(k, r, p))
  BY <1>1, OnePassed
<1>3. DOMAIN ings \subseteq Nat /\ at.ing \in Nat
  BY <1>2, RulePlaces DEF IsPlace
<1>4. DOMAIN servers' = DOMAIN servers /\ \A n \in DOMAIN ups : ups'[n].noServer = ups[n].noServer
  BY PlaceKeepsServers, PlaceKeepsUpstreams
<1>5. \A k \in DOMAIN ings : \A r \in DOMAIN ings[k].rules : \A p \in DOMAIN ings[k].rules[r].paths :
        Build!DefinesAt(k, r, p, h, path, type)' <=> Build!DefinesAt(k, r, p, h, path, type)
  BY <1>1, <1>4, DefinesAlike DEF Early
<1>6. \A k : k \in Claimed(h, path, type) <=>
        k \in DOMAIN ings /\ \E r \in DOMAIN ings[k].rules : \E p \in DOMAIN ings[k].rules[r].paths :
           Build!DefinesAt(k, r, p, h, path, type) /\ Passed(k, r, p)
  BY <1>1 DEF Claimed
<1>7. \A k : k \in Claimed(h, path, type)' <=>
        k \in DOMAIN ings /\ \E r \in DOMAIN ings[k].rules : \E p \in DOMAIN ings[k].rules[r].paths :
           Build!DefinesAt(k, r, p, h, path, type) /\ (Passed(k, r, p) \/ IsAt(k, r, p))
  <2>1. \A k : k \in Claimed(h, path, type)' <=>
          k \in DOMAIN ings /\ \E r \in DOMAIN ings[k].rules : \E p \in DOMAIN ings[k].rules[r].paths :
             Build!DefinesAt(k, r, p, h, path, type)' /\ Passed(k, r, p)'
    BY <1>1 DEF Claimed
  <2>2. \A k \in DOMAIN ings : \A r \in DOMAIN ings[k].rules : \A p \in DOMAIN ings[k].rules[r].paths :
          Passed(k, r, p)' <=> Passed(k, r, p) \/ IsAt(k, r, p)
    BY <1>2, PathPlaces
  <2> QED
    BY <1>5, <2>1, <2>2
<1>8. \A k \in DOMAIN ings : \A r \in DOMAIN ings[k].rules : \A p \in DOMAIN ings[k].rules[r].paths :
        IsAt(k, r, p) => k = at.ing /\ (Build!DefinesAt(k, r, p, h, path, type) <=> Defined)
  BY <1>1, DefinedHere
<1>9. Defined => /\ at.ing \in DOMAIN ings /\ at.rule \in DOMAIN ings[at.ing].rules
              /\ at.path \in DOMAIN ings[at.ing].rules[at.rule].paths
  <2> SUFFICES ASSUME Defined
               PROVE  /\ at.ing \in DOMAIN ings /\ at.rule \in DOMAIN ings[at.ing].rules
                      /\ at.path \in DOMAIN ings[at.ing].rules[at.rule].paths
    OBVIOUS
  <2>1. at.rule # 0 /\ at.path # 0
    BY <1>1, PlacedHere DEF Build!Placed, Build!AtService
  <2>2. at.ing \in DOMAIN ings
    BY <1>2, ListsOfIngresses DEF IsPlace, Build!IsList
  <2>3. Build!IsIngress(ings[at.ing])
    BY <2>2, ListsOfIngresses
  <2>4. at.rule \in DOMAIN ings[at.ing].rules
    BY <1>2, <2>1, <2>3 DEF IsPlace, Build!IsIngress, Build!IsList
  <2>5. /\ Len(ings[at.ing].rules[at.rule].paths) \in Nat
        /\ DOMAIN ings[at.ing].rules[at.rule].paths = 1 .. Len(ings[at.ing].rules[at.rule].paths)
    BY <2>3, <2>4 DEF Build!IsIngress, Build!IsList
  <2>6. at.path \in 0 .. Len(ings[at.ing].rules[at.rule].paths)
    BY <1>2, <2>1 DEF IsPlace
  <2>7. \A n \in Nat : \A i \in 0 .. n : i # 0 => i \in 1 .. n
    OBVIOUS
  <2> QED
    BY <2>1, <2>2, <2>4, <2>5, <2>6, <2>7
<1> HIDE DEF Defined
<1>10. \A k : k \in Claimed(h, path, type)' <=> k \in Claimed(h, path, type) \/ (Defined /\ k = at.ing)
  BY <1>2, <1>6, <1>7, <1>8, <1>9
<1>11. \A k \in Claimed(h, path, type) : k \in Nat /\ k <= at.ing
  BY <1>3, <1>6 DEF Passed
<1>12. Claimed(h, path, type)' = IF Defined THEN Claimed(h, path, type) \cup {at.ing}
                                ELSE Claimed(h, path, type)
  <2> DEFINE A == Claimed(h, path, type)
  <2>1. \A k : k \in A' <=> k \in A \/ (Defined /\ k = at.ing)
    BY <1>10
  <2> HIDE DEF A
  <2>2. A' = IF Defined THEN A \cup {at.ing} ELSE A
    BY <2>1
  <2> QED
    BY <2>2 DEF A
<1> QED
  BY <1>11, <1>12 DEF Defined

\* The third pass.
LEMMA LocationsPlaced ==
  ASSUME OfBuild, PlaceOK, UpstreamsOK, ServersOK, RootsOnly, LocationsHeld, UNCHANGED setup,
         Build!placeLocations
  PROVE  LocationsHeld'
<1>1. /\ Build!Visit("locations") /\ Build!Visiting("locations")
      /\ phase = "locations" /\ phase' = phase /\ ings' = ings
  BY DEF Build!placeLocations, Build!Visit, Build!Visiting
<1>2. DOMAIN servers' = DOMAIN servers
  BY PlaceKeepsServers
<1>3. /\ \A l, path, type, K : HeldBy(l, path, type, K)' <=> HeldBy(l, path, type, K)
      /\ \A h, path : Taken(h, path)' <=> Taken(h, path)
  BY <1>1 DEF HeldBy, Taken, SomeCatchAll
<1> SUFFICES ASSUME NEW h \in DOMAIN servers, NEW path \in Build!ToSet(LongestFirst),
                    NEW type \in {"Exact", "Prefix"}, ~Taken(h, path),
                    NEW l, l = servers'[h].locs, NEW L, L = Claimed(h, path, type)'
             PROVE  HeldBy(l, path, type, L)
  BY <1>1, <1>2, <1>3 DEF LocationsHeld
<1> DEFINE h0 == Build!ServerOf(servers, Build!Host)
           K == Claimed(h, path, type)
<1>4. /\ K \subseteq Nat /\ \A k \in K : k <= at.ing
      /\ L = IF Build!Placed /\ h = h0 /\ path = Build!nginxPath(Build!Path) /\ type = Build!Path.type
             THEN K \cup {at.ing} ELSE K
  BY ClaimsGrow
<1>5. HeldBy(servers[h].locs, path, type, K)
  BY <1>1 DEF LocationsHeld
<1> HIDE DEF K
<1>6. \A x \in DOMAIN servers : ServerOK(servers[x]) /\ DOMAIN servers[x] = ServerFields
  BY DEF ServersOK, ServerOK
<1>7. CASE Build!AtRule /\ (Build!Rule.http \/ Build!Host = DefServer)
  <2>1. servers' = [servers EXCEPT ![h0] = Build!WithAuth(servers[h0], Build!Current)]
    BY <1>7 DEF Build!placeLocations
  <2>2. servers'[h] = IF h = h0 THEN Build!WithAuth(servers[h0], Build!Current) ELSE servers[h]
    BY <2>1
  <2>3. l = servers[h].locs
    BY <1>6, <2>2, AuthOnly
  <2>4. ~Build!Placed
    BY <1>7 DEF Build!AtRule, Build!Placed, Build!AtService
  <2> QED
    BY <1>4, <1>5, <2>3, <2>4
<1>8. CASE ~(Build!AtRule /\ (Build!Rule.http \/ Build!Host = DefServer)) /\ ~Build!Placed
  <2>1. servers' = servers
    BY <1>8 DEF Build!placeLocations
  <2> QED
    BY <1>4, <1>5, <1>8, <2>1
<1>9. CASE ~(Build!AtRule /\ (Build!Rule.http \/ Build!Host = DefServer)) /\ Build!Placed
  <2>1. servers' = [servers EXCEPT ![h0] =
                      Build!PlaceLocation(servers[h0], Build!Current, Build!Path)]
    BY <1>9 DEF Build!placeLocations
  <2>2. CASE h # h0
    BY <1>4, <1>5, <2>1, <2>2
  <2>3. CASE h = h0
    <3> DEFINE t == Build!PlaceLocation(servers[h], Build!Current, Build!Path)
    <3>1. l = t.locs
      BY <2>1, <2>3
    <3>2. Build!nginxPath(Build!Path) \in Build!ToSet(LongestFirst)
      BY <1>1, <1>9, PlacedHere
    <3>3. at.ing \in Nat /\ Build!Current = ings[at.ing]
      BY <1>1, Here, ListsOfIngresses DEF IsPlace, Build!IsList, Build!Current
    <3>4. L = IF path = Build!nginxPath(Build!Path) /\ type = Build!Path.type
              THEN K \cup {at.ing} ELSE K
      BY <1>4, <1>9, <2>3
    <3>5. ServerOK(servers[h])
      BY <1>6
    <3>6. HeldBy(t.locs, path, type, L)
      <4>1. t = Build!PlaceLocation(servers[h], Build!Current, Build!Path)
        OBVIOUS
      <4> HIDE DEF t
      <4> QED
        <5>1. HeldBy(servers[h].locs, path, type, K) /\ K \subseteq Nat
              /\ \A k \in K : k <= at.ing
          BY <1>4, <1>5
        <5> QED
          BY <3>2, <3>3, <3>4, <3>5, <4>1, <5>1, HeldAfterPath
    <3> QED
      BY <3>1, <3>6
  <2> QED
    BY <2>2, <2>3
<1> QED
  BY <1>7, <1>8, <1>9

\* Before the first path there are default locations alone, or the catch-all.
LEMMA LocationsStart ==
  ASSUME OfBuild, PlaceOK, ServersOK, RootsOnly, UNCHANGED setup, Build!dropAliases
  PROVE  LocationsHeld'
<1>1. /\ Build!EndPass("tls", "locations") /\ phase = "tls" /\ phase' = "locations" /\ ings' = ings
      /\ servers' = [h \in DOMAIN servers |->
                       IF h \in DOMAIN allAliases
                       THEN [servers[h] EXCEPT !.aliases = allAliases[h] \ DOMAIN servers]
                       ELSE servers[h]]
  BY DEF Build!dropAliases, Build!EndPass
<1>2. \A k, r, p : IsPlace(k, r, p) => ~Passed(k, r, p)'
  BY <1>1, PassEnds
<1>3. \A h, path, type : Claimed(h, path, type)' = {}
  <2>1. \A k \in DOMAIN ings : \A r \in DOMAIN ings[k].rules : \A p \in DOMAIN ings[k].rules[r].paths :
          ~Passed(k, r, p)'
    BY <1>2, PathPlaces
  <2> QED
    BY <1>1, <2>1 DEF Claimed
<1>4. \A h \in DOMAIN servers : DOMAIN servers[h] = ServerFields
  BY DEF ServersOK, ServerOK
<1>5. DOMAIN servers' = DOMAIN servers /\ \A h \in DOMAIN servers : servers'[h].locs = servers[h].locs
  BY <1>1, <1>4 DEF ServerFields
<1>6. \A h, path : Taken(h, path)' <=> Taken(h, path)
  BY <1>1 DEF Taken, SomeCatchAll
<1>7. \A l, path, type : HeldBy(l, path, type, {})' <=>
        \A i \in DOMAIN l : l[i].path = path /\ l[i].type = type => l[i].isDef
  BY DEF HeldBy
<1>8. ASSUME NEW h \in DOMAIN servers, NEW path, NEW type, ~Taken(h, path),
             NEW l, l = servers'[h].locs
      PROVE  HeldBy(l, path, type, {})'
  <2>1. l = servers[h].locs
    BY <1>5, <1>8
  <2>2. /\ DOMAIN l = {1} /\ l[1].path = Root
        /\ ~l[1].isDef => h = DefServer /\ SomeCatchAll
    BY <1>1, <2>1 DEF RootsOnly
  <2> QED
    BY <1>7, <1>8, <2>2 DEF Taken
<1>9. ASSUME NEW h \in DOMAIN servers, NEW path, NEW type, ~Taken(h, path)
      PROVE  HeldBy(servers[h].locs, path, type, Claimed(h, path, type))'
  BY <1>3, <1>8, <1>9
<1> QED
  BY <1>1, <1>5, <1>6, <1>9 DEF LocationsHeld

\* The other steps: the third pass ends, or has not begun, or a later one goes on.
LEMMA LocationsKept ==
  ASSUME OfBuild, PlaceOK, UpstreamsOK, ServersOK, LocationsHeld, UNCHANGED setup,
         \/ Build!createUpstreams \/ Build!createServers \/ Build!configureServers
         \/ Build!mergeCanary \/ Build!NextPass
  PROVE  LocationsHeld'
<1>1. CASE Build!createUpstreams \/ Build!createServers \/ Build!configureServers
  BY <1>1 DEF Build!createUpstreams, Build!createServers, Build!configureServers, Build!Visit,
     Build!Visiting, LocationsHeld
<1>2. CASE Build!mergeCanary
  <2>1. /\ Build!Visiting("canary") /\ phase' = "canary" /\ at' = Build!Following
    BY <1>2 DEF Build!mergeCanary, Build!Visit, Build!Visiting
  <2>2. IsPlace(at.ing, at.rule, at.path)
    BY <2>1, Here
  <2>3. at.ing \in Nat /\ at.ing # 0 /\ at.rule \in Nat
    <3>1. Len(ings) \in Nat /\ DOMAIN ings = 1 .. Len(ings)
      BY ListsOfIngresses DEF Build!IsList
    <3>2. at.ing \in DOMAIN ings /\ at.rule \in 0 .. Len(ings[at.ing].rules)
      BY <2>2, <3>1 DEF IsPlace
    <3>3. Len(ings[at.ing].rules) \in Nat
      BY <3>2, ListsOfIngresses DEF Build!IsIngress, Build!IsList
    <3> QED
      BY <3>1, <3>2, <3>3
  <2>4. at.path \in Nat
    <3>1. CASE at.rule = 0
      BY <2>2, <3>1 DEF IsPlace
    <3>2. CASE at.rule # 0
      <4>1. at.ing \in DOMAIN ings
        BY <2>2, ListsOfIngresses DEF IsPlace, Build!IsList
      <4>2. at.rule \in DOMAIN ings[at.ing].rules
        BY <2>2, <3>2, <4>1, ListsOfIngresses DEF IsPlace, Build!IsIngress, Build!IsList
      <4>3. Len(ings[at.ing].rules[at.rule].paths) \in Nat
        BY <4>1, <4>2, ListsOfIngresses DEF Build!IsIngress, Build!IsList
      <4> QED
        BY <2>2, <3>2, <4>3 DEF IsPlace
    <3> QED
      BY <3>1, <3>2
  <2>5. at' # Build!First
    BY <2>1, <2>3, <2>4 DEF Build!Following, Build!First, Build!PlaceAt
  <2> QED
    BY <2>1, <2>5 DEF LocationsHeld
<1>3. CASE Build!NextPass
  <2>1. /\ ings' = ings /\ servers' = servers /\ ups' = ups
        /\ \/ phase' \in {"servers", "tls"}
           \/ Build!EndPass("locations", "canary") /\ phase = "locations" /\ phase' = "canary"
    BY <1>3 DEF Build!NextPass, Build!EndPass
  <2>2. CASE phase' \in {"servers", "tls"}
    BY <2>2 DEF LocationsHeld
  <2>3. CASE Build!EndPass("locations", "canary") /\ phase = "locations" /\ phase' = "canary"
    <3>1. \A k, r, p : IsPlace(k, r, p) => Passed(k, r, p)
      BY <2>3, PassEnds
    <3>2. \A k \in DOMAIN ings : \A r \in DOMAIN ings[k].rules : \A p \in DOMAIN ings[k].rules[r].paths :
            Passed(k, r, p)
      BY <3>1, PathPlaces
    <3>3. \A k \in DOMAIN ings : \A r \in DOMAIN ings[k].rules : \A p \in DOMAIN ings[k].rules[r].paths :
            \A h, path, type :
              Build!DefinesAt(k, r, p, h, path, type)' <=> Build!DefinesAt(k, r, p, h, path, type)
      BY <2>1, <2>3, DefinesAlike DEF Early
    <3>4. \A h, path, type : Claimed(h, path, type)' = Claimed(h, path, type)
      BY <2>1, <2>3, <3>2, <3>3 DEF Claimed
    <3>5. /\ \A l, path, type, K : HeldBy(l, path, type, K)' <=> HeldBy(l, path, type, K)
          /\ \A h, path : Taken(h, path)' <=> Taken(h, path)
      BY <2>1 DEF HeldBy, Taken, SomeCatchAll
    <3>6. \A h \in DOMAIN servers, path \in Build!ToSet(LongestFirst), type \in {"Exact", "Prefix"} :
            Taken(h, path) \/ HeldBy(servers[h].locs, path, type, Claimed(h, path, type))
      BY <2>3 DEF LocationsHeld
    <3> QED
      BY <2>1, <3>4, <3>5, <3>6 DEF LocationsHeld
  <2> QED
    BY <2>1, <2>2, <2>3
<1> QED
  BY <1>1, <1>2, <1>3

-----------------------------------------------------------------------------
(* The oldest ingress wins *)

PrecedenceOK ==
  /\ BuildOK
  /\ phase \notin {"done", "panicked"} => CertsOK /\ AliasesOK
  /\ LocationsHeld
  /\ Build!OldestCertificate /\ Build!AliasNotHost

LEMMA NotReturned ==
  ASSUME cfg' = None
  PROVE  Build!OldestCertificate' /\ Build!AliasNotHost'
BY DEF Build!OldestCertificate, Build!AliasNotHost

LEMMA PrecedenceInit == OfBuild /\ Build!Init => PrecedenceOK
<1> SUFFICES ASSUME OfBuild, Build!Init
             PROVE  PrecedenceOK
  OBVIOUS
<1>1. BuildOK /\ phase = "upstreams" /\ cfg = None
  BY BuildInit DEF Build!Init
<1>2. CertsOK /\ AliasesOK
  BY <1>1, CertsInit DEF BuildOK
<1> QED
  BY <1>1, <1>2 DEF PrecedenceOK, LocationsHeld, Build!OldestCertificate, Build!AliasNotHost

LEMMA PrecedenceStays ==
  ASSUME OfBuild, PrecedenceOK, UNCHANGED setup,
         UNCHANGED <<phase, ings, at, ups, servers, allAliases, cfg>>
  PROVE  PrecedenceOK'
<1>1. BuildOK'
  BY BuildStays DEF PrecedenceOK
<1>2. /\ Build!OldestCertificate' <=> Build!OldestCertificate
      /\ Build!AliasNotHost' <=> Build!AliasNotHost
  BY DEF Build!OldestCertificate, Build!AliasNotHost
<1>3. CertsOK' <=> CertsOK
  <2>1. \A h : TlsOf(h)' = TlsOf(h)
    BY DEF TlsOf, Configured, Passed
  <2>2. \A c, h, T : CertOK(c, h, T)' <=> CertOK(c, h, T)
    BY DEF CertOK
  <2> QED
    BY <2>1, <2>2 DEF CertsOK
<1>4. AliasesOK' <=> AliasesOK
  BY DEF AliasesOK
<1>5. LocationsHeld' <=> LocationsHeld
  <2>1. \A h, path, type : Claimed(h, path, type)' = Claimed(h, path, type)
    BY DEF Claimed, Passed, Build!DefinesAt
  <2>2. /\ \A l, path, type, K : HeldBy(l, path, type, K)' <=> HeldBy(l, path, type, K)
        /\ \A h, path : Taken(h, path)' <=> Taken(h, path)
    BY DEF HeldBy, Taken, SomeCatchAll
  <2> QED
    BY <2>1, <2>2 DEF LocationsHeld
<1> QED
  BY <1>1, <1>2, <1>3, <1>4, <1>5 DEF PrecedenceOK

LEMMA PrecedenceStep ==
  ASSUME OfBuild, PrecedenceOK, UNCHANGED setup, Build!Step
  PROVE  PrecedenceOK'
<1>1. BuildOK' /\ BuildOK /\ PlaceOK
  BY BuildStep DEF PrecedenceOK, BuildOK
<1>2. ASSUME phase \notin {"done", "panicked"}
      PROVE  UpstreamsOK /\ ServersOK /\ RootsOnly /\ CertsOK /\ AliasesOK /\ cfg = None
  BY <1>1, <1>2 DEF PrecedenceOK, BuildOK
<1>3. ASSUME cfg' = cfg, phase \notin {"done", "panicked"}, CertsOK' /\ AliasesOK', LocationsHeld'
      PROVE  PrecedenceOK'
  BY <1>1, <1>2, <1>3, NotReturned DEF PrecedenceOK
<1>4. ASSUME \/ Build!createUpstreams \/ Build!createServers \/ Build!placeLocations
             \/ Build!mergeCanary \/ Build!NextPass
      PROVE  PrecedenceOK'
  <2>1. cfg' = cfg /\ phase \notin {"done", "panicked"}
    BY <1>4 DEF Build!createUpstreams, Build!createServers, Build!placeLocations,
       Build!mergeCanary, Build!NextPass, Build!Visit, Build!Visiting, Build!EndPass
  <2>2. DOMAIN servers' = DOMAIN servers \/ phase' = "servers"
    <3>1. CASE Build!createUpstreams \/ Build!mergeCanary \/ Build!NextPass
      BY <3>1 DEF Build!createUpstreams, Build!mergeCanary, Build!NextPass
    <3>2. CASE Build!createServers
      BY <3>2 DEF Build!createServers, Build!Visit, Build!Visiting
    <3>3. CASE Build!placeLocations
      BY <1>1, <1>2, <2>1, <3>3, PlaceKeepsServers
    <3> QED
      BY <1>4, <3>1, <3>2, <3>3
  <2>3. CertsOK' /\ AliasesOK'
    BY <1>1, <1>2, <1>4, <2>1, <2>2, CertsKept
  <2>4. LocationsHeld'
    BY <1>1, <1>2, <1>4, <2>1, LocationsKept, LocationsPlaced DEF PrecedenceOK
  <2> QED
    BY <1>3, <2>1, <2>3, <2>4
<1>5. ASSUME Build!configureServers
      PROVE  PrecedenceOK'
  <2>1. cfg' = cfg /\ phase = "tls"
    BY <1>5 DEF Build!configureServers, Build!Visit, Build!Visiting
  <2>2. CertsOK' /\ AliasesOK' /\ LocationsHeld'
    BY <1>1, <1>2, <1>5, <2>1, ConfigureKeeps, CertsConfigured, LocationsKept DEF PrecedenceOK
  <2> QED
    BY <1>3, <2>1, <2>2
<1>6. ASSUME Build!dropAliases
      PROVE  PrecedenceOK'
  <2>1. cfg' = cfg /\ phase = "tls"
    BY <1>6 DEF Build!dropAliases, Build!EndPass
  <2>2. CertsOK' /\ AliasesOK' /\ LocationsHeld'
    BY <1>1, <1>2, <1>6, <2>1, AliasesDropped, LocationsStart DEF PrecedenceOK
  <2> QED
    BY <1>3, <2>1, <2>2
<1>7. ASSUME Build!panic
      PROVE  PrecedenceOK'
  <2>1. phase = "canary" /\ phase' = "panicked" /\ cfg' = cfg
    BY <1>7 DEF Build!panic, Build!Visiting
  <2> QED
    BY <1>1, <1>2, <2>1, NotReturned DEF PrecedenceOK, LocationsHeld
<1>8. ASSUME Build!getConfiguration
      PROVE  PrecedenceOK'
  <2>1. phase = "canary" /\ phase' = "done"
    BY <1>8 DEF Build!getConfiguration
  <2>2. Build!OldestCertificate' /\ Build!AliasNotHost'
    BY <1>1, <1>2, <1>8, <2>1, ConfigurationCertified
  <2> QED
    BY <1>1, <2>1, <2>2 DEF PrecedenceOK, LocationsHeld
<1>9. ASSUME Build!Done
      PROVE  PrecedenceOK'
  <2>1. UNCHANGED <<phase, ings, at, ups, servers, allAliases, cfg>>
    BY <1>9 DEF Build!Done, Build!vars
  <2> QED
    BY <2>1, PrecedenceStays
<1> QED
  BY <1>4, <1>5, <1>6, <1>7, <1>8, <1>9 DEF Build!Step

(***************************************************************************)
(* Where ingresses meet, the oldest wins: the first location of a host,    *)
(* path and type and the certificate of a host are those of the oldest     *)
(* ingress that defines them, and no alias is the host of another server   *)
(* (getBackendServers, createServers).                                     *)
(***************************************************************************)
THEOREM OldestIngressWins == Spec => []IngressPrecedence
<1>1. Init => (OfBuild => PrecedenceOK)
  BY InitOfOne, PrecedenceInit
<1>2. (OfBuild => PrecedenceOK) /\ [Next]_vars => (OfBuild => PrecedenceOK)'
  <2> SUFFICES ASSUME OfBuild => PrecedenceOK, [Next]_vars
               PROVE  (OfBuild => PrecedenceOK)'
    OBVIOUS
  <2>1. setup' = setup
    BY StepOfOne
  <2>2. CASE OfBuild
    <3>1. CASE Build!Next
      BY <2>1, <2>2, <3>1, PrecedenceStep DEF Build!Next
    <3>2. CASE UNCHANGED <<Build!vars, setup>>
      <4>1. UNCHANGED <<phase, ings, at, ups, servers, allAliases, cfg>>
        BY <3>2 DEF Build!vars
      <4> QED
        BY <2>1, <2>2, <4>1, PrecedenceStays
    <3> QED
      BY <2>2, <3>1, <3>2, StepOfOne
  <2>3. CASE ~OfBuild
    BY <2>1, <2>3 DEF OfBuild
  <2> QED
    BY <2>2, <2>3
<1>3. (OfBuild => PrecedenceOK) => IngressPrecedence
  BY HeldWins DEF PrecedenceOK, BuildOK, IngressPrecedence
<1> QED
  BY <1>1, <1>2, <1>3, PTL DEF Spec
=============================================================================
