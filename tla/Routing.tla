------------------------------- MODULE Routing -------------------------------
(***************************************************************************)
(* What one NGINX worker does with the requests of client sessions:        *)
(* balancer.lua chooses between the backend of a location and its canary,  *)
(* and the sticky balancers keep a session at one endpoint by a cookie.    *)
(* The table of balancers changes under the requests (sync_backends).      *)
(*                                                                         *)
(* A session has one request at a time.  The location is one for which     *)
(* should_set_cookie holds.                                                *)
(***************************************************************************)
EXTENDS Integers, Sequences, FiniteSetsExt

CONSTANTS
  Sessions, Endpoints,
  Keys, Ring,      \* resty.chash: the endpoints in the order of the ring, per key
  Setups,          \* name -> what the definitions below take from it
  None

VARIABLE setup     \* the setup of this behaviour

Mode            == Setups[setup].mode            \* affinity-mode: "persistent" or "balanced"
Legacy          == Setups[setup].legacy          \* affinity-canary-behavior: legacy
ChangeOnFailure == Setups[setup].changeOnFailure \* session-cookie-change-on-failure
Configs         == Setups[setup].configs         \* what the controller sends: [main, canary, alt]
Policies        == Setups[setup].policies        \* the traffic shaping policies of the canary
Headers         == Setups[setup].headers         \* values of a request's header and cookie
MaxTries        == Setups[setup].tries           \* proxy_next_upstream_tries

Backends == {"main", "canary"}

Config == [main : SUBSET Endpoints, canary : SUBSET Endpoints, alt : BOOLEAN]

RoutingAssumption ==
  /\ None \notin Endpoints
  /\ None \notin [key : Keys \cup (Backends \X Endpoints), backend : Backends]
  /\ Ring \in [Keys -> Seq(Endpoints)]
  /\ \A n \in DOMAIN Setups :
       /\ Setups[n].mode \in {"persistent", "balanced"}
       /\ Setups[n].legacy \in BOOLEAN /\ Setups[n].changeOnFailure \in BOOLEAN
       /\ Setups[n].configs \subseteq Config /\ Setups[n].tries \in Nat
       /\ \A p \in Setups[n].policies : p.weight \in Int

\* A cookie names an endpoint by a key, and the balancer that set it.
CookieKeys == IF Mode = "balanced" THEN Keys ELSE Backends \X Endpoints
Cookies == [key : CookieKeys, backend : Backends] \cup {None}

Header == Headers \cup {None}
NoRequest == [on |-> FALSE]
Request ==
  [on : {TRUE}, header : Header, canaryCookie : Header, affine : BOOLEAN,
   to : Backends, detached : BOOLEAN, nodes : SUBSET Endpoints,
   tried : SUBSET Endpoints, fails : 0..MaxTries, peer : Endpoints \cup {None},
   setCookie : Cookies, stays : BOOLEAN]

VARIABLES
  nodes,   \* balancers: the endpoints of each; {} if there is no balancer
  alt,     \* alternative_backends of main has the canary
  policy,  \* traffic_shaping_policy of the canary
  cookie,  \* the session cookie of every client
  req,     \* the request of every client
  last     \* history: backend and endpoint of the last answer, while they last

vars == <<nodes, alt, policy, cookie, req, last>>

TypeOK ==
  /\ setup \in DOMAIN Setups
  /\ nodes \in [Backends -> SUBSET Endpoints]
  /\ alt \in BOOLEAN /\ policy \in Policies
  /\ cookie \in [Sessions -> Cookies]
  /\ req \in [Sessions -> Request \cup {NoRequest}]
  /\ last \in [Sessions -> (Backends \X Endpoints) \cup {None}]

Init ==
  /\ setup \in DOMAIN Setups
  /\ \E c \in Configs : nodes = [b \in Backends |-> c[b]] /\ alt = c.alt
  /\ policy \in Policies
  /\ cookie = [s \in Sessions |-> None]
  /\ req = [s \in Sessions |-> NoRequest]
  /\ last = [s \in Sessions |-> None]

-----------------------------------------------------------------------------
(* Canary rules *)

\* "yes", "no", or "next": the rule does not decide
HeaderRule(p, h) ==
  CASE ~p.header \/ h = None -> "next"
    [] p.header /\ h # None /\ p.value # None -> IF h = p.value THEN "yes" ELSE "next"
    [] p.header /\ h # None /\ p.value = None /\ p.pattern = "error" -> "no"
    [] p.header /\ h # None /\ p.value = None /\ p.pattern \notin {None, "error"} ->
         IF h = p.pattern THEN "yes" ELSE "next"
    [] OTHER -> CASE h = "always" -> "yes" [] h = "never" -> "no" [] OTHER -> "next"

CookieRule(p, c) ==
  CASE ~p.cookie -> "next"
    [] p.cookie /\ c = "always" -> "yes"
    [] p.cookie /\ c = "never" -> "no"
    [] OTHER -> "next"

\* math.random(weightTotal) <= weight, for every value it may return
WeightRule(p) ==
  LET total == IF p.total > 100 THEN p.total ELSE 100
  IN  {go \in BOOLEAN : IF go THEN p.weight >= 1 ELSE p.weight < total}

\* As if the cookie were looked at first.
CookieFirst(p, h, c) ==
  IF CookieRule(p, c) # "next" THEN {CookieRule(p, c) = "yes"}
  ELSE IF HeaderRule(p, h) # "next" THEN {HeaderRule(p, h) = "yes"}
  ELSE WeightRule(p)

Shaped(p, h, c) ==
  IF HeaderRule(p, h) # "next" THEN {HeaderRule(p, h) = "yes"}
  ELSE IF CookieRule(p, c) # "next" THEN {CookieRule(p, c) = "yes"}
  ELSE WeightRule(p)

\* The canary inherits the affinity of the main backend unless it is legacy
\* (mergeAlternativeBackend); otherwise it is a round robin balancer.
Sticky(b) == b = "main" \/ ~Legacy

IsAffinitized(b, ck) == Sticky(b) /\ ck # None /\ ck.backend = b

route_to_alternative_balancer(ck, h, c) ==
  IF IsAffinitized("main", ck) \/ ~alt \/ nodes["canary"] = {} THEN {FALSE}
  ELSE IF IsAffinitized("canary", ck) THEN {TRUE}
  ELSE Shaped(policy, h, c)

-----------------------------------------------------------------------------
(* Requests *)

\* rewrite: get_balancer, which keeps the balancer in ngx.ctx.  Without a
\* balancer the answer is 503.
Rewrite(s) ==
  /\ ~req[s].on /\ nodes["main"] # {}
  /\ \E h, c \in Header : \E go \in route_to_alternative_balancer(cookie[s], h, c) :
       req' = [req EXCEPT ![s] =
         [on |-> TRUE, header |-> h, canaryCookie |-> c,
          affine |-> \E b \in Backends : IsAffinitized(b, cookie[s]),
          to |-> IF go THEN "canary" ELSE "main", detached |-> FALSE, nodes |-> {},
          tried |-> {}, fails |-> 0, peer |-> None, setCookie |-> None, stays |-> TRUE]]
  /\ UNCHANGED <<nodes, alt, policy, cookie, last>>

\* The endpoints of the balancer in ngx.ctx
NodesOf(r) == IF r.detached THEN r.nodes ELSE nodes[r.to]

\* instance:find.  The keys of nodemap are salted with the name of the backend.
Find(b, ns, key) ==
  IF Mode = "persistent" THEN IF key[1] = b /\ key[2] \in ns THEN key[2] ELSE None
  ELSE LET live == {i \in DOMAIN Ring[key] : Ring[key][i] \in ns}
       IN  IF live = {} THEN None ELSE Ring[key][Min(live)]

\* A balanced session gives up after 20 keys that all lead to endpoints that
\* failed.
NoneFound(ok, failed) == ok = {} \/ (Mode = "balanced" /\ failed # {})

\* pairs of an endpoint and its key
pick_new_upstream(b, ns, failed) ==
  LET ok == {k \in CookieKeys : Find(b, ns, k) \notin failed \cup {None}}
  IN  {<<Find(b, ns, k), k>> : k \in ok}
      \cup (IF NoneFound(ok, failed) THEN {<<None, None>>} ELSE {})

\* The endpoint of the request's own cookie.  A cookie set for an earlier try
\* is only in the response.
FromCookie(s) ==
  IF cookie[s] = None THEN None ELSE Find(req[s].to, NodesOf(req[s]), cookie[s].key)

\* should_pick_new_upstream
PickNew(s) == (req[s].fails > 0 /\ ChangeOnFailure) \/ FromCookie(s) = None

Picks(s) == pick_new_upstream(req[s].to, NodesOf(req[s]), req[s].tried)

\* As if only the first answer of a session had a cookie.
StickyOnce(s) ==
  \/ /\ ~PickNew(s)
     /\ req' = [req EXCEPT ![s].peer = FromCookie(s)]
  \/ /\ PickNew(s)
     /\ \E p \in Picks(s) \ {<<None, None>>} :
          req' = [req EXCEPT ![s] =
                    [@ EXCEPT !.peer = p[1],
                              !.setCookie = IF cookie[s] # None THEN req[s].setCookie
                                            ELSE [key |-> p[2], backend |-> req[s].to]]]

StickyBalance(s) ==
  \/ /\ ~PickNew(s)
     /\ req' = [req EXCEPT ![s].peer = FromCookie(s)]
  \/ /\ PickNew(s)
     /\ \E p \in Picks(s) \ {<<None, None>>} :
          req' = [req EXCEPT ![s] =
                    [@ EXCEPT !.peer = p[1],
                              !.setCookie = [key |-> p[2], backend |-> req[s].to]]]

\* balance, for the first try and for every retry
Balance(s) ==
  /\ req[s].on /\ req[s].peer = None /\ req[s].fails < MaxTries
  /\ IF Sticky(req[s].to) THEN StickyBalance(s)
     ELSE \E e \in NodesOf(req[s]) : req' = [req EXCEPT ![s].peer = e]
  /\ UNCHANGED <<nodes, alt, policy, cookie, last>>

\* The peer fails; proxy_next_upstream tries again.
Fail(s) ==
  /\ req[s].on /\ req[s].peer # None
  /\ req' = [req EXCEPT ![s] = [@ EXCEPT !.tried = req[s].tried \cup {req[s].peer},
                                         !.fails = req[s].fails + 1, !.peer = None]]
  /\ UNCHANGED <<nodes, alt, policy, cookie, last>>

KeepCookie(s) == cookie' = [cookie EXCEPT ![s] = IF req[s].setCookie = None THEN @
                                                 ELSE req[s].setCookie]

\* An error answer, after the last try or for want of a peer
GiveUp(s) ==
  /\ req[s].on /\ req[s].peer = None
  /\ \/ req[s].fails = MaxTries
     \/ Sticky(req[s].to) /\ PickNew(s) /\ <<None, None>> \in Picks(s)
  /\ KeepCookie(s)
  /\ req' = [req EXCEPT ![s] = NoRequest]
  /\ last' = IF ChangeOnFailure THEN [last EXCEPT ![s] = None] ELSE last
  /\ UNCHANGED <<nodes, alt, policy>>

Served(s) ==
  /\ req[s].on /\ req[s].peer # None
  /\ KeepCookie(s)
  /\ last' = [last EXCEPT ![s] =
                IF Sticky(req[s].to) /\ req[s].stays
                THEN <<req[s].to, req[s].peer>> ELSE None]
  /\ req' = [req EXCEPT ![s] = NoRequest]
  /\ UNCHANGED <<nodes, alt, policy>>

\* History: whether b, and the endpoint e if one is chosen, are still there
\* and, for a balanced session, nothing new that could move the session
Remains(b, e) ==
  /\ e # None => e \in nodes'[b]
  /\ nodes'[b] # {} /\ (b = "canary" => alt')
  /\ Mode = "balanced" => nodes'[b] \subseteq nodes[b]

\* A balancer that is synchronised is changed in place; requests keep one that
\* is removed.
Detach(r) ==
  IF r.on /\ ~r.detached /\ nodes'[r.to] = {}
  THEN [r EXCEPT !.detached = TRUE, !.nodes = nodes[r.to]] ELSE r

Doubt(r) ==
  IF r.on /\ ~Remains(r.to, r.peer) THEN [r EXCEPT !.stays = FALSE] ELSE r

\* sync_backends
Sync(c, p) ==
  /\ nodes' = [b \in Backends |-> c[b]]
  /\ alt' = c.alt /\ policy' = p
  /\ req' = [s \in Sessions |-> Doubt(Detach(req[s]))]
  /\ last' = [s \in Sessions |->
               IF last[s] = None \/ ~Remains(last[s][1], last[s][2]) THEN None ELSE last[s]]
  /\ UNCHANGED cookie

Step ==
  \/ \E s \in Sessions : Rewrite(s) \/ Balance(s) \/ Fail(s) \/ GiveUp(s) \/ Served(s)
  \/ \E c \in Configs, p \in Policies : Sync(c, p)

Next == Step /\ UNCHANGED setup

Spec == Init /\ [][Next]_<<vars, setup>>

-----------------------------------------------------------------------------
(* Properties *)

\* A canary that balanced sessions do not lose, and persistent sessions that a failure
\* moves.
Steady ==
  /\ Mode = "balanced" => \A c \in Configs : c.main # {} /\ c.canary # {} /\ c.alt
  /\ Mode = "persistent" => ChangeOnFailure

\* There always is a canary, and PCRE takes the patterns of its header.
RulesApply ==
  /\ \A c \in Configs : c.alt /\ c.canary # {}
  /\ \A p \in Policies : p.pattern # "error"

(***************************************************************************)
(* "a request will always be directed to the same upstream server": the    *)
(* first try of a request goes to the backend and endpoint that answered   *)
(* the session's last request, while that backend has it (and, for         *)
(* balanced sessions, nothing was added): whatever the canary rules say,   *)
(* whatever failed before, and however the balancers were synchronised.    *)
(* The module's steady setups keep this promise.                           *)
(***************************************************************************)
SessionStays ==
  \A s \in Sessions :
    req[s].on /\ req[s].peer # None /\ req[s].fails = 0 /\ last[s] # None
      => <<req[s].to, req[s].peer>> = last[s]

(***************************************************************************)
(* A retry with session-cookie-change-on-failure goes to an endpoint that  *)
(* has not failed this request, and a request whose balancer was removed   *)
(* still has endpoints to go to.                                           *)
(***************************************************************************)
RetryElsewhere ==
  \A s \in Sessions :
    req[s].on => /\ NodesOf(req[s]) # {}
                 /\ ChangeOnFailure /\ Sticky(req[s].to) => req[s].peer \notin req[s].tried

\* The first rule that decides, as the documentation words the rules: an
\* error of the pattern counts as a value that does not match.
Documented(p, h, c) ==
  LET word == IF p.value # None THEN p.value ELSE p.pattern
      header == IF ~p.header \/ h = None THEN "next"
                ELSE IF word # None THEN IF h = word THEN "yes" ELSE "next"
                ELSE CASE h = "always" -> "yes" [] h = "never" -> "no" [] OTHER -> "next"
      rules == <<header, CookieRule(p, c)>>
      first == {i \in 1..2 : rules[i] # "next"}
  IN  IF first # {} THEN {rules[Min(first)] = "yes"}
      ELSE {go \in BOOLEAN : IF go THEN p.weight > 0
                             ELSE p.weight < (IF p.total > 100 THEN p.total ELSE 100)}

RulesObeyed(r) == (r.to = "canary") \in Documented(policy, r.header, r.canaryCookie)

Routed(s) == ~req[s].on /\ req'[s].on

RoutedByRules == \A s \in Sessions : Routed(s) /\ ~req'[s].affine => RulesObeyed(req'[s])

(***************************************************************************)
(* "Canary rules are evaluated in order of precedence": a request without  *)
(* affinity, for a backend that always has a canary, is routed as the      *)
(* documented rules say.                                                   *)
(***************************************************************************)
Precedence == [][RoutedByRules]_vars

AlwaysByRules == \A s \in Sessions : Legacy /\ Routed(s) => RulesObeyed(req'[s])

(***************************************************************************)
(* "Setting this to legacy will restore original canary behavior, when     *)
(* session affinity was ignored": with a legacy canary, the rules decide   *)
(* for every request.                                                      *)
(***************************************************************************)
LegacyIgnoresAffinity == [][AlwaysByRules]_vars
=============================================================================
