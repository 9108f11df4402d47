----------------------------- MODULE Admission -----------------------------
(***************************************************************************)
(* The validating webhook: ServeHTTP and HandleAdmission of                *)
(* internal/admission/controller, CheckIngress and checkOverlap of         *)
(* internal/ingress/controller/controller.go and the deep inspection.      *)
(* Clients of the API server create, change and delete ingresses; every    *)
(* write is a review.  A review reads the controller's store, which        *)
(* follows the API server with a delay, and several reviews run at once.   *)
(*                                                                         *)
(* An ingress is [name, paths, canary, flaw, ours]: what it asks for, in   *)
(* order; the canary annotation ("missing", "true" or "false"); one flaw   *)
(* or "none"; whether its class and namespace are the controller's.  It    *)
(* asks for [path, type], a path standing for a host and a path and the    *)
(* type being "Exact" or "Prefix" (SetDefaultNGINXPathType knows no        *)
(* other), without rewrites and regular expressions.  A list of ingresses  *)
(* is a function from their times of creation.                             *)
(***************************************************************************)
EXTENDS Naturals, Sequences, FiniteSets, SequencesExt

CONSTANTS None,
          Checked,     \* the flaws that the settings forbid
          Roots,       \* the paths "/", where every server has a location of its own
          Slash,       \* path -> the path with a slash at its end
          Setups       \* name -> what is configured and what happens

VARIABLE setup         \* the setup of this behaviour

Clients   == Setups[setup].clients    \* clients of the API server
Ingresses == Setups[setup].ingresses  \* the ingresses a client may submit
FullTest  == Setups[setup].fullTest   \* ~disable-full-test: try all ingresses, not only the new one
Lag       == Setups[setup].lag        \* may the store be behind the API server?
MaxWrites == Setups[setup].writes     \* bound on the writes of a behaviour

VARIABLES api,     \* ingresses of the API server
          store,   \* ingresses as the controller knows them
          review,  \* review of every client, None if it has none
          writes   \* writes submitted so far

vars == <<api, store, review, writes>>

Flaws == {"none", "body", "kind", "object", "deleting", "inspect", "catchAll", "prefix",
          "word", "snippet", "rateLimit", "nginx"}

(***************************************************************************)
(* The locations that getConfiguration makes of a list                     *)
(***************************************************************************)
\* The ingresses that ask for x and are no canaries; all that x may be.
Asks(s, x) == {k \in DOMAIN s : /\ s[k].ours
                                /\ s[k].canary # "true"
                                /\ x \in ToSet(s[k].paths)}

AllPaths(s) == UNION {ToSet(s[k].paths) : k \in DOMAIN s}

\* The type of the first location that a server gets for a path.
FirstType(s, p) ==
    LET askers == UNION {Asks(s, x) : x \in {y \in AllPaths(s) : y.path = p}}
        ps     == s[Min(askers)].paths
    IN IF p \in Roots THEN "Prefix" ELSE ps[Min({i \in DOMAIN ps : ps[i].path = p})].type

\* The ingresses that get a location for x.  A later one is compared with the first
\* location of the path only, and with a type of its own it gets a location too.
Located(s, x) == IF Asks(s, x) # {} /\ x.type = FirstType(s, x.path) THEN {Min(Asks(s, x))}
                 ELSE Asks(s, x)

Exactly(p) == [path |-> p, type |-> "Exact"]

normalizePrefixPath(x) == IF x.type = "Prefix" THEN [x EXCEPT !.path = Slash[x.path]] ELSE x

\* updateServerLocations: a prefix ends in a slash, and its path is added as an exact
\* location if nobody has that.
updateServerLocations(s, x) ==
    {normalizePrefixPath(x)} \cup
    IF x.type = "Prefix" /\ x.path \notin Roots /\ Located(s, Exactly(x.path)) = {}
    THEN {Exactly(x.path)} ELSE {}

Locations(s) == UNION {[at : updateServerLocations(s, x), by : Located(s, x), of : {x}] :
                           x \in AllPaths(s)}

\* The list with an ingress that is younger than all of it.
WithNew(s, g) ==
    LET now == 1 + Max(DOMAIN s \cup {0})
    IN [k \in DOMAIN s \cup {now} |-> IF k = now THEN g ELSE s[k]]

Only(s, ks) == [k \in ks |-> s[k]]

\* NGINX accepts the result unless an ingress with a location breaks it or two
\* locations are the same.
testTemplate(s) == /\ \A l \in Locations(s) : s[l.by].flaw # "nginx"
                   /\ \A l, m \in Locations(s) : l.at = m.at => l = m

(***************************************************************************)
(* CheckIngress                                                            *)
(***************************************************************************)
ingressForHostPath(s, p) == {s[l.by] : l \in {m \in Locations(s) : m.at.path = p}}

\* The verdict on one path: go on, accept the ingress, or refuse it.
CheckPath(g, s, p) ==
    LET existing == ingressForHostPath(s, p)
    IN IF existing = {} THEN "continue"
       ELSE IF \E o \in existing : o.name = g.name THEN "accept"
       ELSE IF \E o \in existing : \/ g.canary = "true" /\ o.canary = "true"
                                   \/ g.canary = "missing" /\ o.canary = "missing" THEN "refuse"
       ELSE "accept"

\* Does the first path that is not free refuse the ingress?
checkOverlap(g, s) ==
    LET decided == {k \in DOMAIN g.paths : CheckPath(g, s, g.paths[k].path) # "continue"}
    IN decided # {} /\ CheckPath(g, s, g.paths[Min(decided)].path) = "refuse"

FilterIngresses(s, g) == Only(s, {k \in DOMAIN s : s[k].name # g.name})

\* Conditions on the annotations and the default backend, in the code's order.
BadSettings(g) == g.flaw \in Checked \cap {"catchAll", "prefix", "word", "snippet", "rateLimit"}

DeepInspect(g) == "inspect" \notin Checked \/ g.flaw # "inspect"

\* Mutant: a configuration is not tried.
CheckNames(g, s) == DeepInspect(g) /\ (g.ours => ~BadSettings(g) /\ ~checkOverlap(g, s))

\* Is the ingress accepted, given the list the store had?
CheckIngress(g, s) ==
    \/ g.flaw = "deleting"
    \/ /\ DeepInspect(g)
       /\ g.ours => LET ings == WithNew(FilterIngresses(s, g), g)
                    IN /\ ~BadSettings(g) /\ ~checkOverlap(g, ings)
                       /\ testTemplate(IF FullTest THEN ings ELSE WithNew(<<>>, g))

(***************************************************************************)
(* Reviews                                                                 *)
(***************************************************************************)
Init == /\ setup \in DOMAIN Setups
        /\ api = <<>>
        /\ store = <<>>
        /\ review = [c \in Clients |-> None]
        /\ writes = 0

\* A client creates or changes an ingress; the API server asks the webhook.
Submit(c, g) ==
    /\ review[c] = None
    /\ writes < MaxWrites
    /\ review' = [review EXCEPT ![c] = [ing |-> g, answer |-> None]]
    /\ writes' = writes + 1
    /\ UNCHANGED <<api, store>>

\* A body that is no review, or no review of an ingress, gets an HTTP error and
\* an object that is no ingress a refusal; the API server treats all as a no.
Malformed(g) == g.flaw \in {"body", "kind", "object"}

HandleAdmission(g, s) == IF Malformed(g) THEN "refused"
                         ELSE IF CheckIngress(g, s) THEN "allowed" ELSE "refused"

\* The list is read and checked; the answer is on its way.
ServeHTTP(c) ==
    /\ review[c] # None
    /\ review[c].answer = None
    /\ review' = [review EXCEPT ![c].answer = HandleAdmission(review[c].ing, store)]
    /\ UNCHANGED <<api, store, writes>>

\* A changed ingress keeps its time of creation.
Store(s, g) == IF \E k \in DOMAIN s : s[k].name = g.name
               THEN [k \in DOMAIN s |-> IF s[k].name = g.name THEN g ELSE s[k]]
               ELSE WithNew(s, g)

\* The API server stores what was allowed and drops the rest.
Commit(c) ==
    /\ review[c] # None
    /\ review[c].answer # None
    /\ api' = IF review[c].answer = "allowed" THEN Store(api, review[c].ing) ELSE api
    /\ review' = [review EXCEPT ![c] = None]
    /\ store' = IF Lag THEN store ELSE api'
    /\ UNCHANGED writes

\* Deletions are not reviewed.
Delete(k) ==
    /\ k \in DOMAIN api
    /\ writes < MaxWrites
    /\ writes' = writes + 1
    /\ api' = Only(api, DOMAIN api \ {k})
    /\ store' = IF Lag THEN store ELSE api'
    /\ UNCHANGED review

\* The informers bring the store up to date.
Informed == /\ Lag
            /\ store' = api
            /\ UNCHANGED <<api, review, writes>>

Quiet == writes = MaxWrites /\ UNCHANGED vars

Step == \/ \E c \in Clients : \/ \E g \in Ingresses : Submit(c, g)
                              \/ ServeHTTP(c)
                              \/ Commit(c)
        \/ \E k \in DOMAIN api : Delete(k)
        \/ Informed
        \/ Quiet

Next == Step /\ UNCHANGED setup

Spec == Init /\ [][Next]_<<vars, setup>>

(***************************************************************************)
(* Properties                                                              *)
(***************************************************************************)
IsList(s) == IsFiniteSet(DOMAIN s) /\ DOMAIN s \subseteq Nat /\ ToSet(s) \subseteq Ingresses

TypeOK == /\ setup \in DOMAIN Setups
          /\ IsList(api) /\ IsList(store)
          /\ writes \in 0 .. MaxWrites
          /\ review \in [Clients -> {None} \cup [ing : Ingresses,
                                                answer : {None, "allowed", "refused"}]]
          /\ \A j, k \in DOMAIN api : api[j].name = api[k].name => j = k

\* What an ingress asks for is a list without repetitions, and None is no review.
Proper(ingresses) ==
    /\ \A g \in ingresses : /\ DOMAIN g.paths = 1 .. Len(g.paths) /\ Len(g.paths) \in Nat
                            /\ ToSet(g.paths) \subseteq [path : DOMAIN Slash,
                                                       type : {"Exact", "Prefix"}]
                            /\ \A i, j \in DOMAIN g.paths : g.paths[i] = g.paths[j] => i = j
    /\ None \notin [ing : ingresses, answer : {None, "allowed", "refused"}]

AdmissionAssumption ==
    /\ None \notin {"allowed", "refused"}
    /\ Checked \subseteq Flaws \ {"none", "body", "kind", "object", "deleting", "nginx"}
    /\ \A p \in Roots : p \in DOMAIN Slash /\ Slash[p] = p
    /\ \A x \in DOMAIN Setups : Proper(Setups[x].ingresses) /\ Setups[x].writes \in Nat

\* Nobody writes "false" into the canary annotation, which checkOverlap takes for a
\* promise not to compete.
Annotated == \A g \in Ingresses : g.canary \in {"missing", "true"}

\* Nobody asks for a path with two types, for "/" other than as a prefix, or for a
\* prefix both with and without the slash at its end.
Uniform ==
    LET asked == UNION {ToSet(g.paths) : g \in Ingresses}
    IN \A x, y \in asked : /\ x.path = y.path => x.type = y.type
                           /\ x.path \in Roots => x.type = "Prefix"
                           /\ normalizePrefixPath(x) = normalizePrefixPath(y) => x = y

\* checkOverlap stops at the first path that it can decide, and lets an ingress that
\* is being deleted pass.
Simple == \A g \in Ingresses : Len(g.paths) = 1 /\ g.flaw # "deleting"

\* One write at a time, against a store that is up to date.
Alone == ~Lag /\ \A c, d \in Clients : c = d

\* "Allowed=false if the Object is an ingress that would prevent nginx to reload
\* the configuration" (HandleAdmission): whatever reviews ran at the same time
\* and however old the lists they read, NGINX accepts the configuration of the
\* ingresses that were stored.
ConfigurationLoads == testTemplate(api)

\* No ingress of this controller is stored with a flaw that a setting forbids,
\* while an ingress of another controller is none of its business.
SettingsHold == \A g \in ToSet(api) : g.ours => g.flaw \notin Checked \cup {"body", "kind", "object"}

\* The e2e test of the webhook "should not allow overlaps of host and paths
\* without canary annotations": no two stored ingresses without the annotation
\* ask for the same.
NoOverlap ==
    \A g, h \in ToSet(api) :
        g # h /\ g.ours /\ h.ours /\ g.canary = "missing" /\ h.canary = "missing" =>
            ToSet(g.paths) \cap ToSet(h.paths) = {}

\* What the webhook lets pass is sound, each promise under the conditions that the
\* code needs for it (CheckIngress, checkOverlap).
Sound ==
    /\ SettingsHold
    /\ Annotated /\ (Uniform \/ (Simple /\ Alone /\ FullTest)) => ConfigurationLoads
    /\ Annotated /\ Simple /\ Alone /\ (Uniform \/ FullTest) => NoOverlap
=============================================================================
