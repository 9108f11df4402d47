------------------------------- MODULE Model -------------------------------
(***************************************************************************)
(* The model and what depends on it alone: the passes over the ingresses,  *)
(* the calls for the endpoints of services, the comparisons of             *)
(* configurations, and the routing of requests between a backend and its   *)
(* canary.  A behaviour is one setup of one of them; the variables of the  *)
(* others stand still.                                                     *)
(***************************************************************************)
EXTENDS Integers, Sequences

CONSTANTS
  Chosen,                                  \* the setups that are looked at
  None,
  DefServer, Root, SlashOf, LongestFirst, Ready, ClusterIP, Portless, CertHosts,
  CommonName, AllowSnippets, ListSetups,                          \* BuildModel
  Numeric, EndpointLists, References, ReservedPorts, StreamEntries, AllowExternal,
  ServiceSetups,                                                  \* Endpoints
  Lists, MaxChanges, FieldSetups,                                 \* ConfigEqual
  Sessions, Peers, Keys, Ring, RequestSetups                      \* Routing

VARIABLES setup,
          phase, ings, at, ups, servers, allAliases, cfg,       \* BuildModel
          svc, eps, ref, proto, entries, call, out,              \* Endpoints
          store, running, nginx, pending, reloads, changes,      \* ConfigEqual
          nodes, alt, policy, cookie, req, answered              \* Routing

Build == INSTANCE BuildModel WITH Endpoints <- Ready, Setups <- ListSetups

Calls == INSTANCE Endpoints WITH Setups <- ServiceSetups

Config == INSTANCE ConfigEqual WITH Nil <- None, Setups <- FieldSetups

Requests == INSTANCE Routing WITH
  last <- answered, Endpoints <- Peers, Setups <- RequestSetups

\* Every setup has a name of its own.
ASSUME ModelAssumption ==
  /\ Build!BuildAssumption
  /\ Calls!EndpointsAssumption
  /\ Config!ConfigAssumption
  /\ Requests!RoutingAssumption
  /\ DOMAIN ListSetups \cap (DOMAIN ServiceSetups \cup DOMAIN FieldSetups
                               \cup DOMAIN RequestSetups) = {}
  /\ DOMAIN ServiceSetups \cap (DOMAIN FieldSetups \cup DOMAIN RequestSetups) = {}
  /\ DOMAIN FieldSetups \cap DOMAIN RequestSetups = {}

-----------------------------------------------------------------------------
buildVars    == <<phase, ings, at, ups, servers, allAliases, cfg>>
endpointVars == <<svc, eps, ref, proto, entries, call, out>>
equalVars    == <<store, running, nginx, pending, reloads, changes>>
routingVars  == <<nodes, alt, policy, cookie, req, answered>>

OfBuild    == setup \in DOMAIN ListSetups
OfCalls    == setup \in DOMAIN ServiceSetups
OfConfigs  == setup \in DOMAIN FieldSetups
OfRequests == setup \in DOMAIN RequestSetups

NoBuild     == /\ phase = None /\ ings = None /\ at = None /\ ups = None /\ servers = None
               /\ allAliases = None /\ cfg = None
NoEndpoints == /\ svc = None /\ eps = None /\ ref = None /\ proto = None /\ entries = None
               /\ call = None /\ out = None
NoEqual     == /\ store = None /\ running = None /\ nginx = None /\ pending = FALSE
               /\ reloads = 0 /\ changes = 0
NoRouting   == /\ nodes = None /\ alt = None /\ policy = None /\ cookie = None
               /\ req = None /\ answered = None

Init ==
  /\ setup \in Chosen
  /\ \/ OfBuild /\ Build!Init /\ NoEndpoints /\ NoEqual /\ NoRouting
     \/ OfCalls /\ Calls!Init /\ NoBuild /\ NoEqual /\ NoRouting
     \/ OfConfigs /\ Config!Init /\ NoBuild /\ NoEndpoints /\ NoRouting
     \/ OfRequests /\ Requests!Init /\ NoBuild /\ NoEndpoints /\ NoEqual

Next ==
  \/ OfBuild /\ Build!Next /\ UNCHANGED <<endpointVars, equalVars, routingVars>>
  \/ OfCalls /\ Calls!Next /\ UNCHANGED <<buildVars, equalVars, routingVars>>
  \/ OfConfigs /\ Config!Next /\ UNCHANGED <<buildVars, endpointVars, routingVars>>
  \/ OfRequests /\ Requests!Next /\ UNCHANGED <<buildVars, endpointVars, equalVars>>

vars == <<setup, buildVars, endpointVars, equalVars, routingVars>>

Spec == Init /\ [][Next]_vars

-----------------------------------------------------------------------------
(* Properties of the four components, where they apply *)

\* The variables of the component that moves have their types.
TypeOK == /\ OfBuild => Build!TypeOK
          /\ OfCalls => Calls!TypeOK
          /\ OfConfigs => Config!TypeOK
          /\ OfRequests => Requests!TypeOK

\* Conflicts between ingresses: the oldest one gets the location and gives its host the
\* certificate, and an alias never takes a host (getBackendServers, createServers).
IngressPrecedence ==
  OfBuild => Build!OldestWins /\ Build!OldestCertificate /\ Build!AliasNotHost

\* However canaries and primaries meet, a canary is an alternative of another upstream
\* and, where the services of canaries stand apart, every location has an upstream with a
\* server (mergeAlternativeBackends, updateServerLocations).
ModelIsClosed ==
  OfBuild => (Build!Apart => Build!LocationsServed) /\ Build!CanaryIsAlternative

\* Endpoints are addresses of the service on the port that was asked for, the default
\* upstream has one, and a stream service can be listened for (endpoints.go).
EndpointsUsable ==
  OfCalls =>
    Calls!EndpointsOfTheService /\ Calls!DefaultNeverEmpty /\ Calls!StreamsUsable

\* After a sync NGINX and Lua have what the store says, whatever was changed and changed
\* back, unless a field changes that Equal forgets or that is in nginx.conf and cleared
\* before it compares; and lists are compared as bags (types_equals.go, sets/match.go,
\* IsDynamicConfigurationEnough).
ComparisonIsSound == OfConfigs =>
    (Config!AllNoticed => Config!Applied) /\ Config!CompareIsBagEquality

\* A session stays where it was answered, unless its canary comes and goes, and a retry
\* leaves the endpoints that failed, while the balancers change (sticky.lua, balancer.lua).
SessionsKept ==
  OfRequests => (Requests!Steady => Requests!SessionStays) /\ Requests!RetryElsewhere

\* A request without affinity is routed by the documented rules in their order
\* (route_to_alternative_balancer).
Precedence == [][OfRequests /\ Requests!RulesApply => Requests!RoutedByRules]_vars
=============================================================================
