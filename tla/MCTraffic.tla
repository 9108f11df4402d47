------------------------------ MODULE MCTraffic ------------------------------
(***************************************************************************)
(* Stream backends and the metrics of requests, for TLC.  A behaviour is   *)
(* one setup of one of the two components; the variables of the other one  *)
(* stand still.                                                            *)
(***************************************************************************)
EXTENDS Integers, Sequences, FiniteSets, TLC

CONSTANTS None, Absent, n1, n2, four, six, ext1, ext2,
          Chosen       \* the setups that are explored

VARIABLES setup,
          clock, sent, post, data, stamp, run, last, balancers, external, made, posts,
          lost, unstamped, restarts,                              \* StreamBackends
          store, pending, sync, running, master, conf, batch, wire, hosts, series,
          expiry, count, changes, ever                            \* Metrics

-----------------------------------------------------------------------------
(* Streams: lists of every kind for one service, also in one second, with a       *)
(* timestamp that is not stored and a worker that restarts; two services, of      *)
(* which a run that waits for a lookup meets a list without the other.  Then a    *)
(* list that is lost, and a service with IPv6 addresses.                          *)

One(x) == n1 :> x @@ n2 :> Absent

MixedLists == {(n1 :> ext1 @@ n2 :> ext2), (n1 :> ext2 @@ n2 :> Absent)}

StreamSetup(lists, sends, losses, failures, starts) ==
  [lists |-> lists, posts |-> sends, lost |-> losses, unstamped |-> failures, restarts |-> starts]

StreamSetups ==
  [ force |-> StreamSetup({One(x) : x \in {ext1, four, six, Absent}}, 2, 1, 1, 1),
    names |-> StreamSetup(MixedLists, 2, 0, 0, 0),
    dropped |-> StreamSetup({One(four), One(Absent)}, 2, 1, 0, 0),
    usable |-> StreamSetup({One(six)}, 1, 0, 0, 0) ]

Stream == INSTANCE StreamBackends WITH
    Workers <- {"w1"}, Runs <- {"r1", "r2"}, Names <- {n1, n2}, Four <- {four}, Six <- {six},
    External <- {ext1, ext2}, Force <- 2, MaxClock <- 5, Setups <- StreamSetups

-----------------------------------------------------------------------------
(* Metrics: batches of two workers with an ingress that NGINX refuses and a     *)
(* socket that fails; ingresses that come and go.  Then ingresses of one host,  *)
(* and the refused ingress without losses.                                      *)

MetricsSetup(ings, lossy, requests) ==
  [ingresses |-> ings, lossy |-> lossy, requests |-> requests, changes |-> 3]

MetricsSetups == [ batches |-> MetricsSetup({"a", "b"}, TRUE, 3),
                   follow  |-> MetricsSetup({"a", "c"}, FALSE, 1),
                   late    |-> MetricsSetup({"c", "d"}, FALSE, 1),
                   refused |-> MetricsSetup({"a", "b"}, FALSE, 1) ]

Metrics == INSTANCE Metrics WITH
    Ingresses <- {"a", "b", "c", "d"}, HostOf <- [i \in {"a", "b", "c", "d"} |-> IF i = "d" THEN "c" ELSE i],
    Stray <- "stray", Broken <- {"b"}, Workers <- {"w1", "w2"}, PerHost <- TRUE, MaxBatch <- 2,
    Setups <- MetricsSetups

-----------------------------------------------------------------------------
streamVars  == <<clock, sent, post, data, stamp, run, last, balancers, external, made, posts,
                 lost, unstamped, restarts>>
metricsVars == <<store, pending, sync, running, master, conf, batch, wire, hosts, series,
                 expiry, count, changes, ever>>

OfStream  == setup \in DOMAIN StreamSetups
OfMetrics == setup \in DOMAIN MetricsSetups

\* A worker that has just synchronised, at the last second.
NoStream ==
  /\ clock = 5 /\ sent = None /\ post = "none" /\ data = None /\ stamp = 1
  /\ run = [w \in {"w1"} |-> [r \in {"r1", "r2"} |-> Stream!IdleRun]]
  /\ last = [w \in {"w1"} |-> 5]
  /\ balancers = [w \in {"w1"} |-> Stream!Nothing] /\ external = balancers
  /\ made = None /\ posts = 0 /\ lost = 0 /\ unstamped = 0 /\ restarts = 0

NoMetrics ==
  /\ store = {} /\ running = {} /\ master = {} /\ pending = FALSE /\ sync = None
  /\ conf = [w \in {"w1", "w2"} |-> {}] /\ batch = [w \in {"w1", "w2"} |-> <<>>] /\ wire = <<>>
  /\ hosts = {} /\ series = {} /\ expiry = {} /\ count = None /\ changes = 0 /\ ever = {}

Init == /\ setup \in Chosen
        /\ \/ OfStream /\ Stream!Init /\ NoMetrics
           \/ OfMetrics /\ Metrics!Init /\ NoStream

Next == \/ OfStream /\ Stream!Next /\ UNCHANGED metricsVars
        \/ OfMetrics /\ Metrics!Next /\ UNCHANGED streamVars

Spec == /\ Init /\ [][Next]_<<setup, streamVars, metricsVars>>
        /\ Stream!Fairness /\ Metrics!Fairness

-----------------------------------------------------------------------------
(* The properties of the two modules, where they apply. *)

\* The variables of the stream balancers and of the metrics have their types.
TypeOK == /\ OfStream => Stream!TypeOK
          /\ OfMetrics => Metrics!TypeOK

\* Every worker ends with balancers of the last stored list (sync_backends).
PickedUp == OfStream => Stream!PickedUp

\* Every worker ends with balancers of the last list sent (tcp_udp_configuration.lua:36).
SentIsPickedUp == OfStream => Stream!SentIsPickedUp

\* A worker for which nothing is new has usable peers of the last list (sync_backend).
UsableWhenSynced == OfStream => Stream!UsableWhenSynced

\* A request is in a batch or on its way, or was counted, skipped or lost, exactly once
\* (monitor.lua, flush).
Accounted == OfMetrics => Metrics!Accounted

\* There are only series of hosts that were once served (SetHosts, handleMessage).
OnlyServedHosts == OfMetrics => Metrics!OnlyServedHosts

\* Once the store is accepted, the reported hosts are those NGINX serves (SetHosts).
HostsAreServed == setup \in {"follow", "refused"} => Metrics!HostsAreServed

\* Once the store is accepted, expiry is reported for the served hosts (RemoveMetrics).
ExpiryFollows == setup \in {"follow", "refused"} => Metrics!ExpiryFollows

\* Once the store stays, no series of a removed ingress is left (RemoveMetrics).
RemovedAreGone == OfMetrics => Metrics!RemovedAreGone

-----------------------------------------------------------------------------
(* What the run checks beside PickedUp. *)

\* Every request is accounted for exactly once, and only for hosts that were once served
\* (monitor.lua, socket.go).
MetricsAreSound == Accounted /\ OnlyServedHosts

\* Once the store is accepted, hosts and certificate gauges are those NGINX serves
\* (SetHosts, RemoveMetrics).
MetricsFollow == HostsAreServed /\ ExpiryFollows
=============================================================================
