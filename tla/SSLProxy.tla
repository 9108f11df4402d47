------------------------------ MODULE SSLProxy ------------------------------
(***************************************************************************)
(* The TLS passthrough proxy: setupSSLProxy and generateTemplate of        *)
(* internal/ingress/controller/nginx.go and pkg/tcpproxy/tcp.go.           *)
(*                                                                         *)
(* One goroutine accepts connections and starts a handler for each.  The   *)
(* handlers look their host up in Proxy.ServerList, which the goroutine    *)
(* of the sync and those of the reviews of the admission webhook replace   *)
(* without a lock: a slice is a pointer and a length, written one after    *)
(* the other.  Data: the store says which service a host is passed to and  *)
(* which address the service has.                                          *)
(***************************************************************************)
EXTENDS Naturals, FiniteSets

CONSTANTS None,
          Default,     \* the default server, NGINX behind it
          Wild,        \* what lies behind the array of a list
          Hosts,       \* numbers: the hosts in the order of their names
          Services,
          Conns,       \* connections of clients
          Setups       \* name -> what is configured and what happens

VARIABLE setup         \* the setup of this behaviour

FullTest   == Setups[setup].fullTest  \* ~disable-full-test: a review generates all ingresses
Faults     == Setups[setup].faults    \* of {"recreate", "reviews", "rejects"}: what may happen
Passed     == Setups[setup].hosts     \* the hosts that ingresses pass through
Used       == Setups[setup].services  \* the services they pass them to
Opened     == Setups[setup].conns     \* the connections that are opened
MaxChanges == Setups[setup].changes   \* bound on the changes of the store and the setting

Addrs    == Services \X {1, 2}
Home(s)  == <<s, 1>>                 \* the address a service has at first
Writers  == {"sync", "review"}

ProxyAssumption ==
    /\ Hosts \subseteq Nat /\ IsFiniteSet(Hosts)
    /\ {None, Default, Wild} \cap Addrs = {}
    /\ None \notin Services /\ None \notin Conns /\ None \notin BOOLEAN
    /\ \A x \in DOMAIN Setups :
          /\ Setups[x].hosts \subseteq Hosts /\ Setups[x].services \subseteq Services
          /\ Setups[x].conns \subseteq Conns
          /\ Setups[x].changes \in Nat

VARIABLES want,      \* store: the service a host is passed to
          addr,      \* store: the address of a service, None without the service
          pending,   \* is a sync requested?
          running,   \* passthrough backends of runningConfig
          reading,   \* a call of getConfiguration in progress, per goroutine
          writer,    \* a call of generateTemplate in progress, per goroutine
          arr, len,  \* the two words of Proxy.ServerList: the array and its length
          proxied,   \* the setting use-proxy-protocol
          mode,      \* the setting as the accept loop read it, None before
          holding,   \* connection whose header the accept loop waits for
          conn,      \* [st, host, said, server] of every connection
          changes,
          wanted,    \* history: <<host, service>> pairs that ingresses have had
          had,       \* history: addresses that services have had
          ever,      \* history: <<host, address>> pairs the store has had
          wrong      \* history: accepts under an old setting since its last change

store == <<want, addr>>
list  == <<arr, len>>
loop  == <<mode, holding>>
past  == <<wanted, had, ever>>
syncing == <<pending, running, reading, writer>>
vars  == <<want, addr, pending, running, reading, writer, arr, len, proxied, mode, holding, conn,
           changes, wanted, had, ever, wrong>>

(***************************************************************************)
(* generateTemplate                                                        *)
(***************************************************************************)
\* A passthrough backend holds its service, or nothing if the store has none.
Backends(w, a) ==
    [h \in Hosts |-> IF w[h] = None THEN None
                     ELSE [svc |-> IF a[w[h]] = None THEN None ELSE w[h],
                           ip  |-> a[w[h]]]]

\* A list has one server for every backend that has a service, in the order of the
\* hosts: it is the function from these hosts to the addresses.
Servers(b) == [h \in {x \in Hosts : b[x] # None /\ b[x].svc # None} |-> b[h].ip]

Length(servers)      == Cardinality(DOMAIN servers)
Position(servers, h) == Cardinality({x \in DOMAIN servers : x <= h})

\* SSLPassthroughBackend.Equal: services are compared by name.
Equal(b, c) == \A h \in Hosts : /\ (b[h] = None) = (c[h] = None)
                                /\ b[h] # None => b[h].svc = c[h].svc

\* The ingresses are listed; the services that they name are looked up one by one.
List(w) == [want |-> w, addr |-> [s \in Services |-> None],
            todo |-> {s \in Services : \E h \in Hosts : w[h] = s}]

Generate(b) == [backends |-> b, servers |-> Servers(b), written |-> {}]

\* n.Proxy.ServerList = servers, by goroutine g.
WriteLen(g) == /\ writer[g] # None
               /\ "len" \notin writer[g].written
               /\ len' = Length(writer[g].servers)
               /\ writer' = [writer EXCEPT ![g].written = @ \cup {"len"}]
               /\ UNCHANGED <<store, pending, running, reading, arr, proxied, loop, conn, changes, past,
                               wrong>>

WriteArr(g) == /\ writer[g] # None
               /\ "arr" \notin writer[g].written
               /\ arr' = writer[g].servers
               /\ writer' = [writer EXCEPT ![g].written = @ \cup {"arr"}]
               /\ UNCHANGED <<store, pending, running, reading, len, proxied, loop, conn, changes, past,
                               wrong>>

Written(g) == writer[g] # None /\ writer[g].written = {"len", "arr"}

(***************************************************************************)
(* The store and the goroutines that generate                              *)
(***************************************************************************)
Changed == /\ changes < MaxChanges
           /\ changes' = changes + 1

Pairs(b) == {<<h, b[h].ip>> : h \in {x \in Hosts : b[x] # None /\ b[x].svc # None}}

\* An ingress passes host h to service s, or no longer does.
IngressEvent(h, s) ==
    /\ Changed
    /\ want' = [want EXCEPT ![h] = s]
    /\ pending' = TRUE
    /\ wanted' = wanted \cup ({h} \X ({s} \ {None}))
    /\ ever' = ever \cup Pairs(Backends(want', addr))
    /\ UNCHANGED <<addr, running, reading, writer, list, proxied, loop, conn, had, wrong>>

\* A service is deleted, or created with an address.
ServiceEvent(s, a) ==
    /\ Changed
    /\ (a = None) # (addr[s] = None)
    /\ a # None => a[1] = s /\ ("recreate" \in Faults \/ a = Home(s))
    /\ addr' = [addr EXCEPT ![s] = a]
    /\ pending' = TRUE
    /\ had' = had \cup ({a} \ {None})
    /\ ever' = ever \cup Pairs(Backends(want, addr'))
    /\ UNCHANGED <<want, running, reading, writer, list, proxied, loop, conn, wanted, wrong>>

Idle(g) == reading[g] = None /\ writer[g] = None

\* syncIngress lists the ingresses.
syncIngress ==
    /\ pending
    /\ Idle("sync")
    /\ pending' = FALSE
    /\ reading' = [reading EXCEPT !["sync"] = List(want)]
    /\ UNCHANGED <<store, running, writer, list, proxied, loop, conn, changes, past, wrong>>

\* CheckIngress of an ingress that would pass host h to service s.
CheckIngress(h, s) ==
    /\ "reviews" \in Faults
    /\ Changed
    /\ Idle("review")
    /\ LET w == [x \in Hosts |-> IF x = h THEN s ELSE IF FullTest THEN want[x] ELSE None]
       IN reading' = [reading EXCEPT !["review"] = List(w)]
    /\ UNCHANGED <<store, pending, running, writer, list, proxied, loop, conn, past, wrong>>

\* createUpstreams: the Service of an upstream, with the address it has now.
ReadService(g, s) ==
    /\ reading[g] # None
    /\ s \in reading[g].todo
    /\ LET r == reading[g]
       IN reading' = [reading EXCEPT ![g] = [want |-> r.want, addr |-> [r.addr EXCEPT ![s] = addr[s]],
                                             todo |-> r.todo \ {s}]]
    /\ UNCHANGED <<store, pending, running, writer, list, proxied, loop, conn, changes, past, wrong>>

\* getConfiguration is done: the sync has nothing to do, or generateTemplate begins.
Configured(g) ==
    /\ reading[g] # None
    /\ reading[g].todo = {}
    /\ LET b == Backends(reading[g].want, reading[g].addr)
       IN writer' = IF g = "sync" /\ Equal(running, b) THEN writer
                    ELSE [writer EXCEPT ![g] = Generate(b)]
    /\ reading' = [reading EXCEPT ![g] = None]
    /\ UNCHANGED <<store, pending, running, list, proxied, loop, conn, changes, past, wrong>>

Reloaded == /\ Written("sync")
            /\ running' = writer["sync"].backends
            /\ writer' = [writer EXCEPT !["sync"] = None]
            /\ UNCHANGED <<store, pending, reading, list, proxied, loop, conn, changes, past, wrong>>

\* The test or the reload fails: runningConfig stays, the queue tries again.
Rejected == /\ Written("sync")
            /\ "rejects" \in Faults
            /\ pending' = TRUE
            /\ writer' = [writer EXCEPT !["sync"] = None]
            /\ UNCHANGED <<store, running, reading, list, proxied, loop, conn, changes, past, wrong>>

\* The answer; if it is yes, the API server may store the ingress (IngressEvent).
Reviewed == /\ Written("review")
            /\ writer' = [writer EXCEPT !["review"] = None]
            /\ UNCHANGED <<store, pending, running, reading, list, proxied, loop, conn, changes, past,
                           wrong>>

(***************************************************************************)
(* The accept loop                                                         *)
(***************************************************************************)
SetProxyProtocol ==
    /\ Changed
    /\ proxied' = ~proxied
    /\ wrong' = 0
    /\ UNCHANGED <<store, syncing, list, loop, conn, past>>

Connect(c, h) == /\ conn[c].st = "new"
                 /\ conn' = [conn EXCEPT ![c] = [@ EXCEPT !.st = "backlog", !.host = h]]
                 /\ UNCHANGED <<store, syncing, list, proxied, loop, changes, past, wrong>>

\* The client sends its PROXY header, if it has one, and its hello.
Speak(c) == /\ conn[c].st \in {"backlog", "held", "handled"}
            /\ ~conn[c].said
            /\ conn' = [conn EXCEPT ![c].said = TRUE]
            /\ UNCHANGED <<store, syncing, list, proxied, loop, changes, past, wrong>>

ReadSetting == /\ mode = None
               /\ mode' = proxied
               /\ UNCHANGED <<store, syncing, list, proxied, holding, conn, changes, past,
                              wrong>>

\* The loop goes round after a connection.
NextRound(m) == None

\* The remote address of a connection from the wrapping listener is that of its
\* header, which the loop reads for its log line before it starts the handler.
Accept(c) ==
    /\ mode # None
    /\ holding = None
    /\ conn[c].st = "backlog"
    /\ conn' = [conn EXCEPT ![c].st = IF mode THEN "held" ELSE "handled"]
    /\ holding' = IF mode THEN c ELSE None
    /\ mode' = IF mode THEN mode ELSE NextRound(mode)
    /\ wrong' = IF mode # proxied THEN wrong + 1 ELSE wrong
    /\ UNCHANGED <<store, syncing, list, proxied, changes, past>>

\* Mutant: the wait has no limit.
HeaderArrives(c) == conn[c].said

\* The header arrives, or ProxyProtocolHeaderTimeout passes.
HeaderOrTimeout(c) == TRUE

GoHandle(c) ==
    /\ holding = c
    /\ HeaderOrTimeout(c)
    /\ holding' = None
    /\ mode' = NextRound(mode)
    /\ conn' = [conn EXCEPT ![c].st = "handled"]
    /\ UNCHANGED <<store, syncing, list, proxied, changes, past, wrong>>

(***************************************************************************)
(* TCPProxy                                                                *)
(***************************************************************************)
\* The host has a server among the first len of the array.
Listed(h) == h \in DOMAIN arr /\ Position(arr, h) <= len

\* Mutant: a host without a server gets the last of the list.
GetLast(h) == IF Listed(h) THEN {arr[h]}
              ELSE IF len > Length(arr) THEN {Wild, Default}
              ELSE IF DOMAIN arr = {} THEN {Default}
              ELSE {arr[x] : x \in {y \in DOMAIN arr : Position(arr, y) = Length(arr)}}

\* What Get may return: the server of the host, else the default.  With the
\* length of a longer list it goes on behind the array: what it finds there is no
\* server (the process dies) or none of this host.
Get(h) == IF Listed(h) THEN {arr[h]}
          ELSE IF len > Length(arr) THEN {Wild, Default} ELSE {Default}

\* Handle up to the dial: a hello that cannot be read goes to the default.
Handle(c) ==
    /\ conn[c].st = "handled"
    /\ conn[c].said
    /\ \E srv \in Get(conn[c].host) \cup {Default}, st \in {"piped", "closed"} :
            conn' = [conn EXCEPT ![c] = [@ EXCEPT !.server = srv, !.st = st]]
    /\ UNCHANGED <<store, syncing, list, proxied, loop, changes, past, wrong>>

\* The client hangs up before its hello, or a write or either direction of the pipe
\* ends: both connections are closed.
Hangup(c) == /\ \/ conn[c].st = "handled" /\ ~conn[c].said
                \/ conn[c].st = "piped"
             /\ conn' = [conn EXCEPT ![c].st = "closed"]
             /\ UNCHANGED <<store, syncing, list, proxied, loop, changes, past, wrong>>

(***************************************************************************)
(* Specification                                                           *)
(***************************************************************************)
Init ==
    /\ setup \in DOMAIN Setups
    /\ want = [h \in Hosts |-> None]
    /\ addr = [s \in Services |-> Home(s)]
    /\ pending = TRUE
    /\ running = [h \in Hosts |-> None]
    /\ reading = [g \in Writers |-> None]
    /\ writer = [g \in Writers |-> None]
    /\ arr = [h \in {} |-> None] /\ len = 0
    /\ proxied \in BOOLEAN
    /\ mode = None /\ holding = None
    /\ conn = [c \in Conns |-> [st |-> "new", host |-> None, said |-> FALSE, server |-> None]]
    /\ changes = 0
    /\ wanted = {} /\ had = {Home(s) : s \in Services} /\ ever = {}
    /\ wrong = 0

Accepting == \E c \in Conns : Accept(c)
Holding   == \E c \in Conns : GoHandle(c)

Step ==
    \/ \E h \in Passed, s \in Used \cup {None} : IngressEvent(h, s)
    \/ \E s \in Used, a \in Addrs \cup {None} : ServiceEvent(s, a)
    \/ \E h \in Passed, s \in Used : CheckIngress(h, s)
    \/ syncIngress \/ Reloaded \/ Rejected \/ Reviewed
    \/ \E g \in Writers : \/ \E s \in Services : ReadService(g, s)
                          \/ Configured(g) \/ WriteLen(g) \/ WriteArr(g)
    \/ SetProxyProtocol \/ ReadSetting \/ Accepting \/ Holding
    \/ \E c \in Opened : \/ \E h \in Passed : Connect(c, h)
                          \/ Speak(c) \/ Handle(c) \/ Hangup(c)

Next == Step /\ UNCHANGED setup

\* The goroutines run; the queue brings every request for a sync to syncIngress.
Fairness ==
    /\ WF_vars(syncIngress) /\ WF_vars(Reloaded \/ Rejected) /\ WF_vars(Reviewed)
    /\ \A g \in Writers : /\ WF_vars(\E s \in Services : ReadService(g, s)) /\ WF_vars(Configured(g))
                          /\ WF_vars(WriteLen(g)) /\ WF_vars(WriteArr(g))
    /\ WF_vars(ReadSetting) /\ WF_vars(Accepting) /\ WF_vars(Holding)
    /\ \A c \in Conns : WF_vars(Handle(c))

Spec == Init /\ [][Next]_<<vars, setup>> /\ Fairness

(***************************************************************************)
(* Properties                                                              *)
(***************************************************************************)
Lists        == UNION {[hs -> Addrs] : hs \in SUBSET Hosts}
BackendLists == [Hosts -> [svc : Services \cup {None}, ip : Addrs \cup {None}] \cup {None}]

TypeOK ==
    /\ setup \in DOMAIN Setups
    /\ want \in [Hosts -> Services \cup {None}]
    /\ addr \in [Services -> Addrs \cup {None}]
    /\ running \in BackendLists
    /\ reading \in [Writers -> [want : [Hosts -> Services \cup {None}],
                                addr : [Services -> Addrs \cup {None}],
                                todo : SUBSET Services] \cup {None}]
    /\ writer \in [Writers -> [backends : BackendLists, servers : Lists,
                               written : SUBSET {"len", "arr"}] \cup {None}]
    /\ arr \in Lists
    /\ len \in 0 .. Cardinality(Hosts)
    /\ proxied \in BOOLEAN /\ mode \in BOOLEAN \cup {None} /\ holding \in Conns \cup {None}
    /\ conn \in [Conns -> [st : {"new", "backlog", "held", "handled", "piped", "closed"},
                           host : Hosts \cup {None}, said : BOOLEAN,
                           server : Addrs \cup {None, Default, Wild}]]
    /\ changes \in 0 .. MaxChanges

\* The webhook is registered with "sideEffects: None"
\* (charts/ingress-nginx/templates/admission-webhooks/validating-webhook.yaml:31):
\* whatever is reviewed, a connection is passed only to a service that an ingress has
\* had for its host, at an address that the service has had.
OnlyStored == \A c \in Conns : conn[c].server \in Addrs =>
                  <<conn[c].host, conn[c].server[1]>> \in wanted /\ conn[c].server \in had

\* The store has had both at the same time.
OnlyTogether == \A c \in Conns : conn[c].server \in Addrs => <<conn[c].host, conn[c].server>> \in ever

\* "Get returns the TCPServer to use for a given host" (tcp.go:43): a handler
\* that looks a host up while the list is replaced reads a server of a list.
GetReadsServers == \A c \in Conns : conn[c].server # Wild

\* The accept loop chooses its listener before it waits for a connection, so a
\* change of use-proxy-protocol misses the connection it waits for, and no other.
OneStaleAccept == wrong <= 1

\* Both, the first one unless reviews write the list as well.
ProxyIsFaithful == OneStaleAccept /\ ("reviews" \notin Faults => OnlyStored)

\* A client that has sent its hello is passed on or hung up on, whatever the
\* clients before it do: one that stays silent holds up the accept loop for the
\* header timeout only.
Served == \A c \in Conns : conn[c].said ~> conn[c].st \in {"piped", "closed"}

\* When the store stays as it is, connections are in the end routed by it: the
\* list the sync leaves behind is that of the store.
ListFollowsStore == <>[](arr = Servers(Backends(want, addr)) /\ len = Length(arr))
=============================================================================
