---------------------------- MODULE SyncRequests ----------------------------
(***************************************************************************)
(* What the controller relies on when it hands work to the task queue of   *)
(* internal/task/queue.go, with every mechanism of the queue left out.     *)
(*                                                                         *)
(* A caller issues a request by enqueueing an object; a worker calls the   *)
(* sync function, which looks at the world as it is when it starts.  A     *)
(* successful sync therefore serves every request issued before its start, *)
(* whichever element of the queue it was run for.                          *)
(***************************************************************************)
EXTENDS Integers

CONSTANTS Workers,      \* goroutines that run the worker loop of one queue
          MaxRequests   \* bound: requests issued in a behaviour

ASSUME MaxRequestsAssumption == MaxRequests \in Nat

VARIABLES reqs,      \* requests issued so far
          served,    \* the first served requests have been seen by a sync
          started,   \* per worker, requests issued when its sync began, or Idle
          down       \* the queue was told to shut down

reqVars == <<reqs, served, started, down>>

Idle == -1

ReqTypeOK ==
  /\ reqs \in 0..MaxRequests
  /\ served \in 0..MaxRequests
  /\ started \in [Workers -> {Idle} \cup 0..MaxRequests]
  /\ down \in BOOLEAN

ReqInit ==
  /\ reqs = 0
  /\ served = 0
  /\ started = [w \in Workers |-> Idle]
  /\ down = FALSE

\* A caller needs a sync that starts after this point.
Request ==
  /\ reqs < MaxRequests
  /\ reqs' = reqs + 1
  /\ UNCHANGED <<served, started, down>>

\* A worker calls sync.
Begin(w) ==
  /\ started[w] = Idle
  /\ started' = [started EXCEPT ![w] = reqs]
  /\ UNCHANGED <<reqs, served, down>>

\* sync returned nil: all requests issued before it began are served.
Succeed(w) ==
  /\ started[w] # Idle
  /\ served' = IF started[w] > served THEN started[w] ELSE served
  /\ started' = [started EXCEPT ![w] = Idle]
  /\ UNCHANGED <<reqs, down>>

\* sync returned an error: nothing is served by it.
Fail(w) ==
  /\ started[w] # Idle
  /\ started' = [started EXCEPT ![w] = Idle]
  /\ UNCHANGED <<reqs, served, down>>

ShutDown ==
  /\ ~down
  /\ down' = TRUE
  /\ UNCHANGED <<reqs, served, started>>

ReqNext ==
  \/ Request
  \/ ShutDown
  \/ \E w \in Workers : Begin(w) \/ Succeed(w) \/ Fail(w)

(***************************************************************************)
(* Every request is served, unless the queue is shut down first.           *)
(***************************************************************************)
EveryRequestServed ==
  \A n \in 1..MaxRequests : (reqs >= n) ~> (served >= n \/ down)

ReqSpec == ReqInit /\ [][ReqNext]_reqVars /\ EveryRequestServed
=============================================================================
