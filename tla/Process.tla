-------------------------------- MODULE Process --------------------------------
(***************************************************************************)
(* The controller as a process among others: its life in a container, its  *)
(* leader election and the status of the ingresses.  A behaviour is one    *)
(* setup of one of the three components; the variables of the others stand *)
(* still.                                                                  *)
(***************************************************************************)
EXTENDS Integers, FiniteSets

CONSTANTS
  Chosen,                                  \* the setups that are looked at
  Attempts, Threshold, LifeSetups,                           \* Lifecycle
  MaxTerms, LeaderSetups,                                    \* LeaderElection
  Pods, Ings, Addresses, Missing, NoAddress, UpdateStatusOnShutdown, MaxPending,
  StatusSetups                                               \* StatusSync

VARIABLES setup,
          main, retries, code, start, shuttingDown, stopped, signal, ngxErrCh, master,
          workers, synced, fails, hook,                               \* Lifecycle
          elector, term, started, ended, stopCh, closed, polls, syncers,
          leader,                                                     \* LeaderElection
          st, ready, lease, leading, svc, status, cache, pending, shut, job, stop,
          clears, events                                              \* StatusSync

Life == INSTANCE Lifecycle WITH Setups <- LifeSetups

Leader == INSTANCE LeaderElection WITH
  stopped <- ended, workers <- syncers, Setups <- LeaderSetups

Status == INSTANCE StatusSync WITH Setups <- StatusSetups

\* Every setup has a name of its own.
ASSUME ProcessAssumption ==
  /\ Leader!LeaderAssumption
  /\ Status!StatusAssumption /\ IsFiniteSet(Pods)
  /\ DOMAIN LifeSetups \cap DOMAIN LeaderSetups = {}
  /\ DOMAIN LifeSetups \cap DOMAIN StatusSetups = {}
  /\ DOMAIN LeaderSetups \cap DOMAIN StatusSetups = {}

-----------------------------------------------------------------------------
lifeVars   == <<main, retries, code, start, shuttingDown, stopped, signal, ngxErrCh, master,
                workers, synced, fails, hook>>
leaderVars == <<elector, term, started, ended, stopCh, closed, polls, syncers, leader>>
statusVars == <<st, ready, lease, leading, svc, status, cache, pending, shut, job, stop,
                clears, events>>

OfLife   == setup \in DOMAIN LifeSetups
OfLeader == setup \in DOMAIN LeaderSetups
OfStatus == setup \in DOMAIN StatusSetups

\* The container has ended.
NoLife == /\ main = "exited" /\ retries = 0 /\ code = 0 /\ start = "none" /\ shuttingDown = FALSE
          /\ stopped = FALSE /\ signal = FALSE /\ ngxErrCh = "none" /\ master = "none"
          /\ workers = "none" /\ synced = FALSE /\ fails = 0 /\ hook = "idle"

\* The lock was never acquired.
NoLeader == /\ elector = "acquiring" /\ term = 0 /\ stopCh = 0 /\ closed = {} /\ syncers = 0
            /\ started = [t \in Leader!Terms |-> "no"] /\ ended = [t \in Leader!Terms |-> "no"]
            /\ polls = [t \in Leader!Terms |-> 0] /\ leader = FALSE

\* All pods are gone.
NoStatus == /\ st = [p \in Pods |-> "gone"] /\ ready = {} /\ lease = 0 /\ leading = {}
            /\ svc = Missing /\ status = [i \in Ings |-> {}] /\ cache = [p \in Pods |-> status]
            /\ pending = [p \in Pods |-> 0] /\ shut = {} /\ job = [p \in Pods |-> Status!NoJob]
            /\ stop = [p \in Pods |-> "done"] /\ clears = [p \in Pods |-> {}] /\ events = <<>>

Init == /\ setup \in Chosen
        /\ \/ OfLife /\ Life!Init /\ NoLeader /\ NoStatus
           \/ OfLeader /\ Leader!Init /\ NoLife /\ NoStatus
           \/ OfStatus /\ Status!Init /\ NoLife /\ NoLeader

Next == \/ OfLife /\ Life!Next /\ UNCHANGED <<leaderVars, statusVars>>
        \/ OfLeader /\ Leader!Next /\ UNCHANGED <<lifeVars, statusVars>>
        \/ OfStatus /\ Status!Next /\ UNCHANGED <<lifeVars, leaderVars>>

vars == <<setup, lifeVars, leaderVars, statusVars>>

Spec == /\ Init /\ [][Next]_vars
        /\ Life!Fairness /\ Leader!Fairness /\ Status!Fairness

-----------------------------------------------------------------------------
(* Properties of the three components, where they apply *)

\* The variables of the three components have their types.
TypeOK == /\ OfLife => Life!TypeOK
          /\ OfLeader => Leader!TypeOK
          /\ OfStatus => Status!TypeOK

\* The container ends after NGINX, and says so with its exit code: always when nothing
\* fails, and with code 0 whatever fails (HandleSigterm, Stop).
StopsCleanly == OfLife => Life!StopsCleanly

\* A former leader does not poll, however late its callbacks; with prompt ones losing the
\* lock is survived and the gauge is right (setupLeaderElection).
ElectionIsSafe == OfLeader => Leader!ElectionIsSafe

\* No other pod runs while a Shutdown removes the addresses, unless pods start meanwhile
\* or the API server fails (isRunningMultiplePods).
RemovedOnlyAlone == OfStatus /\ Status!Steady => Status!RemovedOnlyAlone
=============================================================================
