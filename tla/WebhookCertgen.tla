---------------------------- MODULE WebhookCertgen ----------------------------
(***************************************************************************)
(* The jobs that give the admission webhook its certificate:               *)
(* images/kube-webhook-certgen (cmd/create.go, cmd/patch.go, pkg/k8s).     *)
(*                                                                         *)
(* A create job makes a secret with a new CA unless there is one; a patch  *)
(* job copies the CA into an APIService and the two kinds of webhook       *)
(* configuration.  Every call of the API server is a step.  A job that     *)
(* ends with log.Fatal, or whose pod dies, is started again by the job     *)
(* controller up to its back-off limit, and may have two pods at work at   *)
(* the same time, so there are several of either kind.                     *)
(***************************************************************************)
EXTENDS Naturals

CONSTANTS None,
          NoKey,         \* a secret without the key "ca"
          Setups         \* name -> what is installed and what happens

VARIABLE setup           \* the setup of this behaviour

Creators     == Setups[setup].creators
Patchers     == Setups[setup].patchers
Flags        == Setups[setup].flags     \* command lines of the patch jobs
Secrets      == Setups[setup].secrets   \* what may be there before the first installation
Ordered      == Setups[setup].ordered   \* Helm starts the patch jobs after the create jobs
BackoffLimit == Setups[setup].backoff   \* restarts of a job
MaxFaults    == Setups[setup].faults    \* bound on pods that die, calls that fail, foreign writes
MaxRounds    == Setups[setup].rounds    \* bound on the installations and upgrades

VARIABLES flags,   \* the command line: [mutating, validating, name, api, policy]
          secret,  \* CA of the secret, NoKey, or None if there is no secret
          issued,  \* number of CAs generated; a CA is its number
          obj,     \* the objects to patch: [ca, policy, insecure, rv]
          job,     \* [pc, ca, todo, copy, tries] of every job
          faults,
          round

vars    == <<flags, secret, issued, obj, job, faults, round>>
cluster == <<secret, issued, obj>>

Jobs     == Creators \cup Patchers
Webhooks == {"validating", "mutating"}
Objects  == Webhooks \cup {"api"}
Policies == {"", "Ignore", "Fail"}

Fresh == [pc |-> "start", ca |-> None, todo |-> {}, copy |-> None, tries |-> 0]
Blank == [ca |-> None, policy |-> "", insecure |-> TRUE, rv |-> 0]

Ended(j)  == job[j].pc \in {"done", "failed"}
Complete  == \A j \in DOMAIN job : job[j].pc = "done"

Authorities == {None} \cup 1..issued
Manifests   == [ca : Authorities, policy : Policies, insecure : BOOLEAN, rv : Nat]

TypeOK ==
    /\ setup \in DOMAIN Setups
    /\ flags \in Flags
    /\ issued \in Nat
    /\ secret \in {NoKey} \cup Authorities
    /\ obj \in [Objects -> Manifests]
    /\ job \in [Jobs -> [pc : {"start", "save", "get", "update", "exit", "done", "failed"},
                         ca : Authorities, todo : SUBSET Objects,
                         copy : {None} \cup Manifests, tries : 0..BackoffLimit]]
    /\ faults \in 0..MaxFaults
    /\ round \in 1..MaxRounds

\* There is a patch job, a job is of one kind, and None and NoKey are no CAs.
JobAssumption ==
    /\ None \notin Nat /\ NoKey \notin Nat
    /\ \A x \in DOMAIN Setups :
         /\ Setups[x].patchers # {}
         /\ Setups[x].creators \cap Setups[x].patchers = {}
         /\ Setups[x].secrets \subseteq {None, NoKey} \cup (Nat \ {0})
         /\ \A f \in Setups[x].flags : f.mutating \in BOOLEAN /\ f.validating \in BOOLEAN
                                      /\ f.name \in BOOLEAN /\ f.api \in BOOLEAN
         /\ Setups[x].backoff \in Nat /\ Setups[x].faults \in Nat
         /\ Setups[x].rounds \in Nat \ {0}

Init ==
    /\ setup \in DOMAIN Setups
    /\ flags \in Flags
    /\ secret \in Secrets
    /\ issued = IF secret \in Nat THEN secret ELSE 0
    /\ obj = [o \in Objects |-> Blank]
    /\ job = [j \in Jobs |-> Fresh]
    /\ faults = 0
    /\ round = 1

(***************************************************************************)
(* The job controller: restartPolicy OnFailure and a back-off limit.       *)
(***************************************************************************)
Fatal(j) ==
    job' = [job EXCEPT ![j] =
              IF @.tries = BackoffLimit THEN [@ EXCEPT !.pc = "failed"]
              ELSE [Fresh EXCEPT !.tries = job[j].tries + 1]]

Advance(j, pc) == job' = [job EXCEPT ![j].pc = pc]

\* The command returns and the job is complete.
Exit(j) ==
    /\ job[j].pc = "exit"
    /\ Advance(j, "done")
    /\ UNCHANGED <<flags, cluster, faults, round>>

\* A pod dies, or one of its calls fails.
PodFails(j) ==
    /\ faults < MaxFaults
    /\ ~Ended(j)
    /\ Fatal(j)
    /\ faults' = faults + 1
    /\ UNCHANGED <<flags, cluster, round>>

\* Another writer, for instance a controller that sets a label.
ForeignWrite(o) ==
    /\ faults < MaxFaults
    /\ obj' = [obj EXCEPT ![o].rv = @ + 1]
    /\ faults' = faults + 1
    /\ UNCHANGED <<flags, secret, issued, job, round>>

(***************************************************************************)
(* pkg/k8s: the secret.  HasCa is GetCaFromSecret returning a CA, Missing  *)
(* is it returning nil; otherwise it ends the process.                     *)
(***************************************************************************)
HasCa   == secret \in 1..issued
Missing == secret = None

\* Mutant: the secret is written whether or not there is one.
SaveOver(j) ==
    /\ issued' = issued + 1
    /\ secret' = issued'
    /\ Advance(j, "exit")

\* Create fails if there is a secret by now.
SaveCertsToSecret(j) ==
    IF secret = None
    THEN /\ issued' = issued + 1
         /\ secret' = issued'
         /\ Advance(j, "exit")
    ELSE /\ Fatal(j)
         /\ UNCHANGED <<secret, issued>>

(***************************************************************************)
(* cmd/create.go                                                           *)
(***************************************************************************)
\* Mutant: create does not look for a secret first.
CreateBlindly(j) ==
    /\ job[j].pc = "start"
    /\ Advance(j, "save")

createCommand(j) ==
    /\ job[j].pc = "start"
    /\ \/ Missing /\ Advance(j, "save")
       \/ HasCa /\ Advance(j, "exit")
       \/ ~Missing /\ ~HasCa /\ Fatal(j)

CreateStep(j) ==
    \/ /\ createCommand(j)
       /\ UNCHANGED <<flags, cluster, faults, round>>
    \/ /\ job[j].pc = "save"
       /\ SaveCertsToSecret(j)
       /\ UNCHANGED <<flags, obj, faults, round>>

(***************************************************************************)
(* cmd/patch.go                                                            *)
(***************************************************************************)
\* The switch on the flag has no fall-through: the case of Ignore is empty.
failurePolicy == IF flags.policy = "Fail" THEN "Fail" ELSE ""

PolicyValid == flags.policy \in Policies

SomethingAsked == flags.mutating \/ flags.validating \/ flags.api

\* PatchOptions names an object only if the flag and its name are given.
Targets == {o \in Objects : CASE o = "api" -> flags.api
                              [] o = "mutating" -> flags.mutating /\ flags.name
                              [] o = "validating" -> flags.validating /\ flags.name}

\* PatchObjects refuses a policy without a webhook to give it to.
Accepted == failurePolicy = "" \/ Targets \cap Webhooks # {}

\* Order in which PatchObjects works.
First(todo) == IF "api" \in todo THEN "api"
               ELSE IF "validating" \in todo THEN "validating" ELSE "mutating"

NextObject(j, todo, ca) ==
    job' = [job EXCEPT ![j] = [@ EXCEPT !.pc = IF todo = {} THEN "exit" ELSE "get",
                                        !.todo = todo, !.ca = ca, !.copy = None]]

Patch(j) ==
    /\ job[j].pc = "start"
    /\ Ordered => \A c \in Creators : job[c].pc = "done"
    /\ IF SomethingAsked /\ PolicyValid /\ HasCa /\ Accepted
       THEN NextObject(j, Targets, secret)
       ELSE Fatal(j)
    /\ UNCHANGED <<flags, cluster, faults, round>>

(***************************************************************************)
(* pkg/k8s: patchAPIService, patchValidating and patchMutating.            *)
(***************************************************************************)
Get(j) ==
    /\ job[j].pc = "get"
    /\ job' = [job EXCEPT ![j] = [@ EXCEPT !.pc = "update", !.copy = obj[First(job[j].todo)]]]
    /\ UNCHANGED <<flags, cluster, faults, round>>

Patched(o, x, ca) ==
    CASE o = "api" -> [x EXCEPT !.ca = ca, !.insecure = FALSE]
      [] o \in Webhooks ->
           [x EXCEPT !.ca = ca, !.policy = IF failurePolicy = "" THEN @ ELSE failurePolicy]

\* The API server refuses an update of an object that changed since Get, and gives
\* a changed object a new version.
Update(j) ==
    LET o   == First(job[j].todo)
        new == Patched(o, job[j].copy, job[j].ca)
    IN /\ job[j].pc = "update"
       /\ IF obj[o].rv # job[j].copy.rv
          THEN Fatal(j) /\ UNCHANGED obj
          ELSE /\ obj' = [obj EXCEPT ![o] = IF new = @ THEN @ ELSE [new EXCEPT !.rv = @ + 1]]
               /\ NextObject(j, job[j].todo \ {o}, job[j].ca)
       /\ UNCHANGED <<flags, secret, issued, faults, round>>

PatchStep(j) == Patch(j) \/ Get(j) \/ Update(j)

(***************************************************************************)
(* The next installation.  Helm makes the jobs anew; an administrator may  *)
(* have removed the secret to get a new CA, and an object may have been    *)
(* made anew without its bundle.                                           *)
(***************************************************************************)
Upgrade(removed, anew) ==
    /\ round < MaxRounds
    /\ \A j \in Jobs : Ended(j)
    /\ round' = round + 1
    /\ secret' = IF removed THEN None ELSE secret
    /\ obj' = [o \in Objects |-> IF o \in anew THEN [Blank EXCEPT !.rv = obj[o].rv + 1]
                                 ELSE obj[o]]
    /\ job' = [j \in Jobs |-> Fresh]
    /\ UNCHANGED <<flags, issued, faults>>

Step ==
    \/ \E j \in Creators : CreateStep(j)
    \/ \E j \in Patchers : PatchStep(j)
    \/ \E j \in Jobs : Exit(j) \/ PodFails(j)
    \/ \E o \in Objects : ForeignWrite(o)
    \/ \E removed \in BOOLEAN, anew \in SUBSET Objects : Upgrade(removed, anew)

Next == Step /\ UNCHANGED setup

\* A pod that runs goes on, and the job controller restarts one that failed.
AllCreators == UNION {Setups[x].creators : x \in DOMAIN Setups}
AllPatchers == UNION {Setups[x].patchers : x \in DOMAIN Setups}

Fairness ==
    /\ \A j \in AllCreators : WF_vars(j \in DOMAIN job /\ CreateStep(j))
    /\ \A j \in AllPatchers : WF_vars(j \in DOMAIN job /\ PatchStep(j))
    /\ \A j \in AllCreators \cup AllPatchers : WF_vars(j \in DOMAIN job /\ Exit(j))

Spec == Init /\ [][Next]_<<vars, setup>> /\ Fairness

(***************************************************************************)
(* Properties                                                              *)
(***************************************************************************)
\* When all jobs are done, every object they were to patch trusts the CA in the
\* secret, whatever pods died and whichever jobs ran together: the API server then
\* accepts the certificate of the webhook.
BundlesMatch ==
    Complete => \A o \in Targets : /\ obj[o].ca = secret
                                   /\ o = "api" => ~obj[o].insecure

\* When all jobs are done, every webhook configuration has the failure policy of the
\* command line: "If set, patch the webhooks with this failure policy. Valid options
\* are Ignore or Fail" (cmd/patch.go:118).
PolicyApplied ==
    Complete /\ flags.policy # "" => \A o \in Targets \cap Webhooks : obj[o].policy = flags.policy

\* Both, but for the policy Ignore, which failurePolicy drops: such a command line
\* leaves the policy that the configuration had.
JobsAgree == BundlesMatch /\ (flags.policy # "Ignore" => PolicyApplied)

AllRounds == UNION {1..Setups[x].rounds : x \in DOMAIN Setups}

\* With fewer disturbances than restarts the jobs of an installation end well, so
\* none depends on having been the first or on not having been interrupted.
Installed == \A r \in AllRounds : round = r ~> Complete \/ round > r
=============================================================================
