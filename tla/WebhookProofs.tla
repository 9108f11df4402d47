---------------------------- MODULE WebhookProofs ----------------------------
(***************************************************************************)
(* Proofs about the admission webhook: what its reviews let pass           *)
(* (Admission), and the jobs that give it a certificate (Certgen), for     *)
(* every set of ingresses, clients and jobs and every command line.        *)
(***************************************************************************)
EXTENDS Webhook, FiniteSetTheorems, TLAPS

-----------------------------------------------------------------------------
(* Jobs *)

\* What the assumptions on the setups say of the one of this behaviour.
JobsGiven ==
  /\ setup \in DOMAIN JobSetups
  /\ Certgen!Patchers # {} /\ Certgen!Creators \cap Certgen!Patchers = {}
  /\ None \notin Nat /\ NoKey \notin Nat
  /\ Certgen!Secrets \subseteq {None, NoKey} \cup (Nat \ {0})
  /\ \A f \in Certgen!Flags : /\ f.mutating \in BOOLEAN /\ f.validating \in BOOLEAN
                              /\ f.name \in BOOLEAN /\ f.api \in BOOLEAN
  /\ Certgen!BackoffLimit \in Nat /\ Certgen!MaxFaults \in Nat
  /\ Certgen!MaxRounds \in Nat \ {0}

LEMMA JobsAreGiven == OfJobs => JobsGiven
BY WebhookAssumption DEF OfJobs, JobsGiven, Certgen!JobAssumption, Certgen!Patchers,
   Certgen!Creators, Certgen!Secrets, Certgen!Flags, Certgen!BackoffLimit, Certgen!MaxFaults,
   Certgen!MaxRounds

\* The setup of a behaviour does not change.
SameJobs ==
  /\ UNCHANGED <<setup, Certgen!Creators, Certgen!Patchers, Certgen!Jobs>>
  /\ UNCHANGED <<Certgen!Flags, Certgen!Ordered>>
  /\ UNCHANGED <<Certgen!BackoffLimit, Certgen!MaxFaults, Certgen!MaxRounds>>

LEMMA SetupStays == UNCHANGED setup => SameJobs
BY DEF SameJobs, Certgen!Creators, Certgen!Patchers, Certgen!Jobs, Certgen!Flags,
   Certgen!Ordered, Certgen!BackoffLimit, Certgen!MaxFaults, Certgen!MaxRounds

\* What a patch job leaves behind in an object that it has patched.
Trusting(o) ==
  /\ obj[o].ca = secret
  /\ o = "api" => ~obj[o].insecure
  /\ o \in Certgen!Webhooks /\ Certgen!failurePolicy # "" => obj[o].policy = Certgen!failurePolicy

Working  == {"get", "update", "exit", "done"}

\* A patch job that got past its checks has the CA of the secret, which nobody
\* replaces while jobs run, and the targets that it is through with stay patched,
\* whoever writes them after it.
PatcherOK(p) ==
  job[p].pc \in Working =>
    /\ secret \in 1..issued
    /\ job[p].ca = secret
    /\ Certgen!PolicyValid
    /\ job[p].todo \subseteq Certgen!Targets
    /\ \A o \in Certgen!Targets \ job[p].todo : Trusting(o)

StepsOK(p) ==
  /\ job[p].pc \in {"get", "update"} => job[p].todo # {}
  /\ job[p].pc \in {"exit", "done"} => job[p].todo = {}
  /\ job[p].pc = "update" => job[p].copy \in Certgen!Manifests

JobInv == Certgen!TypeOK /\ \A p \in Certgen!Patchers : PatcherOK(p) /\ StepsOK(p)

\* The jobs start with their facts.
LEMMA JobInit ==
  ASSUME JobsGiven, Certgen!Init
  PROVE  JobInv
<1>1. issued \in Nat /\ secret \in {NoKey} \cup Certgen!Authorities
  BY DEF JobsGiven, Certgen!Init, Certgen!Authorities
<1>2. Certgen!Blank \in Certgen!Manifests
  BY <1>1 DEF Certgen!Blank, Certgen!Manifests, Certgen!Authorities, Certgen!Policies
<1>3. Certgen!Fresh \in [pc : {"start", "save", "get", "update", "exit", "done", "failed"},
                         ca : Certgen!Authorities, todo : SUBSET Certgen!Objects,
                         copy : {None} \cup Certgen!Manifests, tries : 0..Certgen!BackoffLimit]
  BY DEF Certgen!Fresh, Certgen!Authorities, JobsGiven
<1>4. Certgen!TypeOK
  BY <1>1, <1>2, <1>3 DEF Certgen!TypeOK, Certgen!Init, JobsGiven
<1>5. \A p \in Certgen!Patchers : job[p].pc = "start"
  BY DEF Certgen!Init, Certgen!Fresh, Certgen!Jobs
<1> QED
  BY <1>4, <1>5 DEF JobInv, PatcherOK, StepsOK, Working

\* The kind of record that a job is.
JobType == [pc : {"start", "save", "get", "update", "exit", "done", "failed"},
            ca : Certgen!Authorities, todo : SUBSET Certgen!Objects,
            copy : {None} \cup Certgen!Manifests, tries : 0..Certgen!BackoffLimit]

\* A job that ends or starts again disturbs nobody.
LEMMA FatalKeeps ==
  ASSUME SameJobs, JobsGiven, JobInv, NEW j \in Certgen!Jobs, Certgen!Fatal(j),
         UNCHANGED <<flags, secret, issued, obj, round>>, faults' \in 0..Certgen!MaxFaults
  PROVE  JobInv'
<1> USE DEF SameJobs
<1> DEFINE new == IF job[j].tries = Certgen!BackoffLimit THEN [job[j] EXCEPT !.pc = "failed"]
                  ELSE [Certgen!Fresh EXCEPT !.tries = job[j].tries + 1]
<1>1. job \in [Certgen!Jobs -> JobType]
  BY DEF JobInv, Certgen!TypeOK, JobType
<1>2. job' = [job EXCEPT ![j] = new]
  BY DEF Certgen!Fatal
<1>3. job[j] \in JobType
  BY <1>1
<1>4. new \in JobType /\ new.pc \in {"failed", "start"}
  <2>1. CASE job[j].tries = Certgen!BackoffLimit
    BY <1>3, <2>1 DEF JobType
  <2>2. CASE job[j].tries # Certgen!BackoffLimit
    <3>1. job[j].tries + 1 \in 0..Certgen!BackoffLimit
      BY <1>3, <2>2 DEF JobType, JobsGiven
    <3>2. new = [pc |-> "start", ca |-> None, todo |-> {}, copy |-> None,
                 tries |-> job[j].tries + 1]
      BY <2>2 DEF Certgen!Fresh
    <3> QED  BY <3>1, <3>2 DEF JobType, Certgen!Authorities
  <2> QED  BY <2>1, <2>2
<1>5. job' \in [Certgen!Jobs -> JobType]
  BY <1>1, <1>2, <1>4
<1>6. ASSUME NEW p \in Certgen!Patchers
      PROVE  (PatcherOK(p) /\ StepsOK(p))'
  <2>1. p \in Certgen!Jobs
    BY DEF Certgen!Jobs
  <2>2. CASE p = j
    <3>1. job'[p].pc \in {"failed", "start"}
      BY <1>1, <1>2, <1>4, <2>1, <2>2
    <3> QED  BY <3>1 DEF PatcherOK, StepsOK, Working
  <2>3. CASE p # j
    <3>1. job'[p] = job[p]
      BY <1>1, <1>2, <2>1, <2>3
    <3> QED
      BY <3>1 DEF JobInv, PatcherOK, StepsOK, Working, Trusting, Certgen!PolicyValid,
                  Certgen!Targets, Certgen!failurePolicy, Certgen!Manifests, Certgen!Authorities
  <2> QED  BY <2>2, <2>3
<1>7. Certgen!TypeOK'
  BY <1>5 DEF JobInv, Certgen!TypeOK, JobType, Certgen!Authorities, Certgen!Manifests
<1> QED  BY <1>6, <1>7 DEF JobInv
\* A patch job that does not move keeps its facts while the secret stays, if what was
\* patched stays patched.
LEMMA Undisturbed ==
  ASSUME SameJobs, JobInv, UNCHANGED <<flags, secret, issued>>,
         \A o \in Certgen!Targets : Trusting(o) => Trusting(o)',
         NEW p \in Certgen!Patchers, job'[p] = job[p]
  PROVE  (PatcherOK(p) /\ StepsOK(p))'
<1> USE DEF SameJobs
<1>1. Certgen!Targets' = Certgen!Targets /\ Certgen!PolicyValid' = Certgen!PolicyValid
  BY DEF Certgen!Targets, Certgen!PolicyValid
<1>2. Certgen!Manifests' = Certgen!Manifests
  BY DEF Certgen!Manifests, Certgen!Authorities
<1>3. PatcherOK(p) /\ StepsOK(p)
  BY DEF JobInv
<1>4. StepsOK(p)'
  BY <1>2, <1>3 DEF StepsOK
<1>5. PatcherOK(p)'
  BY <1>1, <1>3 DEF PatcherOK
<1> QED  BY <1>4, <1>5

\* A job that only moves on keeps its other fields.
LEMMA AdvanceStep ==
  ASSUME SameJobs, JobInv, NEW j \in Certgen!Jobs,
         NEW pc \in {"save", "exit", "done"}, Certgen!Advance(j, pc)
  PROVE  /\ job' \in [Certgen!Jobs -> JobType]
         /\ job'[j] = [job[j] EXCEPT !.pc = pc]
         /\ \A k \in Certgen!Jobs : k # j => job'[k] = job[k]
<1> USE DEF SameJobs
<1>1. job \in [Certgen!Jobs -> JobType]
  BY DEF JobInv, Certgen!TypeOK, JobType
<1>2. job' = [job EXCEPT ![j] = [job[j] EXCEPT !.pc = pc]]
  BY <1>1 DEF Certgen!Advance
<1>3. [job[j] EXCEPT !.pc = pc] \in JobType
  BY <1>1 DEF JobType
<1> QED  BY <1>1, <1>2, <1>3

\* A create job writes the secret only if there is none, and then no patch job has
\* got past its checks.
LEMMA CreateKeeps ==
  ASSUME SameJobs, JobsGiven, JobInv, NEW j \in Certgen!Creators, Certgen!CreateStep(j)
  PROVE  JobInv'
<1> USE DEF SameJobs
<1>0. j \in Certgen!Jobs /\ \A p \in Certgen!Patchers : p \in Certgen!Jobs /\ p # j
  BY DEF Certgen!Jobs, JobsGiven
<1>1. Certgen!TypeOK
  BY DEF JobInv
<1>2. CASE /\ Certgen!createCommand(j)
           /\ UNCHANGED <<flags, Certgen!cluster, faults, round>>
  <2>0. UNCHANGED <<flags, secret, issued, obj, faults, round>>
    BY <1>2 DEF Certgen!cluster
  <2>1. CASE Certgen!Fatal(j)
    <3>1. faults' \in 0..Certgen!MaxFaults
      BY <1>1, <2>0 DEF Certgen!TypeOK
    <3> QED  BY <1>0, <2>0, <2>1, <3>1, FatalKeeps
  <2>2. CASE Certgen!Advance(j, "save") \/ Certgen!Advance(j, "exit")
    <3>1. /\ job' \in [Certgen!Jobs -> JobType]
          /\ \A k \in Certgen!Jobs : k # j => job'[k] = job[k]
      BY <1>0, <2>2, AdvanceStep
    <3>2. Certgen!TypeOK'
      BY <1>1, <2>0, <3>1 DEF Certgen!TypeOK, JobType, Certgen!Authorities, Certgen!Manifests
    <3>3. \A o \in Certgen!Targets : Trusting(o) => Trusting(o)'
      BY <2>0 DEF Trusting, Certgen!failurePolicy
    <3>4. \A p \in Certgen!Patchers : (PatcherOK(p) /\ StepsOK(p))'
      BY <1>0, <2>0, <3>1, <3>3, Undisturbed
    <3> QED  BY <3>2, <3>4 DEF JobInv
  <2> QED  BY <1>2, <2>1, <2>2 DEF Certgen!createCommand
<1>3. CASE /\ job[j].pc = "save"
           /\ Certgen!SaveCertsToSecret(j)
           /\ UNCHANGED <<flags, obj, faults, round>>
  <2>1. CASE secret = None
    <3>1. issued' = issued + 1 /\ secret' = issued' /\ Certgen!Advance(j, "exit")
      BY <1>3, <2>1 DEF Certgen!SaveCertsToSecret
    <3>2. /\ issued \in Nat /\ issued' \in Nat
          /\ secret' \in 1..issued' /\ 1..issued \subseteq 1..issued'
      BY <1>1, <3>1 DEF Certgen!TypeOK
    <3>3. /\ job' \in [Certgen!Jobs -> JobType]
          /\ \A k \in Certgen!Jobs : k # j => job'[k] = job[k]
      BY <1>0, <3>1, AdvanceStep
    <3>4. Certgen!Authorities \subseteq Certgen!Authorities'
      BY <3>2 DEF Certgen!Authorities
    <3>5. Certgen!Manifests \subseteq Certgen!Manifests'
      BY <3>4 DEF Certgen!Manifests
    <3>6. JobType \subseteq JobType'
      BY <3>4, <3>5 DEF JobType
    <3>7. job' \in [Certgen!Jobs -> JobType'] /\ obj' \in [Certgen!Objects -> Certgen!Manifests']
      BY <1>1, <1>3, <3>3, <3>5, <3>6 DEF Certgen!TypeOK
    <3>8. secret' \in {NoKey} \cup Certgen!Authorities'
      BY <3>2 DEF Certgen!Authorities
    <3>9. Certgen!TypeOK'
      BY <1>1, <1>3, <3>2, <3>7, <3>8 DEF Certgen!TypeOK, JobType
    <3>10. ASSUME NEW p \in Certgen!Patchers
           PROVE  (PatcherOK(p) /\ StepsOK(p))'
      <4>1. job'[p] = job[p]
        BY <1>0, <3>3
      <4>2. secret \notin 1..issued
        BY <2>1 DEF JobsGiven
      <4>3. job[p].pc \notin Working /\ StepsOK(p)
        BY <4>2 DEF JobInv, PatcherOK
      <4>4. StepsOK(p)'
        BY <3>5, <4>1, <4>3 DEF StepsOK
      <4> QED  BY <4>1, <4>3, <4>4 DEF PatcherOK
    <3> QED  BY <3>9, <3>10 DEF JobInv
  <2>2. CASE secret # None
    <3>0. Certgen!Fatal(j) /\ UNCHANGED <<flags, secret, issued, obj, faults, round>>
      BY <1>3, <2>2 DEF Certgen!SaveCertsToSecret
    <3>1. faults' \in 0..Certgen!MaxFaults
      BY <1>1, <3>0 DEF Certgen!TypeOK
    <3> QED  BY <1>0, <3>0, <3>1, FatalKeeps
  <2> QED  BY <2>1, <2>2
<1> QED  BY <1>2, <1>3 DEF Certgen!CreateStep
\* What NextObject makes of a job.
LEMMA NextObjectStep ==
  ASSUME SameJobs, JobInv, NEW j \in Certgen!Jobs, NEW todo \in SUBSET Certgen!Objects,
         NEW ca \in Certgen!Authorities, Certgen!NextObject(j, todo, ca)
  PROVE  /\ job' \in [Certgen!Jobs -> JobType]
         /\ job'[j].pc = IF todo = {} THEN "exit" ELSE "get"
         /\ job'[j].todo = todo /\ job'[j].ca = ca
         /\ \A k \in Certgen!Jobs : k # j => job'[k] = job[k]
<1> USE DEF SameJobs
<1> DEFINE new == [job[j] EXCEPT !.pc = IF todo = {} THEN "exit" ELSE "get",
                                 !.todo = todo, !.ca = ca, !.copy = None]
<1>1. job \in [Certgen!Jobs -> JobType]
  BY DEF JobInv, Certgen!TypeOK, JobType
<1>2. job' = [job EXCEPT ![j] = new]
  BY DEF Certgen!NextObject
<1>3. new \in JobType /\ new.pc = (IF todo = {} THEN "exit" ELSE "get")
        /\ new.todo = todo /\ new.ca = ca
  BY <1>1 DEF JobType
<1> QED  BY <1>1, <1>2, <1>3

\* A patch job takes the CA of the secret and all of its targets.
LEMMA PatchKeeps ==
  ASSUME SameJobs, JobsGiven, JobInv, NEW j \in Certgen!Patchers, Certgen!Patch(j)
  PROVE  JobInv'
<1> USE DEF SameJobs
<1>0. j \in Certgen!Jobs /\ \A p \in Certgen!Patchers : p \in Certgen!Jobs
  BY DEF Certgen!Jobs
<1>1. Certgen!TypeOK
  BY DEF JobInv
<1>2. UNCHANGED <<flags, secret, issued, obj, faults, round>>
  BY DEF Certgen!Patch, Certgen!cluster
<1>3. CASE Certgen!Fatal(j)
  <2>1. faults' \in 0..Certgen!MaxFaults
    BY <1>1, <1>2 DEF Certgen!TypeOK
  <2> QED  BY <1>0, <1>2, <1>3, <2>1, FatalKeeps
<1>4. CASE /\ Certgen!PolicyValid /\ Certgen!HasCa
           /\ Certgen!NextObject(j, Certgen!Targets, secret)
  <2>1. Certgen!Targets \in SUBSET Certgen!Objects /\ secret \in Certgen!Authorities
    BY <1>4 DEF Certgen!Targets, Certgen!HasCa, Certgen!Authorities
  <2>2. /\ job' \in [Certgen!Jobs -> JobType]
        /\ job'[j].pc = IF Certgen!Targets = {} THEN "exit" ELSE "get"
        /\ job'[j].todo = Certgen!Targets /\ job'[j].ca = secret
        /\ \A k \in Certgen!Jobs : k # j => job'[k] = job[k]
    BY <1>0, <1>4, <2>1, NextObjectStep
  <2>3. Certgen!TypeOK'
    BY <1>1, <1>2, <2>2 DEF Certgen!TypeOK, JobType, Certgen!Authorities, Certgen!Manifests
  <2>4. \A o \in Certgen!Targets : Trusting(o) => Trusting(o)'
    BY <1>2 DEF Trusting, Certgen!failurePolicy
  <2>5. \A p \in Certgen!Patchers : p # j => (PatcherOK(p) /\ StepsOK(p))'
    BY <1>0, <1>2, <2>2, <2>4, Undisturbed
  <2>6. Certgen!Targets' = Certgen!Targets /\ Certgen!PolicyValid' = Certgen!PolicyValid
    BY <1>2 DEF Certgen!Targets, Certgen!PolicyValid
  <2>7. (PatcherOK(j) /\ StepsOK(j))'
    BY <1>2, <1>4, <2>2, <2>6 DEF PatcherOK, StepsOK, Certgen!HasCa
  <2> QED  BY <2>3, <2>5, <2>7 DEF JobInv
<1> QED  BY <1>3, <1>4 DEF Certgen!Patch

\* PatchObjects works on an object that is left to do.
LEMMA FirstIsLeft ==
  ASSUME NEW todo \in SUBSET Certgen!Objects, todo # {}
  PROVE  Certgen!First(todo) \in todo
BY DEF Certgen!First, Certgen!Objects, Certgen!Webhooks

\* A patch job reads an object.
LEMMA GetKeeps ==
  ASSUME SameJobs, JobsGiven, JobInv, NEW j \in Certgen!Patchers, Certgen!Get(j)
  PROVE  JobInv'
<1> USE DEF SameJobs
<1>0. j \in Certgen!Jobs /\ \A p \in Certgen!Patchers : p \in Certgen!Jobs
  BY DEF Certgen!Jobs
<1>1. Certgen!TypeOK /\ PatcherOK(j) /\ StepsOK(j)
  BY DEF JobInv
<1>2. UNCHANGED <<flags, secret, issued, obj, faults, round>>
  BY DEF Certgen!Get, Certgen!cluster
<1>3. job \in [Certgen!Jobs -> JobType]
  BY <1>1 DEF Certgen!TypeOK, JobType
<1>4. obj[Certgen!First(job[j].todo)] \in Certgen!Manifests
  <2>1. job[j].todo \in SUBSET Certgen!Objects /\ job[j].todo # {}
    BY <1>0, <1>1, <1>3 DEF JobType, StepsOK, Certgen!Get
  <2> QED  BY <1>1, <2>1, FirstIsLeft DEF Certgen!TypeOK
<1> DEFINE new == [job[j] EXCEPT !.pc = "update", !.copy = obj[Certgen!First(job[j].todo)]]
<1>5. job' = [job EXCEPT ![j] = new]
  BY DEF Certgen!Get
<1>6. /\ new \in JobType /\ new.pc = "update" /\ new.ca = job[j].ca
      /\ new.todo = job[j].todo /\ new.copy \in Certgen!Manifests
  BY <1>0, <1>3, <1>4 DEF JobType
<1>7. /\ job' \in [Certgen!Jobs -> JobType] /\ job'[j] = new
      /\ \A k \in Certgen!Jobs : k # j => job'[k] = job[k]
  BY <1>0, <1>3, <1>5, <1>6
<1>8. Certgen!TypeOK'
  BY <1>1, <1>2, <1>7 DEF Certgen!TypeOK, JobType, Certgen!Authorities, Certgen!Manifests
<1>9. \A o \in Certgen!Targets : Trusting(o) <=> Trusting(o)'
  BY <1>2 DEF Trusting, Certgen!failurePolicy
<1>10. \A p \in Certgen!Patchers : p # j => (PatcherOK(p) /\ StepsOK(p))'
  BY <1>0, <1>2, <1>7, <1>9, Undisturbed
<1>11. Certgen!Targets' = Certgen!Targets /\ Certgen!PolicyValid' = Certgen!PolicyValid
  BY <1>2 DEF Certgen!Targets, Certgen!PolicyValid
<1>12. Certgen!Manifests' = Certgen!Manifests
  BY <1>2 DEF Certgen!Manifests, Certgen!Authorities
<1>13. job[j].pc \in Working /\ job[j].todo # {}
  BY <1>1 DEF Certgen!Get, Working, StepsOK
<1>14. StepsOK(j)'
  BY <1>6, <1>7, <1>12, <1>13 DEF StepsOK
<1>15. PatcherOK(j)'
  BY <1>1, <1>2, <1>6, <1>7, <1>9, <1>11, <1>13 DEF PatcherOK
<1> QED  BY <1>8, <1>10, <1>14, <1>15 DEF JobInv
\* What a patch job makes of its copy of an object.
LEMMA PatchedIsTrusting ==
  ASSUME NEW o \in Certgen!Objects, NEW x \in Certgen!Manifests, NEW ca \in Certgen!Authorities
  PROVE  /\ Certgen!Patched(o, x, ca) \in Certgen!Manifests
         /\ Certgen!Patched(o, x, ca).ca = ca
         /\ o = "api" => ~Certgen!Patched(o, x, ca).insecure
         /\ o \in Certgen!Webhooks /\ Certgen!failurePolicy # "" =>
              Certgen!Patched(o, x, ca).policy = Certgen!failurePolicy
<1>1. Certgen!failurePolicy \in Certgen!Policies
  BY DEF Certgen!failurePolicy, Certgen!Policies
<1>2. CASE o = "api"
  <2>1. Certgen!Patched(o, x, ca) = [x EXCEPT !.ca = ca, !.insecure = FALSE]
    BY <1>2 DEF Certgen!Patched, Certgen!Webhooks
  <2> QED  BY <1>2, <2>1 DEF Certgen!Manifests, Certgen!Webhooks
<1>3. CASE o \in Certgen!Webhooks
  <2> DEFINE pol == IF Certgen!failurePolicy = "" THEN x.policy ELSE Certgen!failurePolicy
  <2>1. Certgen!Patched(o, x, ca) = [x EXCEPT !.ca = ca, !.policy = pol]
    BY <1>3 DEF Certgen!Patched, Certgen!Webhooks
  <2>2. pol \in Certgen!Policies
    BY <1>1 DEF Certgen!Manifests
  <2> QED  BY <1>3, <2>1, <2>2 DEF Certgen!Manifests, Certgen!Webhooks
<1> QED  BY <1>2, <1>3 DEF Certgen!Objects

\* A patch job writes an object that nobody wrote since it read it; the object then
\* has the CA that all patch jobs have.
LEMMA UpdateKeeps ==
  ASSUME SameJobs, JobsGiven, JobInv, NEW j \in Certgen!Patchers, Certgen!Update(j)
  PROVE  JobInv'
<1> USE DEF SameJobs
<1>p. PICK o : o = Certgen!First(job[j].todo)
  OBVIOUS
<1> DEFINE new == Certgen!Patched(o, job[j].copy, job[j].ca)
<1>0. j \in Certgen!Jobs /\ \A p \in Certgen!Patchers : p \in Certgen!Jobs
  BY DEF Certgen!Jobs
<1>1. Certgen!TypeOK /\ PatcherOK(j) /\ StepsOK(j)
  BY DEF JobInv
<1>2. UNCHANGED <<flags, secret, issued, faults, round>> /\ job[j].pc = "update"
  BY DEF Certgen!Update
<1>3. job \in [Certgen!Jobs -> JobType]
  BY <1>1 DEF Certgen!TypeOK, JobType
<1>4. job[j].todo \in SUBSET Certgen!Objects /\ job[j].ca \in Certgen!Authorities
  BY <1>0, <1>3 DEF JobType
<1>5. CASE Certgen!Fatal(j) /\ UNCHANGED obj
  <2>1. faults' \in 0..Certgen!MaxFaults
    BY <1>1, <1>2 DEF Certgen!TypeOK
  <2> QED  BY <1>0, <1>2, <1>5, <2>1, FatalKeeps
<1>6. CASE /\ obj[o].rv = job[j].copy.rv
           /\ obj' = [obj EXCEPT ![o] = IF new = obj[o] THEN obj[o]
                                        ELSE [new EXCEPT !.rv = new.rv + 1]]
           /\ Certgen!NextObject(j, job[j].todo \ {o}, job[j].ca)
  <2>1. o \in job[j].todo /\ o \in Certgen!Objects
    BY <1>p, <1>1, <1>2, <1>4, FirstIsLeft DEF StepsOK
  <2>2. /\ new \in Certgen!Manifests /\ new.ca = job[j].ca
        /\ o = "api" => ~new.insecure
        /\ o \in Certgen!Webhooks /\ Certgen!failurePolicy # "" =>
             new.policy = Certgen!failurePolicy
    BY <1>1, <1>2, <1>4, <2>1, PatchedIsTrusting DEF StepsOK
  <2> HIDE DEF new
  <2>3. obj \in [Certgen!Objects -> Certgen!Manifests]
    BY <1>1 DEF Certgen!TypeOK
  <2>4. /\ obj'[o] \in Certgen!Manifests /\ obj'[o].ca = new.ca
        /\ obj'[o].insecure = new.insecure /\ obj'[o].policy = new.policy
    <3>1. CASE new = obj[o]
      BY <1>6, <2>1, <2>2, <2>3, <3>1
    <3>2. CASE new # obj[o]
      <4>1. obj'[o] = [new EXCEPT !.rv = new.rv + 1]
        BY <1>6, <2>1, <2>3, <3>2
      <4>2. new.rv + 1 \in Nat
        <5>1. new.rv \in Nat
          BY <2>2 DEF Certgen!Manifests
        <5> QED  BY <5>1
      <4>3. /\ obj'[o].ca = new.ca /\ obj'[o].insecure = new.insecure
            /\ obj'[o].policy = new.policy
        BY <2>2, <4>1 DEF Certgen!Manifests
      <4>4. obj'[o] \in Certgen!Manifests
        BY <2>2, <4>1, <4>2 DEF Certgen!Manifests
      <4> QED  BY <4>3, <4>4
    <3> QED  BY <3>1, <3>2
  <2>5. obj' \in [Certgen!Objects -> Certgen!Manifests]
          /\ \A x \in Certgen!Objects : x # o => obj'[x] = obj[x]
    BY <1>6, <2>1, <2>3, <2>4
  <2>6. /\ job' \in [Certgen!Jobs -> JobType]
        /\ job'[j].pc = IF job[j].todo \ {o} = {} THEN "exit" ELSE "get"
        /\ job'[j].todo = job[j].todo \ {o} /\ job'[j].ca = job[j].ca
        /\ \A k \in Certgen!Jobs : k # j => job'[k] = job[k]
    <3>1. job[j].todo \ {o} \in SUBSET Certgen!Objects
      BY <1>4
    <3> QED  BY <1>0, <1>4, <1>6, <3>1, NextObjectStep
  <2>7. Certgen!TypeOK'
    BY <1>1, <1>2, <2>5, <2>6 DEF Certgen!TypeOK, JobType, Certgen!Authorities, Certgen!Manifests
  <2>8. job[j].ca = secret /\ secret \in 1..issued /\ Certgen!PolicyValid
          /\ job[j].todo \subseteq Certgen!Targets
          /\ \A x \in Certgen!Targets \ job[j].todo : Trusting(x)
    BY <1>1, <1>2 DEF PatcherOK, Working
  <2>9. Trusting(o)'
    BY <1>2, <2>2, <2>4, <2>8 DEF Trusting, Certgen!failurePolicy
  <2>10. \A x \in Certgen!Targets : Trusting(x) => Trusting(x)'
    <3>1. \A x \in Certgen!Targets : x \in Certgen!Objects
      BY DEF Certgen!Targets
    <3> QED  BY <1>2, <2>5, <2>9, <3>1 DEF Trusting, Certgen!failurePolicy
  <2>11. \A p \in Certgen!Patchers : p # j => (PatcherOK(p) /\ StepsOK(p))'
    BY <1>0, <1>2, <2>6, <2>10, Undisturbed
  <2>12. Certgen!Targets' = Certgen!Targets /\ Certgen!PolicyValid' = Certgen!PolicyValid
    BY <1>2 DEF Certgen!Targets, Certgen!PolicyValid
  <2>13. PatcherOK(j)'
    BY <1>2, <2>6, <2>8, <2>9, <2>10, <2>12 DEF PatcherOK
  <2>14. StepsOK(j)'
    BY <2>6 DEF StepsOK
  <2> QED  BY <2>7, <2>11, <2>13, <2>14 DEF JobInv
<1> QED  BY <1>p, <1>5, <1>6 DEF Certgen!Update
\* A command that returns has nothing left to do.
LEMMA ExitKeeps ==
  ASSUME SameJobs, JobInv, NEW j \in Certgen!Jobs, Certgen!Exit(j)
  PROVE  JobInv'
<1> USE DEF SameJobs
<1>1. UNCHANGED <<flags, secret, issued, obj, faults, round>> /\ job[j].pc = "exit"
  BY DEF Certgen!Exit, Certgen!cluster
<1>2. /\ job' \in [Certgen!Jobs -> JobType]
      /\ job'[j] = [job[j] EXCEPT !.pc = "done"]
      /\ \A k \in Certgen!Jobs : k # j => job'[k] = job[k]
  BY AdvanceStep DEF Certgen!Exit
<1>3. Certgen!TypeOK /\ Certgen!TypeOK'
  BY <1>1, <1>2 DEF JobInv, Certgen!TypeOK, JobType, Certgen!Authorities, Certgen!Manifests
<1>4. \A o \in Certgen!Targets : Trusting(o) <=> Trusting(o)'
  BY <1>1 DEF Trusting, Certgen!failurePolicy
<1>5. \A p \in Certgen!Patchers : p # j => (PatcherOK(p) /\ StepsOK(p))'
  BY <1>1, <1>2, <1>4, Undisturbed DEF Certgen!Jobs
<1>6. ASSUME j \in Certgen!Patchers
      PROVE  (PatcherOK(j) /\ StepsOK(j))'
  <2>1. PatcherOK(j) /\ StepsOK(j)
    BY <1>6 DEF JobInv
  <2>2. Certgen!Targets' = Certgen!Targets /\ Certgen!PolicyValid' = Certgen!PolicyValid
    BY <1>1 DEF Certgen!Targets, Certgen!PolicyValid
  <2>3. job[j] \in JobType
    BY <1>3 DEF Certgen!TypeOK, JobType
  <2>4. job'[j].pc = "done" /\ job'[j].ca = job[j].ca /\ job'[j].todo = job[j].todo
    BY <1>2, <2>3 DEF JobType
  <2>5. PatcherOK(j)'
    BY <1>1, <1>4, <2>1, <2>2, <2>4 DEF PatcherOK, Working
  <2>6. StepsOK(j)'
    BY <1>1, <2>1, <2>4 DEF StepsOK
  <2> QED  BY <2>5, <2>6
<1> QED  BY <1>3, <1>5, <1>6 DEF JobInv

\* A foreign write costs a job a conflict and undoes nothing.
LEMMA ForeignKeeps ==
  ASSUME SameJobs, JobsGiven, JobInv, NEW o \in Certgen!Objects, Certgen!ForeignWrite(o)
  PROVE  JobInv'
<1> USE DEF SameJobs
<1>1. UNCHANGED <<flags, secret, issued, job, round>> /\ faults' \in 0..Certgen!MaxFaults
  BY DEF Certgen!ForeignWrite, JobInv, Certgen!TypeOK, JobsGiven
<1>2. obj \in [Certgen!Objects -> Certgen!Manifests]
  BY DEF JobInv, Certgen!TypeOK
<1>3. obj' = [obj EXCEPT ![o] = [obj[o] EXCEPT !.rv = obj[o].rv + 1]]
  BY <1>2 DEF Certgen!ForeignWrite
<1>4. obj[o].rv + 1 \in Nat
  <2>1. obj[o].rv \in Nat
    BY <1>2 DEF Certgen!Manifests
  <2> QED  BY <2>1
<1>5. /\ [obj[o] EXCEPT !.rv = obj[o].rv + 1] \in Certgen!Manifests
      /\ [obj[o] EXCEPT !.rv = obj[o].rv + 1].ca = obj[o].ca
      /\ [obj[o] EXCEPT !.rv = obj[o].rv + 1].policy = obj[o].policy
      /\ [obj[o] EXCEPT !.rv = obj[o].rv + 1].insecure = obj[o].insecure
  BY <1>2, <1>4 DEF Certgen!Manifests
<1>6. /\ obj' \in [Certgen!Objects -> Certgen!Manifests]
      /\ \A x \in Certgen!Objects : /\ obj'[x].ca = obj[x].ca
                                    /\ obj'[x].policy = obj[x].policy
                                    /\ obj'[x].insecure = obj[x].insecure
  BY <1>2, <1>3, <1>5
<1>7. Certgen!TypeOK'
  BY <1>1, <1>6 DEF JobInv, Certgen!TypeOK, Certgen!Authorities, Certgen!Manifests
<1>8. \A x \in Certgen!Targets : Trusting(x) => Trusting(x)'
  BY <1>1, <1>6 DEF Trusting, Certgen!failurePolicy, Certgen!Targets
<1>9. \A p \in Certgen!Patchers : (PatcherOK(p) /\ StepsOK(p))'
  BY <1>1, <1>8, Undisturbed
<1> QED  BY <1>7, <1>9 DEF JobInv

\* An upgrade starts all jobs anew.
LEMMA UpgradeKeeps ==
  ASSUME SameJobs, JobsGiven, JobInv, NEW removed \in BOOLEAN,
         NEW anew \in SUBSET Certgen!Objects, Certgen!Upgrade(removed, anew)
  PROVE  JobInv'
<1> USE DEF SameJobs
<1>1. Certgen!TypeOK
  BY DEF JobInv
<1>2. /\ UNCHANGED <<flags, issued, faults>> /\ round' \in 1..Certgen!MaxRounds
      /\ secret' \in {NoKey} \cup Certgen!Authorities
  BY <1>1 DEF Certgen!Upgrade, Certgen!TypeOK, JobsGiven, Certgen!Authorities
<1>3. ASSUME NEW o \in Certgen!Objects
      PROVE  [Certgen!Blank EXCEPT !.rv = obj[o].rv + 1] \in Certgen!Manifests
  <2>1. obj[o].rv \in Nat
    BY <1>1 DEF Certgen!TypeOK, Certgen!Manifests
  <2>2. obj[o].rv + 1 \in Nat
    BY <2>1
  <2> QED
    BY <2>2 DEF Certgen!Blank, Certgen!Manifests, Certgen!Authorities, Certgen!Policies
<1>4. obj' \in [Certgen!Objects -> Certgen!Manifests]
  BY <1>1, <1>3 DEF Certgen!Upgrade, Certgen!TypeOK
<1>5. Certgen!Fresh \in JobType /\ Certgen!Fresh.pc = "start"
  BY DEF Certgen!Fresh, JobType, Certgen!Authorities, JobsGiven
<1>6. job' = [j \in Certgen!Jobs |-> Certgen!Fresh]
  BY DEF Certgen!Upgrade
<1>7. Certgen!TypeOK'
  BY <1>1, <1>2, <1>4, <1>5, <1>6
     DEF Certgen!TypeOK, JobType, Certgen!Authorities, Certgen!Manifests
<1>8. \A p \in Certgen!Patchers : job'[p].pc = "start"
  BY <1>5, <1>6 DEF Certgen!Jobs
<1> QED  BY <1>7, <1>8 DEF JobInv, PatcherOK, StepsOK, Working

\* JobInv is inductive.
LEMMA JobStep ==
  ASSUME JobsGiven, JobInv, [Certgen!Next]_<<Certgen!vars, setup>>
  PROVE  JobInv'
<1>0. SameJobs
  BY SetupStays DEF Certgen!Next
<1> USE <1>0 DEF SameJobs
<1>1. CASE UNCHANGED Certgen!vars
  <2>1. UNCHANGED <<flags, secret, issued, obj, job, faults, round>>
    BY <1>1 DEF Certgen!vars
  <2>2. \A o \in Certgen!Targets : Trusting(o) => Trusting(o)'
    BY <2>1 DEF Trusting, Certgen!failurePolicy
  <2>3. \A p \in Certgen!Patchers : (PatcherOK(p) /\ StepsOK(p))'
    BY <2>1, <2>2, Undisturbed
  <2>4. Certgen!TypeOK'
    BY <2>1 DEF JobInv, Certgen!TypeOK, Certgen!Authorities, Certgen!Manifests
  <2> QED  BY <2>3, <2>4 DEF JobInv
<1>2. ASSUME NEW j \in Certgen!Creators, Certgen!CreateStep(j)
      PROVE  JobInv'
  BY <1>2, CreateKeeps
<1>3. ASSUME NEW j \in Certgen!Patchers, Certgen!PatchStep(j)
      PROVE  JobInv'
  BY <1>3, PatchKeeps, GetKeeps, UpdateKeeps DEF Certgen!PatchStep
<1>4. ASSUME NEW j \in Certgen!Jobs, Certgen!Exit(j)
      PROVE  JobInv'
  BY <1>4, ExitKeeps
<1>5. ASSUME NEW j \in Certgen!Jobs, Certgen!PodFails(j)
      PROVE  JobInv'
  <2>1. UNCHANGED <<flags, secret, issued, obj, round>> /\ Certgen!Fatal(j)
    BY <1>5 DEF Certgen!PodFails, Certgen!cluster
  <2>2. faults' \in 0..Certgen!MaxFaults
    BY <1>5 DEF Certgen!PodFails, JobInv, Certgen!TypeOK, JobsGiven
  <2> QED  BY <2>1, <2>2, FatalKeeps
<1>6. ASSUME NEW o \in Certgen!Objects, Certgen!ForeignWrite(o)
      PROVE  JobInv'
  BY <1>6, ForeignKeeps
<1>7. ASSUME NEW removed \in BOOLEAN, NEW anew \in SUBSET Certgen!Objects,
             Certgen!Upgrade(removed, anew)
      PROVE  JobInv'
  BY <1>7, UpgradeKeeps
<1> QED  BY <1>1, <1>2, <1>3, <1>4, <1>5, <1>6, <1>7 DEF Certgen!Next, Certgen!Step

\* When all jobs of an installation are done, every object that they were to patch
\* trusts the CA in the secret and has the failure policy of the command line,
\* however many pods of a job ran together, died or started again, whoever else
\* wrote the objects, and however many installations there were before
\* (SaveCertsToSecret, PatchObjects).
THEOREM InstalledJobsAgree == WebhookSpec => []JobsAgree
<1> DEFINE Inv == OfJobs => JobInv
<1>1. WebhookInit => Inv
  BY JobInit, JobsAreGiven, WebhookAssumption DEF WebhookInit, OfJobs, OfReviews
<1>2. Inv /\ [WebhookNext]_allVars => Inv'
  <2> SUFFICES ASSUME Inv, [WebhookNext]_allVars, OfJobs' PROVE JobInv'
    OBVIOUS
  <2>1. UNCHANGED setup
    BY DEF WebhookNext, allVars, Next, Certgen!Next
  <2>2. OfJobs /\ ~OfReviews
    BY <2>1, WebhookAssumption DEF OfJobs, OfReviews
  <2>3. [Certgen!Next]_<<Certgen!vars, setup>>
    BY <2>2 DEF WebhookNext, allVars, jobs, Certgen!vars
  <2> QED  BY <2>2, <2>3, JobStep, JobsAreGiven
<1>3. JobsGiven /\ JobInv => Certgen!JobsAgree
  <2> SUFFICES ASSUME JobsGiven, JobInv, Certgen!Complete PROVE Certgen!JobsAgree
    BY DEF Certgen!JobsAgree, Certgen!BundlesMatch, Certgen!PolicyApplied
  <2>1. PICK p \in Certgen!Patchers : TRUE
    BY DEF JobsGiven
  <2>2. job[p].pc = "done"
    BY DEF Certgen!Complete, Certgen!Jobs, JobInv, Certgen!TypeOK
  <2>3. job[p].todo = {} /\ PatcherOK(p)
    BY <2>2 DEF JobInv, StepsOK
  <2>4. Certgen!PolicyValid /\ \A o \in Certgen!Targets : Trusting(o)
    BY <2>2, <2>3 DEF PatcherOK, Working
  <2>5. Certgen!BundlesMatch
    BY <2>4 DEF Certgen!BundlesMatch, Trusting
  <2>6. flags.policy # "Ignore" => Certgen!PolicyApplied
    BY <2>4 DEF Certgen!PolicyApplied, Trusting, Certgen!PolicyValid, Certgen!Policies,
                Certgen!failurePolicy
  <2> QED  BY <2>5, <2>6 DEF Certgen!JobsAgree
<1>4. Inv => JobsAgree
  BY <1>3, JobsAreGiven DEF JobsAgree
<1> QED  BY <1>1, <1>2, <1>4, PTL DEF WebhookSpec

-----------------------------------------------------------------------------
(* Reviews *)

\* What an ingress may ask for.
PathTypes == [path : DOMAIN Slash, type : {"Exact", "Prefix"}]

\* What the assumptions on the setups say of the one of this behaviour.
ReviewsGiven ==
  /\ setup \in DOMAIN Setups
  /\ \A g \in Ingresses : /\ DOMAIN g.paths = 1 .. Len(g.paths) /\ Len(g.paths) \in Nat
                          /\ ToSet(g.paths) \subseteq PathTypes
  /\ None \notin {"allowed", "refused"}
  /\ None \notin [ing : Ingresses, answer : {None, "allowed", "refused"}]
  /\ Checked \subseteq Flaws \ {"none", "body", "kind", "object", "deleting", "nginx"}
  /\ \A p \in Roots : p \in DOMAIN Slash /\ Slash[p] = p
  /\ MaxWrites \in Nat

LEMMA ReviewsAreGiven == OfReviews => ReviewsGiven
BY WebhookAssumption DEF OfReviews, ReviewsGiven, AdmissionAssumption, Proper, Ingresses,
   MaxWrites, PathTypes

\* A finite set of numbers has a first and a last.
LEMMA MinInSet ==
  ASSUME NEW S, IsFiniteSet(S), S # {}, S \subseteq Nat
  PROVE  Min(S) \in S /\ \A y \in S : Min(S) =< y
<1> DEFINE Below(x) == {y \in S : y < x}
           T == {Below(x) : x \in S}
<1>1. T \subseteq FiniteSubsetsOf(S) /\ T # {}
  <2>1. \A x \in S : Below(x) \in SUBSET S
    OBVIOUS
  <2>2. FiniteSubsetsOf(S) = SUBSET S
    BY FS_FiniteSubsetsOfFinite
  <2>3. PICK x \in S : TRUE
    OBVIOUS
  <2> HIDE DEF Below
  <2> QED  BY <2>1, <2>2, <2>3
<1>2. PICK U \in T : \A V \in T : ~(<<V, U>> \in StrictSubsetOrdering(S))
  <2>1. IsWellFoundedOn(StrictSubsetOrdering(S), FiniteSubsetsOf(S))
    BY FS_StrictSubsetOrderingWellFounded
  <2> HIDE DEF T
  <2> QED  BY <1>1, <2>1, WFMin
<1>3. PICK x \in S : U = Below(x)
  BY <1>2
<1>4. ASSUME NEW y \in S
      PROVE  x =< y
  <2> SUFFICES ASSUME y < x PROVE FALSE
    OBVIOUS
  <2>1. Below(y) \subseteq Below(x)
    <3> SUFFICES ASSUME NEW z \in S, z < y PROVE z < x
      OBVIOUS
    <3>1. x \in Nat /\ y \in Nat /\ z \in Nat
      OBVIOUS
    <3> QED  BY <3>1
  <2>2. y \in Below(x) /\ y \notin Below(y)
    OBVIOUS
  <2>3. <<Below(y), U>> \in StrictSubsetOrdering(S)
    <3>1. Below(y) \subseteq U /\ Below(y) # U
      BY <1>3, <2>1, <2>2
    <3>2. Below(y) \in SUBSET S /\ U \in SUBSET S
      BY <1>3
    <3> HIDE DEF Below
    <3> QED  BY <3>1, <3>2 DEF StrictSubsetOrdering
  <2> QED  BY <1>2, <2>3
<1> QED  BY <1>4 DEF Min

LEMMA MaxInSet ==
  ASSUME NEW S, IsFiniteSet(S), S # {}, S \subseteq Nat
  PROVE  Max(S) \in S /\ \A y \in S : Max(S) >= y
<1> DEFINE Above(x) == {y \in S : y > x}
           T == {Above(x) : x \in S}
<1>1. T \subseteq FiniteSubsetsOf(S) /\ T # {}
  <2>1. \A x \in S : Above(x) \in SUBSET S
    OBVIOUS
  <2>2. FiniteSubsetsOf(S) = SUBSET S
    BY FS_FiniteSubsetsOfFinite
  <2>3. PICK x \in S : TRUE
    OBVIOUS
  <2> HIDE DEF Above
  <2> QED  BY <2>1, <2>2, <2>3
<1>2. PICK U \in T : \A V \in T : ~(<<V, U>> \in StrictSubsetOrdering(S))
  <2>1. IsWellFoundedOn(StrictSubsetOrdering(S), FiniteSubsetsOf(S))
    BY FS_StrictSubsetOrderingWellFounded
  <2> HIDE DEF T
  <2> QED  BY <1>1, <2>1, WFMin
<1>3. PICK x \in S : U = Above(x)
  BY <1>2
<1>4. ASSUME NEW y \in S
      PROVE  x >= y
  <2> SUFFICES ASSUME y > x PROVE FALSE
    OBVIOUS
  <2>1. Above(y) \subseteq Above(x)
    <3> SUFFICES ASSUME NEW z \in S, z > y PROVE z > x
      OBVIOUS
    <3>1. x \in Nat /\ y \in Nat /\ z \in Nat
      OBVIOUS
    <3> QED  BY <3>1
  <2>2. y \in Above(x) /\ y \notin Above(y)
    OBVIOUS
  <2>3. <<Above(y), U>> \in StrictSubsetOrdering(S)
    <3>1. Above(y) \subseteq U /\ Above(y) # U
      BY <1>3, <2>1, <2>2
    <3>2. Above(y) \in SUBSET S /\ U \in SUBSET S
      BY <1>3
    <3> HIDE DEF Above
    <3> QED  BY <3>1, <3>2 DEF StrictSubsetOrdering
  <2> QED  BY <1>2, <2>3
<1> QED  BY <1>4 DEF Max

\* WithNew adds an ingress younger than all others.
LEMMA WithNewList ==
  ASSUME NEW s, IsList(s), NEW g \in Ingresses
  PROVE  \E now \in Nat :
           /\ \A k \in DOMAIN s : k < now
           /\ DOMAIN WithNew(s, g) = DOMAIN s \cup {now}
           /\ WithNew(s, g)[now] = g
           /\ \A k \in DOMAIN s : WithNew(s, g)[k] = s[k]
           /\ IsList(WithNew(s, g))
<1> DEFINE D   == DOMAIN s \cup {0}
           now == 1 + Max(D)
<1>1. IsFiniteSet(D) /\ D # {} /\ D \subseteq Nat
  BY FS_AddElement DEF IsList
<1>2. Max(D) \in D /\ \A y \in D : Max(D) >= y
  <2> HIDE DEF D
  <2> QED  BY <1>1, MaxInSet
<1>3. now \in Nat /\ \A k \in DOMAIN s : k < now
  <2>1. Max(D) \in Nat
    BY <1>1, <1>2
  <2>2. \A k \in DOMAIN s : k \in Nat /\ Max(D) >= k
    BY <1>1, <1>2
  <2> HIDE DEF D
  <2> QED  BY <2>1, <2>2
<1>4. WithNew(s, g) = [k \in DOMAIN s \cup {now} |-> IF k = now THEN g ELSE s[k]]
  BY DEF WithNew
<1> HIDE DEF now
<1>5. /\ DOMAIN WithNew(s, g) = DOMAIN s \cup {now}
      /\ WithNew(s, g)[now] = g
      /\ \A k \in DOMAIN s : WithNew(s, g)[k] = s[k]
  <2>1. \A k \in DOMAIN s : k # now
    BY <1>3 DEF IsList
  <2> QED  BY <1>4, <2>1
<1>6. IsList(WithNew(s, g))
  <2>1. IsFiniteSet(DOMAIN s \cup {now})
    BY FS_AddElement DEF IsList
  <2>2. \A k \in DOMAIN s : s[k] \in Ingresses
    BY DEF IsList, ToSet
  <2>3. \A k \in DOMAIN s \cup {now} : WithNew(s, g)[k] \in Ingresses
    BY <1>5, <2>2
  <2> QED  BY <1>3, <1>5, <2>1, <2>3 DEF IsList, ToSet
<1> QED  BY <1>3, <1>5, <1>6

\* Parts of a list are lists.
LEMMA OnlyList ==
  ASSUME NEW s, IsList(s), NEW ks \in SUBSET DOMAIN s
  PROVE  /\ IsList(Only(s, ks)) /\ DOMAIN Only(s, ks) = ks
         /\ \A k \in ks : Only(s, ks)[k] = s[k]
<1>1. DOMAIN Only(s, ks) = ks /\ \A k \in ks : Only(s, ks)[k] = s[k]
  BY DEF Only
<1>2. IsFiniteSet(ks)
  BY FS_Subset DEF IsList
<1>3. \A k \in ks : s[k] \in Ingresses
  BY DEF IsList, ToSet
<1> QED  BY <1>1, <1>2, <1>3 DEF IsList, ToSet

-----------------------------------------------------------------------------
(* Locations *)

\* Those who ask for x are a finite set of numbers, and what is asked for has a path and a type.
LEMMA Askers ==
  ASSUME ReviewsGiven, NEW s, IsList(s), NEW x
  PROVE  /\ Asks(s, x) \subseteq DOMAIN s /\ Asks(s, x) \subseteq Nat /\ IsFiniteSet(Asks(s, x))
         /\ Asks(s, x) # {} => x \in AllPaths(s)
         /\ AllPaths(s) \subseteq PathTypes
<1>1. Asks(s, x) \subseteq DOMAIN s /\ Asks(s, x) \subseteq Nat
  BY DEF Asks, IsList
<1>2. IsFiniteSet(Asks(s, x))
  BY <1>1, FS_Subset DEF IsList
<1>3. Asks(s, x) # {} => x \in AllPaths(s)
  BY DEF Asks, AllPaths
<1>4. ASSUME NEW k \in DOMAIN s
      PROVE  ToSet(s[k].paths) \subseteq PathTypes
  <2>1. s[k] \in Ingresses
    BY DEF IsList, ToSet
  <2> QED  BY <2>1 DEF ReviewsGiven
<1>5. AllPaths(s) \subseteq PathTypes
  BY <1>4 DEF AllPaths
<1> QED  BY <1>1, <1>2, <1>3, <1>5

\* A location goes to somebody who asks for it, if anybody does; with the type of
\* the first location of the path, to one only.
LEMMA LocatedAsks ==
  ASSUME ReviewsGiven, NEW s, IsList(s), NEW x
  PROVE  /\ Located(s, x) \subseteq Asks(s, x)
         /\ Asks(s, x) # {} => Located(s, x) # {}
         /\ \A k : Asks(s, x) = {k} => Located(s, x) = {k}
         /\ x.type = FirstType(s, x.path) => \A j, k \in Located(s, x) : j = k
<1>1. CASE Asks(s, x) # {} /\ x.type = FirstType(s, x.path)
  <2>1. Located(s, x) = {Min(Asks(s, x))}
    BY <1>1 DEF Located
  <2>2. Min(Asks(s, x)) \in Asks(s, x)
    BY <1>1, Askers, MinInSet
  <2> QED  BY <2>1, <2>2
<1>2. CASE Asks(s, x) = {} \/ x.type # FirstType(s, x.path)
  BY <1>2 DEF Located
<1> QED  BY <1>1, <1>2

\* Members of Locations.
LEMMA LocationMembers ==
  ASSUME NEW s, NEW l \in Locations(s)
  PROVE  /\ l.of \in AllPaths(s) /\ l.by \in Located(s, l.of)
         /\ l.at \in updateServerLocations(s, l.of)
         /\ l = [at |-> l.at, by |-> l.by, of |-> l.of]
BY DEF Locations

\* An ingress with a location for x is among those found at the path of x, or another is.
LEMMA FoundAtPath ==
  ASSUME ReviewsGiven, NEW s, IsList(s), NEW x, Asks(s, x) # {}
  PROVE  ingressForHostPath(s, x.path) # {}
<1>1. /\ x \in AllPaths(s) /\ Located(s, x) # {}
      /\ x \in PathTypes /\ x.type \in {"Exact", "Prefix"}
  BY Askers, LocatedAsks DEF PathTypes
<1>2. PICK k \in Located(s, x) : TRUE
  BY <1>1
<1>3. ASSUME NEW y \in AllPaths(s), NEW j \in Located(s, y), NEW at \in updateServerLocations(s, y),
             at.path = x.path
      PROVE  ingressForHostPath(s, x.path) # {}
  <2> DEFINE l == [at |-> at, by |-> j, of |-> y]
  <2>1. l \in Locations(s) /\ l.at.path = x.path
    BY <1>3 DEF Locations
  <2> HIDE DEF l
  <2> QED  BY <2>1 DEF ingressForHostPath
<1>4. CASE x.type = "Exact" \/ x.path \in Roots
  <2>1. normalizePrefixPath(x).path = x.path
    BY <1>1, <1>4 DEF normalizePrefixPath, ReviewsGiven, PathTypes
  <2>2. normalizePrefixPath(x) \in updateServerLocations(s, x)
    BY DEF updateServerLocations
  <2> QED  BY <1>1, <1>2, <1>3, <2>1, <2>2
<1>5. CASE x.type = "Prefix" /\ x.path \notin Roots
  <2> DEFINE e == Exactly(x.path)
  <2>0. e.path = x.path /\ e.type = "Exact"
    BY DEF Exactly
  <2>1. CASE Located(s, e) = {}
    <3>1. e \in updateServerLocations(s, x)
      BY <1>5, <2>1 DEF updateServerLocations
    <3> QED  BY <1>1, <1>2, <1>3, <2>0, <3>1
  <2>2. CASE Located(s, e) # {}
    <3> HIDE DEF e
    <3>1. e \in AllPaths(s)
      BY <2>2, LocatedAsks, Askers
    <3>2. normalizePrefixPath(e) = e
      BY <2>0 DEF normalizePrefixPath
    <3>3. e \in updateServerLocations(s, e)
      BY <3>2 DEF updateServerLocations
    <3>4. PICK j \in Located(s, e) : TRUE
      BY <2>2
    <3> QED  BY <1>3, <2>0, <3>1, <3>3, <3>4
  <2> QED  BY <2>1, <2>2
<1> QED  BY <1>1, <1>4, <1>5

\* No two locations are the same if no two of those for what is asked are: what is added
\* for a prefix is added only where nobody has it.
LEMMA AddedApart ==
  ASSUME ReviewsGiven, NEW s, IsList(s),
         \A x, y \in AllPaths(s) : \A j \in Located(s, x), k \in Located(s, y) :
            normalizePrefixPath(x) = normalizePrefixPath(y) => x = y /\ j = k,
         NEW l \in Locations(s), NEW m \in Locations(s), l.at = m.at
  PROVE  l = m
<1>1. /\ l.of \in AllPaths(s) /\ l.by \in Located(s, l.of)
      /\ m.of \in AllPaths(s) /\ m.by \in Located(s, m.of)
      /\ l.at \in updateServerLocations(s, l.of) /\ m.at \in updateServerLocations(s, m.of)
      /\ l = [at |-> l.at, by |-> l.by, of |-> l.of] /\ m = [at |-> m.at, by |-> m.by, of |-> m.of]
  BY LocationMembers
<1>2. l.of \in PathTypes /\ m.of \in PathTypes
  BY <1>1, Askers
<1>3. SUFFICES normalizePrefixPath(l.of) = normalizePrefixPath(m.of)
  <2>1. l.of = m.of /\ l.by = m.by
    BY <1>1, <1>3
  <2> QED  BY <1>1, <2>1
\* A location of its own is not where another is added.
<1>4. ASSUME NEW x \in PathTypes, NEW y \in PathTypes, NEW j \in Located(s, x),
             normalizePrefixPath(x) = Exactly(y.path), Located(s, Exactly(y.path)) = {}
      PROVE  FALSE
  <2>1. normalizePrefixPath(x).type = x.type
    BY DEF normalizePrefixPath, PathTypes
  <2>2. x.type = "Exact"
    BY <1>4, <2>1 DEF Exactly
  <2>3. x = Exactly(y.path)
    BY <1>4, <2>2 DEF normalizePrefixPath
  <2> QED  BY <1>4, <2>3
<1>5. CASE l.at = normalizePrefixPath(l.of) /\ m.at = normalizePrefixPath(m.of)
  BY <1>5
<1>6. CASE l.at # normalizePrefixPath(l.of) /\ m.at = normalizePrefixPath(m.of)
  BY <1>1, <1>2, <1>4, <1>6 DEF updateServerLocations
<1>7. CASE l.at = normalizePrefixPath(l.of) /\ m.at # normalizePrefixPath(m.of)
  BY <1>1, <1>2, <1>4, <1>7 DEF updateServerLocations
<1>8. CASE l.at # normalizePrefixPath(l.of) /\ m.at # normalizePrefixPath(m.of)
  <2>1. /\ l.at = Exactly(l.of.path) /\ l.of.type = "Prefix"
        /\ m.at = Exactly(m.of.path) /\ m.of.type = "Prefix"
    BY <1>1, <1>8 DEF updateServerLocations
  <2>2. l.of.path = m.of.path
    <3>1. Exactly(l.of.path) = Exactly(m.of.path)
      BY <2>1
    <3>2. \A p : Exactly(p).path = p
      BY DEF Exactly
    <3> QED  BY <3>1, <3>2
  <2>3. l.of = m.of
    BY <1>2, <2>1, <2>2 DEF PathTypes
  <2> QED  BY <2>3
<1> QED  BY <1>5, <1>6, <1>7, <1>8

\* If types do not differ, whatever is asked for has the type of its path's first location.
LEMMA UniformFirst ==
  ASSUME ReviewsGiven, Uniform, NEW s, IsList(s), NEW x, Asks(s, x) # {}
  PROVE  x.type = FirstType(s, x.path)
<1> DEFINE same == {y \in AllPaths(s) : y.path = x.path}
           ask  == UNION {Asks(s, y) : y \in same}
<1>1. x \in AllPaths(s) /\ AllPaths(s) \subseteq UNION {ToSet(g.paths) : g \in Ingresses}
  <2>1. \A k \in DOMAIN s : s[k] \in Ingresses
    BY DEF IsList, ToSet
  <2> QED  BY <2>1, Askers DEF AllPaths
<1>2. CASE x.path \in Roots
  BY <1>1, <1>2 DEF Uniform, FirstType
<1>3. CASE x.path \notin Roots
  <2>1. ask # {} /\ ask \subseteq DOMAIN s
    BY <1>1, Askers
  <2>2. Min(ask) \in ask
    <3>1. IsFiniteSet(ask) /\ ask \subseteq Nat
      BY <2>1, FS_Subset DEF IsList
    <3> HIDE DEF ask
    <3> QED  BY <2>1, <3>1, MinInSet
  <2>3. PICK y \in same : Min(ask) \in Asks(s, y)
    BY <2>2
  <2> DEFINE ps == s[Min(ask)].paths
             is == {i \in DOMAIN ps : ps[i].path = x.path}
  <2>4. s[Min(ask)] \in Ingresses
    BY <2>1, <2>2 DEF IsList, ToSet
  <2>5. is # {} /\ IsFiniteSet(is) /\ is \subseteq Nat
    <3>1. DOMAIN ps = 1 .. Len(ps) /\ Len(ps) \in Nat
      BY <2>4 DEF ReviewsGiven
    <3>2. IsFiniteSet(1 .. Len(ps))
      BY <3>1, FS_Interval
    <3>3. is \subseteq 1 .. Len(ps)
      BY <3>1
    <3>4. IsFiniteSet(is)
      <4> HIDE DEF is, ps
      <4> QED  BY <3>2, <3>3, FS_Subset
    <3>5. is # {}
      BY <2>3 DEF Asks, ToSet
    <3> QED  BY <3>1, <3>4, <3>5
  <2>6. Min(is) \in is
    <3> HIDE DEF is
    <3> QED  BY <2>5, MinInSet
  <2>7. ps[Min(is)].path = x.path /\ ps[Min(is)] \in ToSet(ps)
    BY <2>6 DEF ToSet
  <2>8. ps[Min(is)].type = x.type
    BY <1>1, <2>4, <2>7 DEF Uniform
  <2>9. FirstType(s, x.path) = ps[Min(is)].type
    BY <1>3 DEF FirstType
  <2> QED  BY <2>8, <2>9
<1> QED  BY <1>2, <1>3

-----------------------------------------------------------------------------
(* What a review lets pass *)

\* An ingress with a location does not break the configuration.
Loads(g) == g.ours /\ g.canary # "true" /\ DOMAIN g.paths # {} => g.flaw # "nginx"

\* An ingress of this controller has no flaw that a setting forbids.
Permitted(g) == g.ours => g.flaw \notin Checked \cup {"body", "kind", "object"}

\* What the one asks for leads to other locations than what the other does.
Apart(g, h) == \A x \in ToSet(g.paths), y \in ToSet(h.paths) :
                 normalizePrefixPath(x) # normalizePrefixPath(y)

Competes(g) == g.ours /\ g.canary = "missing"

\* No ingress of the list but its older self competes with this one.
Clear(g, s) ==
  Competes(g) =>
    \A k \in DOMAIN s : Competes(s[k]) /\ s[k].name # g.name => Apart(g, s[k])

\* No two ingresses compete.
AllApart == \A g, h \in ToSet(api) : g # h /\ Competes(g) /\ Competes(h) => Apart(g, h)

Allowed(c) == review[c] # None /\ review[c].answer = "allowed"

Serialised == Annotated /\ Simple /\ Alone /\ (Uniform \/ FullTest)

\* What was allowed stays harmless however old the list was that the review read;
\* that it competes with nobody needs the list to stay as it was.
ReviewInv ==
  /\ TypeOK
  /\ \A k \in DOMAIN api : Permitted(api[k]) /\ (Annotated => Loads(api[k]))
  /\ \A c \in Clients : Allowed(c) => /\ Permitted(review[c].ing)
                                      /\ Annotated => Loads(review[c].ing)
  /\ Serialised => /\ store = api
                   /\ AllApart
                   /\ \A c \in Clients : Allowed(c) => Clear(review[c].ing, api)

\* The list that CheckIngress tries: the store without the older self of the
\* ingress, and the ingress as the youngest.
LEMMA TriedList ==
  ASSUME NEW s, IsList(s), NEW g \in Ingresses
  PROVE  \E now \in Nat : LET ings == WithNew(FilterIngresses(s, g), g) IN
           /\ IsList(ings) /\ now \in DOMAIN ings /\ ings[now] = g
           /\ \A k \in DOMAIN ings : k # now => /\ k \in DOMAIN s /\ ings[k] = s[k] /\ k < now
                                                /\ s[k].name # g.name
           /\ \A k \in DOMAIN s : s[k].name # g.name => k \in DOMAIN ings /\ k # now
<1> DEFINE ks == {k \in DOMAIN s : s[k].name # g.name}
<1>1. /\ IsList(FilterIngresses(s, g)) /\ DOMAIN FilterIngresses(s, g) = ks
      /\ \A k \in ks : FilterIngresses(s, g)[k] = s[k]
  BY OnlyList DEF FilterIngresses
<1>2. PICK f : f = FilterIngresses(s, g)
  OBVIOUS
<1>3. PICK now \in Nat :
        /\ \A k \in DOMAIN f : k < now
        /\ DOMAIN WithNew(f, g) = DOMAIN f \cup {now}
        /\ WithNew(f, g)[now] = g
        /\ \A k \in DOMAIN f : WithNew(f, g)[k] = f[k]
        /\ IsList(WithNew(f, g))
  <2>1. IsList(f)
    BY <1>1, <1>2
  <2> QED  BY <2>1, WithNewList
<1>4. now \notin ks
  <2>1. ks \subseteq Nat
    BY DEF IsList
  <2> QED  BY <1>1, <1>2, <1>3, <2>1
<1> QED  BY <1>1, <1>2, <1>3, <1>4

\* An ingress whose first path is taken, and that gets no location at all, is refused.
LEMMA RefusedIfTaken ==
  ASSUME ReviewsGiven, Annotated, NEW g \in Ingresses, NEW ings, IsList(ings), NEW now,
         \A k \in DOMAIN ings : k # now => ings[k].name # g.name,
         \A l \in Locations(ings) : l.by # now,
         g.canary = "missing", DOMAIN g.paths # {}, Asks(ings, g.paths[1]) # {}
  PROVE  checkOverlap(g, ings)
<1> DEFINE p == g.paths[1].path
           existing == ingressForHostPath(ings, p)
           decided == {k \in DOMAIN g.paths : CheckPath(g, ings, g.paths[k].path) # "continue"}
<1>1. existing # {}
  BY FoundAtPath
<1>2. ASSUME NEW o \in existing
      PROVE  o.name # g.name /\ o.canary = "missing"
  <2>1. PICK l \in Locations(ings) : o = ings[l.by]
    BY DEF ingressForHostPath
  <2>2. l.by \in Located(ings, l.of)
    BY LocationMembers
  <2>3. l.by \in Asks(ings, l.of)
    BY <2>2, LocatedAsks
  <2>4. l.by \in DOMAIN ings /\ l.by # now /\ ings[l.by].canary # "true"
    BY <2>3 DEF Asks
  <2>5. ings[l.by] \in Ingresses
    BY <2>4 DEF IsList, ToSet
  <2> QED  BY <2>1, <2>4, <2>5 DEF Annotated
<1>3. CheckPath(g, ings, p) = "refuse"
  <2> HIDE DEF existing, p
  <2>1. existing = ingressForHostPath(ings, p)
    BY DEF existing
  <2> QED  BY <1>1, <1>2, <2>1 DEF CheckPath
<1>4. 1 \in DOMAIN g.paths /\ DOMAIN g.paths = 1 .. Len(g.paths) /\ Len(g.paths) \in Nat
  BY DEF ReviewsGiven
<1>5. 1 \in decided /\ decided \subseteq 1 .. Len(g.paths)
  BY <1>3, <1>4
<1>6. Min(decided) = 1
  <2> HIDE DEF decided
  <2>1. IsFiniteSet(1 .. Len(g.paths))
    BY <1>4, FS_Interval
  <2>2. IsFiniteSet(decided) /\ decided \subseteq Nat /\ decided # {}
    <3>1. IsFiniteSet(decided)
      BY <1>5, <2>1, FS_Subset
    <3> QED  BY <1>4, <1>5, <3>1
  <2>3. Min(decided) \in decided /\ \A y \in decided : Min(decided) =< y
    BY <2>2, MinInSet
  <2>4. Min(decided) \in 1 .. Len(g.paths) /\ Min(decided) =< 1
    BY <1>5, <2>3
  <2> QED  BY <1>4, <2>4
<1> QED  BY <1>3, <1>5, <1>6 DEF checkOverlap

\* The webhook lets no ingress pass that NGINX would not load or a setting forbids: its
\* first path is its own, or somebody has it and the verdict is no unless the ingress has a
\* location elsewhere.
LEMMA AcceptedIsHarmless ==
  ASSUME ReviewsGiven, NEW g \in Ingresses, NEW s, IsList(s),
         HandleAdmission(g, s) = "allowed"
  PROVE  Permitted(g) /\ (Annotated => Loads(g))
<1>1. ~Malformed(g) /\ CheckIngress(g, s)
  BY DEF HandleAdmission
<1>2. CASE g.flaw = "deleting"
  <2>1. "deleting" \notin Checked
    BY DEF ReviewsGiven
  <2> QED  BY <1>2, <2>1 DEF Permitted, Loads
<1>3. CASE g.flaw # "deleting" /\ ~g.ours
  BY <1>3 DEF Permitted, Loads
<1>4. CASE g.flaw # "deleting" /\ g.ours
  <2> DEFINE ings  == WithNew(FilterIngresses(s, g), g)
             tried == IF FullTest THEN ings ELSE WithNew(<<>>, g)
  <2>1. DeepInspect(g) /\ ~BadSettings(g) /\ ~checkOverlap(g, ings) /\ testTemplate(tried)
    BY <1>1, <1>4 DEF CheckIngress
  <2>2. Permitted(g)
    BY <1>1, <2>1 DEF Permitted, Malformed, DeepInspect, BadSettings, ReviewsGiven, Flaws
  <2>3. ASSUME Annotated, g.canary # "true", DOMAIN g.paths # {}, g.flaw = "nginx"
        PROVE  FALSE
    <3>0. g.canary = "missing" /\ 1 \in DOMAIN g.paths
      BY <2>3 DEF Annotated, ReviewsGiven
    <3>1. PICK now \in Nat :
            /\ IsList(ings) /\ now \in DOMAIN ings /\ ings[now] = g
            /\ \A k \in DOMAIN ings : k # now => ings[k].name # g.name
      <4>1. PICK now \in Nat :
              /\ IsList(ings) /\ now \in DOMAIN ings /\ ings[now] = g
              /\ \A k \in DOMAIN ings : k # now => /\ k \in DOMAIN s /\ ings[k] = s[k] /\ k < now
                                                   /\ s[k].name # g.name
              /\ \A k \in DOMAIN s : s[k].name # g.name => k \in DOMAIN ings /\ k # now
        BY TriedList
      <4> QED  BY <4>1
    <3>2. CASE FullTest
      <4>1. testTemplate(ings)
        BY <2>1, <3>2
      <4> HIDE DEF ings
      <4>2. \A l \in Locations(ings) : l.by # now
        BY <2>3, <3>1, <4>1 DEF testTemplate
      <4>3. now \in Asks(ings, g.paths[1])
        BY <1>4, <2>3, <3>0, <3>1 DEF Asks, ToSet
      <4>4. checkOverlap(g, ings)
        <5>1. Asks(ings, g.paths[1]) # {} /\ Annotated /\ DOMAIN g.paths # {}
          BY <2>3, <4>3
        <5> QED  BY <3>0, <3>1, <4>2, <5>1, RefusedIfTaken
      <4> QED  BY <2>1, <4>4
    <3>3. CASE ~FullTest
      <4> DEFINE one == WithNew(<<>>, g)
      <4>1. testTemplate(one)
        BY <2>1, <3>3
      <4>2. PICK n \in Nat : DOMAIN one = {n} /\ one[n] = g /\ IsList(one)
        <5>1. PICK e : e = <<>>
          OBVIOUS
        <5>2. DOMAIN e = {}
          BY <5>1
        <5>3. IsFiniteSet({})
          BY FS_EmptySet
        <5>4. IsList(e)
          BY <5>2, <5>3 DEF IsList, ToSet
        <5>5. PICK n \in Nat : /\ DOMAIN WithNew(e, g) = DOMAIN e \cup {n}
                               /\ WithNew(e, g)[n] = g /\ IsList(WithNew(e, g))
          BY <5>4, WithNewList
        <5> QED  BY <5>1, <5>2, <5>5
      <4> HIDE DEF one
      <4> DEFINE x == g.paths[1]
                 l == [at |-> normalizePrefixPath(x), by |-> n, of |-> x]
      <4>3. n \in Asks(one, x)
        BY <1>4, <2>3, <3>0, <4>2 DEF Asks, ToSet
      <4>4. Asks(one, x) = {n} /\ x \in AllPaths(one)
        BY <4>2, <4>3, Askers
      <4>5. Located(one, x) = {n}
        <5> HIDE DEF x
        <5> QED  BY <4>2, <4>4, LocatedAsks
      <4>6. l \in Locations(one)
        BY <4>4, <4>5 DEF Locations, updateServerLocations
      <4>7. one[l.by].flaw # "nginx"
        BY <4>1, <4>6 DEF testTemplate
      <4> QED  BY <2>3, <4>2, <4>7
    <3> QED  BY <3>2, <3>3
  <2> QED  BY <2>2, <2>3 DEF Loads
<1> QED  BY <1>2, <1>3, <1>4

\* Of simple ingresses, the webhook lets none pass that competes with another: either it
\* would get no location, and the path is taken, or the two would get the same one.
LEMMA AcceptedIsClear ==
  ASSUME ReviewsGiven, Annotated, Simple, Uniform \/ FullTest,
         NEW g \in Ingresses, NEW s, IsList(s), HandleAdmission(g, s) = "allowed"
  PROVE  Clear(g, s)
<1> SUFFICES ASSUME Competes(g), NEW k \in DOMAIN s, Competes(s[k]), s[k].name # g.name,
                    NEW x \in ToSet(g.paths), NEW y \in ToSet(s[k].paths),
                    normalizePrefixPath(x) = normalizePrefixPath(y)
             PROVE  FALSE
  BY DEF Clear, Apart
<1> DEFINE ings == WithNew(FilterIngresses(s, g), g)
<1>1. ~checkOverlap(g, ings) /\ (FullTest => testTemplate(ings))
  <2>1. CheckIngress(g, s) /\ g.flaw # "deleting" /\ g.ours
    BY DEF HandleAdmission, Simple, Competes
  <2> QED  BY <2>1 DEF CheckIngress
<1>2. PICK now \in Nat :
        /\ IsList(ings) /\ now \in DOMAIN ings /\ ings[now] = g
        /\ \A n \in DOMAIN ings : n # now => /\ n \in DOMAIN s /\ ings[n] = s[n] /\ n < now
                                             /\ s[n].name # g.name
        /\ \A n \in DOMAIN s : s[n].name # g.name => n \in DOMAIN ings /\ n # now
  BY TriedList
<1> HIDE DEF ings
<1>3. DOMAIN g.paths = {1} /\ x = g.paths[1]
  <2>1. DOMAIN g.paths = 1 .. 1
    BY DEF ReviewsGiven, Simple
  <2>2. DOMAIN g.paths = {1}
    BY <2>1
  <2> QED  BY <2>2 DEF ToSet
<1>4. k \in DOMAIN ings /\ k # now /\ ings[k] = s[k] /\ k < now
  BY <1>2
<1>5. now \in Asks(ings, x) /\ k \in Asks(ings, y)
  BY <1>2, <1>4 DEF Asks, Competes
<1>6. x \in AllPaths(ings) /\ y \in AllPaths(ings)
  BY <1>5, <1>2, Askers
\* With the type of the first location, the older one has it.
<1>7. CASE x = y /\ x.type = FirstType(ings, x.path)
  <2>1. Asks(ings, x) # {} /\ Asks(ings, x) \subseteq Nat /\ IsFiniteSet(Asks(ings, x))
    BY <1>2, <1>5, Askers
  <2>2. \A n \in Asks(ings, x) : Min(Asks(ings, x)) =< n
    BY <2>1, MinInSet
  <2>3. Min(Asks(ings, x)) # now
    <3>1. Min(Asks(ings, x)) =< k /\ k \in Nat
      BY <1>5, <1>7, <2>1, <2>2
    <3> QED  BY <1>4, <3>1
  <2>4. Located(ings, x) = {Min(Asks(ings, x))}
    BY <1>7, <2>1 DEF Located
  <2>5. ASSUME NEW l \in Locations(ings), l.by = now
        PROVE  FALSE
    <3>1. l.by \in Located(ings, l.of)
      BY LocationMembers
    <3>2. now \in Asks(ings, l.of)
      BY <1>2, <2>5, <3>1, LocatedAsks
    <3>3. l.of = x
      BY <1>2, <1>3, <3>2 DEF Asks, ToSet
    <3> QED  BY <2>3, <2>4, <2>5, <3>1, <3>3
  <2>6. checkOverlap(g, ings)
    BY <1>2, <1>3, <1>5, <2>5, RefusedIfTaken DEF Competes
  <2> QED  BY <1>1, <2>6
\* With another type or another path, both have it.
<1>8. CASE /\ FullTest
           /\ ~(x = y /\ x.type = FirstType(ings, x.path))
  <2>1. PICK i \in Located(ings, x), j \in Located(ings, y) : x # y \/ i # j
    <3>1. CASE x # y
      <4>1. Located(ings, x) # {} /\ Located(ings, y) # {}
        BY <1>2, <1>5, LocatedAsks
      <4> QED  BY <3>1, <4>1
    <3>2. CASE x = y
      <4>1. Located(ings, x) = Asks(ings, x)
        BY <1>8, <3>2 DEF Located
      <4> QED  BY <1>4, <1>5, <3>2, <4>1
    <3> QED  BY <3>1, <3>2
  <2> DEFINE at == normalizePrefixPath(x)
             l == [at |-> at, by |-> i, of |-> x]
             m == [at |-> at, by |-> j, of |-> y]
  <2>2. at \in updateServerLocations(ings, x) /\ at \in updateServerLocations(ings, y)
    BY DEF updateServerLocations
  <2>3. l \in Locations(ings) /\ m \in Locations(ings)
    <3> HIDE DEF at
    <3> QED  BY <1>6, <2>1, <2>2 DEF Locations
  <2>4. l.at = m.at /\ l # m
    <3> HIDE DEF at
    <3>1. l.by = i /\ m.by = j /\ l.of = x /\ m.of = y
      OBVIOUS
    <3> QED  BY <2>1, <3>1
  <2> HIDE DEF l, m
  <2> QED  BY <1>1, <1>8, <2>3, <2>4 DEF testTemplate
<1>9. CASE Uniform
  <2>1. g \in Ingresses /\ s[k] \in Ingresses
    BY DEF IsList, ToSet
  <2>2. x = y
    BY <1>9, <2>1 DEF Uniform
  <2>3. x.type = FirstType(ings, x.path)
    BY <1>2, <1>5, <1>9, UniformFirst
  <2> QED  BY <1>7, <2>2, <2>3
<1> QED  BY <1>7, <1>8, <1>9

\* What the API server has after it stored an ingress.
LEMMA StoredList ==
  ASSUME NEW s, IsList(s), \A j, k \in DOMAIN s : s[j].name = s[k].name => j = k,
         NEW g \in Ingresses
  PROVE  LET t == Store(s, g) IN
         /\ IsList(t)
         /\ \A j, k \in DOMAIN t : t[j].name = t[k].name => j = k
         /\ \A k \in DOMAIN t : t[k] = g \/ (k \in DOMAIN s /\ t[k] = s[k] /\ s[k].name # g.name)
<1>1. CASE \E k \in DOMAIN s : s[k].name = g.name
  <2>1. Store(s, g) = [k \in DOMAIN s |-> IF s[k].name = g.name THEN g ELSE s[k]]
    BY <1>1 DEF Store
  <2>2. \A k \in DOMAIN s : s[k] \in Ingresses
    BY DEF IsList, ToSet
  <2>3. DOMAIN Store(s, g) = DOMAIN s /\ \A k \in DOMAIN s : Store(s, g)[k] \in Ingresses
    BY <2>1, <2>2
  <2>4. IsList(Store(s, g))
    BY <2>3 DEF IsList, ToSet
  <2> QED  BY <2>1, <2>3, <2>4
<1>2. CASE ~\E k \in DOMAIN s : s[k].name = g.name
  <2>1. Store(s, g) = WithNew(s, g)
    BY <1>2 DEF Store
  <2>2. PICK now \in Nat : /\ \A k \in DOMAIN s : k < now
                           /\ DOMAIN WithNew(s, g) = DOMAIN s \cup {now}
                           /\ WithNew(s, g)[now] = g
                           /\ \A k \in DOMAIN s : WithNew(s, g)[k] = s[k]
                           /\ IsList(WithNew(s, g))
    BY WithNewList
  <2> QED  BY <1>2, <2>1, <2>2
<1> QED  BY <1>1, <1>2
LEMMA ReviewInit ==
  ASSUME ReviewsGiven, Init
  PROVE  ReviewInv
<1>1. DOMAIN <<>> = {}
  OBVIOUS
<1>2. IsList(<<>>)
  <2>1. IsFiniteSet({})
    BY FS_EmptySet
  <2> QED  BY <1>1, <2>1 DEF IsList, ToSet
<1>3. TypeOK
  BY <1>1, <1>2 DEF Init, TypeOK, ReviewsGiven
<1>4. DOMAIN api = {} /\ store = api /\ \A c \in Clients : ~Allowed(c)
  BY <1>1 DEF Init, Allowed
<1>5. AllApart
  BY <1>4 DEF AllApart, ToSet
<1> QED  BY <1>3, <1>4, <1>5 DEF ReviewInv

Review == [ing : Ingresses, answer : {None, "allowed", "refused"}]

\* The setup of a behaviour does not change.
SameReviews ==
  /\ UNCHANGED <<setup, Clients, Ingresses, FullTest, Lag, MaxWrites, Review>>
  /\ UNCHANGED <<Annotated, Simple, Uniform, Alone, Serialised>>
  /\ \A s : IsList(s)' <=> IsList(s)

LEMMA ReviewSetupStays == UNCHANGED setup => SameReviews
BY DEF SameReviews, Clients, Ingresses, FullTest, Lag, MaxWrites, Review, Annotated, Simple,
   Uniform, Alone, Serialised, IsList

\* A review that begins is not allowed yet.
LEMMA SubmitKeeps ==
  ASSUME SameReviews, ReviewsGiven, ReviewInv, NEW c \in Clients, NEW g \in Ingresses, Submit(c, g)
  PROVE  ReviewInv'
<1> USE DEF SameReviews
<1> DEFINE new == [ing |-> g, answer |-> None]
<1>1. /\ UNCHANGED <<api, store>> /\ review' = [review EXCEPT ![c] = new]
      /\ writes' = writes + 1 /\ writes < MaxWrites
  BY DEF Submit
<1>2. review \in [Clients -> {None} \cup Review] /\ new \in Review
  BY DEF ReviewInv, TypeOK, Review
<1>3. new.answer # "allowed"
  BY DEF ReviewsGiven
<1> HIDE DEF new
<1>4. TypeOK'
  BY <1>1, <1>2 DEF ReviewInv, TypeOK, ReviewsGiven, Review, IsList
<1>5. \A d \in Clients : Allowed(d)' => Allowed(d) /\ review'[d] = review[d]
  BY <1>1, <1>2, <1>3 DEF Allowed
<1>6. AllApart' <=> AllApart
  BY <1>1 DEF AllApart
<1> QED  BY <1>1, <1>4, <1>5, <1>6 DEF ReviewInv, Permitted, Loads, Clear

\* The answer is right for the list it was computed from.
LEMMA ServeKeeps ==
  ASSUME SameReviews, ReviewsGiven, ReviewInv, NEW c \in Clients, ServeHTTP(c)
  PROVE  ReviewInv'
<1> USE DEF SameReviews
<1> DEFINE ans == HandleAdmission(review[c].ing, store)
           new == [review[c] EXCEPT !.answer = ans]
<1>1. UNCHANGED <<api, store, writes>> /\ review[c] # None
  BY DEF ServeHTTP
<1>2. review \in [Clients -> {None} \cup Review]
  BY DEF ReviewInv, TypeOK, Review
<1>3. review[c] \in Review /\ review[c].ing \in Ingresses
  BY <1>1, <1>2 DEF Review
<1>4. review' = [review EXCEPT ![c] = new]
  BY <1>2 DEF ServeHTTP
<1>5. ans \in {"allowed", "refused"}
  BY DEF HandleAdmission
<1>6. new \in Review /\ new.ing = review[c].ing /\ new.answer = ans /\ new # None
  <2> HIDE DEF ans
  <2>1. new \in Review /\ new.ing = review[c].ing /\ new.answer = ans
    BY <1>3, <1>5 DEF Review
  <2> QED  BY <2>1 DEF Review, ReviewsGiven
<1>7. ans = "allowed" => /\ Permitted(review[c].ing)
                         /\ Annotated => Loads(review[c].ing)
                         /\ Annotated /\ Simple /\ (Uniform \/ FullTest) => Clear(review[c].ing, store)
  <2>1. IsList(store)
    BY DEF ReviewInv, TypeOK
  <2> QED  BY <1>3, <2>1, AcceptedIsHarmless, AcceptedIsClear
<1> HIDE DEF new, ans
<1>8. /\ review' \in [Clients -> {None} \cup Review] /\ review'[c] = new
      /\ \A d \in Clients : d # c => review'[d] = review[d]
  BY <1>2, <1>4, <1>6
<1>9. TypeOK'
  BY <1>1, <1>8 DEF ReviewInv, TypeOK, Review, IsList
<1>10. AllApart' <=> AllApart
  BY <1>1 DEF AllApart
<1>11. ASSUME NEW d \in Clients, Allowed(d)'
       PROVE  /\ Permitted(review'[d].ing)
              /\ Annotated => Loads(review'[d].ing)
              /\ Serialised => Clear(review'[d].ing, api)
  <2>1. CASE d = c
    BY <1>6, <1>7, <1>8, <1>11, <2>1 DEF Allowed, Serialised, ReviewInv
  <2>2. CASE d # c
    <3>1. Allowed(d) /\ review'[d] = review[d]
      BY <1>8, <1>11, <2>2 DEF Allowed
    <3> QED  BY <3>1 DEF ReviewInv
  <2> QED  BY <2>1, <2>2
<1> QED  BY <1>1, <1>9, <1>10, <1>11 DEF ReviewInv

\* What is stored was allowed; the others stay.
LEMMA CommitKeeps ==
  ASSUME SameReviews, ReviewsGiven, ReviewInv, NEW c \in Clients, Commit(c)
  PROVE  ReviewInv'
<1> USE DEF SameReviews
<1>1. /\ review[c] # None /\ review' = [review EXCEPT ![c] = None] /\ writes' = writes
      /\ store' = IF Lag THEN store ELSE api'
  BY DEF Commit
<1>2. review \in [Clients -> {None} \cup Review]
  BY DEF ReviewInv, TypeOK, Review
<1>3. review[c].ing \in Ingresses
  BY <1>1, <1>2 DEF Review
<1>4. /\ review' \in [Clients -> {None} \cup Review]
      /\ \A d \in Clients : Allowed(d)' => d # c /\ Allowed(d) /\ review'[d] = review[d]
  BY <1>1, <1>2 DEF Allowed
<1>5. PICK g \in Ingresses : g = review[c].ing
  BY <1>3
<1>6. CASE ~Allowed(c)
  <2>1. api' = api
    BY <1>1, <1>6 DEF Commit, Allowed
  <2>2. TypeOK'
    BY <1>1, <1>4, <2>1 DEF ReviewInv, TypeOK, Review, IsList
  <2>3. AllApart' <=> AllApart
    BY <2>1 DEF AllApart
  <2> QED  BY <1>1, <1>4, <2>1, <2>2, <2>3 DEF ReviewInv, Serialised, Alone
<1>7. CASE Allowed(c)
  <2>1. api' = Store(api, g)
    BY <1>5, <1>7 DEF Commit, Allowed
  <2>2. /\ IsList(api')
        /\ \A j, k \in DOMAIN api' : api'[j].name = api'[k].name => j = k
        /\ \A k \in DOMAIN api' :
             api'[k] = g \/ (k \in DOMAIN api /\ api'[k] = api[k] /\ api[k].name # g.name)
    <3>1. IsList(api) /\ \A j, k \in DOMAIN api : api[j].name = api[k].name => j = k
      BY DEF ReviewInv, TypeOK
    <3>2. PICK s : s = api
      OBVIOUS
    <3>3. IsList(s) /\ \A j, k \in DOMAIN s : s[j].name = s[k].name => j = k
      BY <3>1, <3>2
    <3> QED  BY <2>1, <3>2, <3>3, StoredList
  <2>3. IsList(store')
    BY <1>1, <2>2 DEF ReviewInv, TypeOK
  <2>4. TypeOK'
    BY <1>1, <1>4, <2>2, <2>3 DEF ReviewInv, TypeOK, Review, IsList
  <2>5. Permitted(g) /\ (Annotated => Loads(g)) /\ (Serialised => Clear(g, api))
    BY <1>5, <1>7 DEF ReviewInv
  <2>6. \A k \in DOMAIN api' : Permitted(api'[k]) /\ (Annotated => Loads(api'[k]))
    BY <2>2, <2>5 DEF ReviewInv
  <2>7. ASSUME Serialised
        PROVE  /\ store' = api' /\ AllApart'
               /\ \A d \in Clients : ~Allowed(d)'
    <3>1. store' = api'
      BY <1>1, <2>7 DEF Serialised, Alone
    <3>2. \A d \in Clients : ~Allowed(d)'
      BY <1>4, <2>7 DEF Serialised, Alone
    <3>3. ASSUME NEW j \in DOMAIN api', NEW k \in DOMAIN api', api'[j] # api'[k],
                 Competes(api'[j]), Competes(api'[k])
          PROVE  Apart(api'[j], api'[k])
      <4>1. CASE api'[j] = g
        <5>1. k \in DOMAIN api /\ api'[k] = api[k] /\ api[k].name # g.name
          BY <2>2, <3>3, <4>1
        <5> QED  BY <2>5, <2>7, <3>3, <4>1, <5>1 DEF Clear
      <4>2. CASE api'[k] = g
        <5>1. j \in DOMAIN api /\ api'[j] = api[j] /\ api[j].name # g.name
          BY <2>2, <3>3, <4>2
        <5>2. Apart(api'[k], api'[j])
          BY <2>5, <2>7, <3>3, <4>2, <5>1 DEF Clear
        <5> QED  BY <5>2 DEF Apart
      <4>3. CASE api'[j] # g /\ api'[k] # g
        <5>1. j \in DOMAIN api /\ api'[j] = api[j] /\ k \in DOMAIN api /\ api'[k] = api[k]
          BY <2>2, <4>3
        <5>2. api[j] \in ToSet(api) /\ api[k] \in ToSet(api) /\ AllApart
          BY <2>7, <5>1 DEF ToSet, ReviewInv
        <5> QED  BY <3>3, <5>1, <5>2 DEF AllApart
      <4> QED  BY <4>1, <4>2, <4>3
    <3>4. AllApart'
      <4> SUFFICES ASSUME NEW x \in ToSet(api'), NEW y \in ToSet(api'), x # y, Competes(x), Competes(y)
                   PROVE  Apart(x, y)
        BY DEF AllApart
      <4>1. PICK j \in DOMAIN api' : x = api'[j]
        BY DEF ToSet
      <4>2. PICK k \in DOMAIN api' : y = api'[k]
        BY DEF ToSet
      <4> QED  BY <3>3, <4>1, <4>2
    <3> QED  BY <3>1, <3>2, <3>4
  <2> QED  BY <1>4, <2>4, <2>6, <2>7 DEF ReviewInv
<1> QED  BY <1>6, <1>7
\* A deletion makes nobody compete and breaks nothing: what is left had to be
\* harmless by itself.
LEMMA DeleteKeeps ==
  ASSUME SameReviews, ReviewsGiven, ReviewInv, NEW n \in DOMAIN api, Delete(n)
  PROVE  ReviewInv'
<1> USE DEF SameReviews
<1>1. /\ api' = Only(api, DOMAIN api \ {n}) /\ review' = review
      /\ writes < MaxWrites /\ writes' = writes + 1
      /\ store' = IF Lag THEN store ELSE api'
  BY DEF Delete
<1>2. IsList(api') /\ \A k \in DOMAIN api' : k \in DOMAIN api /\ api'[k] = api[k]
  <2>1. IsList(api)
    BY DEF ReviewInv, TypeOK
  <2> QED  BY <1>1, <2>1, OnlyList
<1>3. IsList(store')
  BY <1>1, <1>2 DEF ReviewInv, TypeOK
<1>4. TypeOK'
  <2>1. writes' \in 0 .. MaxWrites
    BY <1>1 DEF ReviewInv, TypeOK, ReviewsGiven
  <2>2. \A j, k \in DOMAIN api' : api'[j].name = api'[k].name => j = k
    BY <1>2 DEF ReviewInv, TypeOK
  <2> QED  BY <1>1, <1>2, <1>3, <2>1, <2>2 DEF ReviewInv, TypeOK, IsList
<1>5. ToSet(api') \subseteq ToSet(api)
  BY <1>2 DEF ToSet
<1>6. AllApart => AllApart'
  BY <1>5 DEF AllApart
<1>7. \A g : Clear(g, api) => Clear(g, api')
  BY <1>2 DEF Clear
<1>8. \A c \in Clients : Allowed(c)' <=> Allowed(c)
  BY <1>1 DEF Allowed
<1>9. Serialised => store' = api'
  BY <1>1 DEF Serialised, Alone
<1> QED  BY <1>1, <1>2, <1>4, <1>6, <1>7, <1>8, <1>9 DEF ReviewInv

\* ReviewInv is inductive.
LEMMA ReviewStep ==
  ASSUME ReviewsGiven, ReviewInv, [Next]_<<vars, setup>>
  PROVE  ReviewInv'
<1>0. SameReviews
  BY ReviewSetupStays DEF Next
<1> USE <1>0 DEF SameReviews
<1>1. CASE UNCHANGED vars
  <2>1. UNCHANGED <<api, store, review, writes>>
    BY <1>1 DEF vars
  <2>2. TypeOK' /\ (AllApart' <=> AllApart)
    BY <2>1 DEF ReviewInv, TypeOK, IsList, AllApart
  <2>3. \A c \in Clients : Allowed(c)' <=> Allowed(c)
    BY <2>1 DEF Allowed
  <2> QED  BY <2>1, <2>2, <2>3 DEF ReviewInv
<1>2. ASSUME NEW c \in Clients, NEW g \in Ingresses, Submit(c, g)
      PROVE  ReviewInv'
  BY <1>2, SubmitKeeps
<1>3. ASSUME NEW c \in Clients, ServeHTTP(c)
      PROVE  ReviewInv'
  BY <1>3, ServeKeeps
<1>4. ASSUME NEW c \in Clients, Commit(c)
      PROVE  ReviewInv'
  BY <1>4, CommitKeeps
<1>5. ASSUME NEW n \in DOMAIN api, Delete(n)
      PROVE  ReviewInv'
  BY <1>5, DeleteKeeps
<1>6. ASSUME Informed
      PROVE  ReviewInv'
  <2>1. Lag /\ store' = api /\ UNCHANGED <<api, review, writes>>
    BY <1>6 DEF Informed
  <2>2. ~Serialised
    BY <2>1 DEF Serialised, Alone
  <2>3. TypeOK'
    BY <2>1 DEF ReviewInv, TypeOK, IsList
  <2> QED  BY <2>1, <2>2, <2>3 DEF ReviewInv, Allowed
<1> QED  BY <1>1, <1>2, <1>3, <1>4, <1>5, <1>6 DEF Next, Step, Quiet

-----------------------------------------------------------------------------
\* NGINX loads a list without ingresses that break it if what is asked for leads to one
\* location each: because nobody mixes the types, or because no two compete.
LEMMA ListLoads ==
  ASSUME ReviewsGiven, ReviewInv, Annotated, Uniform \/ Serialised
  PROVE  ConfigurationLoads
<1>0. PICK s : s = api
  OBVIOUS
<1>1. IsList(s) /\ \A j, k \in DOMAIN s : s[j].name = s[k].name => j = k
  BY <1>0 DEF ReviewInv, TypeOK
<1>2. \A k \in DOMAIN s : Loads(s[k]) /\ s[k] \in Ingresses
  BY <1>0, <1>1 DEF ReviewInv, IsList, ToSet
<1>3. \A x \in AllPaths(s) : \A j \in Located(s, x) :
        /\ j \in Asks(s, x) /\ j \in DOMAIN s /\ s[j].ours /\ s[j].canary = "missing"
        /\ x \in ToSet(s[j].paths)
  BY <1>1, <1>2, LocatedAsks DEF Asks, Annotated
<1>4. ASSUME NEW x \in AllPaths(s), NEW y \in AllPaths(s),
             NEW j \in Located(s, x), NEW k \in Located(s, y),
             normalizePrefixPath(x) = normalizePrefixPath(y)
      PROVE  x = y /\ j = k
  <2>1. /\ j \in DOMAIN s /\ x \in ToSet(s[j].paths) /\ Competes(s[j]) /\ s[j] \in Ingresses
        /\ k \in DOMAIN s /\ y \in ToSet(s[k].paths) /\ Competes(s[k]) /\ s[k] \in Ingresses
    BY <1>2, <1>3 DEF Competes
  <2>2. CASE Uniform
    <3>1. x = y
      BY <1>4, <2>1, <2>2 DEF Uniform
    <3>2. x.type = FirstType(s, x.path)
      BY <1>1, <1>3, <2>2, UniformFirst
    <3> QED  BY <1>1, <3>1, <3>2, LocatedAsks
  <2>3. CASE Serialised
    <3>1. j = k
      <4> SUFFICES ASSUME j # k PROVE FALSE
        OBVIOUS
      <4>1. s[j] # s[k] /\ s[j] \in ToSet(s) /\ s[k] \in ToSet(s)
        BY <1>1, <2>1 DEF ToSet
      <4>2. Apart(s[j], s[k])
        BY <1>0, <2>1, <2>3, <4>1 DEF ReviewInv, AllApart
      <4> QED  BY <1>4, <2>1, <4>2 DEF Apart
    <3>2. x = y
      <4>1. DOMAIN s[j].paths = 1 .. 1
        BY <2>1, <2>3 DEF Serialised, Simple, ReviewsGiven
      <4>2. DOMAIN s[j].paths = {1}
        BY <4>1
      <4> QED  BY <2>1, <3>1, <4>2 DEF ToSet
    <3> QED  BY <3>1, <3>2
  <2> QED  BY <2>2, <2>3
<1>5. \A l, m \in Locations(s) : l.at = m.at => l = m
  BY <1>1, <1>4, AddedApart
<1>6. ASSUME NEW l \in Locations(s)
      PROVE  s[l.by].flaw # "nginx"
  <2>1. l.of \in AllPaths(s) /\ l.by \in Located(s, l.of)
    BY LocationMembers
  <2>2. /\ l.by \in DOMAIN s /\ s[l.by].ours /\ s[l.by].canary = "missing"
        /\ l.of \in ToSet(s[l.by].paths)
    BY <1>3, <2>1
  <2>3. DOMAIN s[l.by].paths # {}
    BY <2>2 DEF ToSet
  <2> QED  BY <1>2, <2>2, <2>3 DEF Loads
<1> QED  BY <1>0, <1>5, <1>6 DEF ConfigurationLoads, testTemplate

\* The ingresses that passed the webhook have no flaw that a setting forbids.  If nobody
\* writes "false" into the canary annotation, and nobody mixes the types of a path, NGINX
\* loads them all together, however old the lists were that the reviews read, however many
\* reviews ran at once and whatever was deleted since.  If they have one path each and are
\* written one at a time with the store up to date, no two ask for the same; types may then
\* be mixed if every review tests all ingresses (CheckIngress, checkOverlap).
THEOREM WhatPassesIsSound == WebhookSpec => []AcceptedIsSound
<1> DEFINE Inv == OfReviews => ReviewInv
<1>1. WebhookInit => Inv
  BY ReviewInit, ReviewsAreGiven, WebhookAssumption DEF WebhookInit, OfJobs, OfReviews
<1>2. Inv /\ [WebhookNext]_allVars => Inv'
  <2> SUFFICES ASSUME Inv, [WebhookNext]_allVars, OfReviews' PROVE ReviewInv'
    OBVIOUS
  <2>1. UNCHANGED setup
    BY DEF WebhookNext, allVars, Next, Certgen!Next
  <2>2. OfReviews /\ ~OfJobs
    BY <2>1, WebhookAssumption DEF OfJobs, OfReviews
  <2>3. [Next]_<<vars, setup>>
    BY <2>2 DEF WebhookNext, allVars, jobs, vars
  <2> QED  BY <2>2, <2>3, ReviewStep, ReviewsAreGiven
<1>3. ReviewsGiven /\ ReviewInv => Sound
  <2> SUFFICES ASSUME ReviewsGiven, ReviewInv PROVE Sound
    OBVIOUS
  <2>1. SettingsHold
    BY DEF ReviewInv, SettingsHold, Permitted, ToSet
  <2>2. Annotated /\ (Uniform \/ (Simple /\ Alone /\ FullTest)) => ConfigurationLoads
    BY ListLoads DEF Serialised
  <2>3. Annotated /\ Simple /\ Alone /\ (Uniform \/ FullTest) => NoOverlap
    <3>1. AllApart => NoOverlap
      BY DEF AllApart, NoOverlap, Apart, Competes
    <3> QED  BY <3>1 DEF ReviewInv, Serialised
  <2> QED  BY <2>1, <2>2, <2>3 DEF Sound
<1>4. Inv => AcceptedIsSound
  BY <1>3, ReviewsAreGiven DEF AcceptedIsSound
<1> QED  BY <1>1, <1>2, <1>4, PTL DEF WebhookSpec
=============================================================================
