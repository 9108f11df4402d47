-------------------------------- MODULE Webhook --------------------------------
(***************************************************************************)
(* The admission webhook (Admission) and the jobs that give it a           *)
(* certificate (Certgen).  A behaviour is one setup of one of the two; the *)
(* variables of the other one stand still.                                 *)
(***************************************************************************)
EXTENDS Admission

CONSTANTS NoKey, JobSetups                                   \* WebhookCertgen

VARIABLES flags, secret, issued, obj, job, faults, round     \* WebhookCertgen

Certgen == INSTANCE WebhookCertgen WITH Setups <- JobSetups

\* Every setup has a name of its own.
ASSUME WebhookAssumption ==
    /\ AdmissionAssumption
    /\ Certgen!JobAssumption
    /\ DOMAIN Setups \cap DOMAIN JobSetups = {}

-----------------------------------------------------------------------------
jobs == <<flags, secret, issued, obj, job, faults, round>>

OfReviews == setup \in DOMAIN Setups
OfJobs    == setup \in DOMAIN JobSetups

NoReviews == api = <<>> /\ store = <<>> /\ review = None /\ writes = 0

NoJobs == /\ flags = None /\ secret = None /\ issued = 0 /\ obj = None
          /\ job = [j \in {} |-> None] /\ faults = 0 /\ round = 0

WebhookInit == \/ OfReviews /\ Init /\ NoJobs
               \/ OfJobs /\ Certgen!Init /\ NoReviews

WebhookNext == \/ OfReviews /\ Next /\ UNCHANGED jobs
               \/ OfJobs /\ Certgen!Next /\ UNCHANGED vars

allVars == <<setup, vars, jobs>>

WebhookSpec == WebhookInit /\ [][WebhookNext]_allVars /\ Certgen!Fairness

-----------------------------------------------------------------------------
(* Properties of the two components, where they apply *)

\* The variables of the reviews and of the jobs have their types (CheckIngress, certgen).
WebhookTypeOK == /\ OfReviews => TypeOK
                 /\ OfJobs => Certgen!TypeOK

\* What the webhook lets pass is sound: the stored ingresses load, have no forbidden flaw,
\* and, of reviews one after the other, do not overlap (CheckIngress, checkOverlap).
AcceptedIsSound == OfReviews => Sound

\* When all jobs are done, what they patched trusts the CA in the secret and has the
\* policy of the command line, whichever pods ran together or died (pkg/k8s).
JobsAgree == OfJobs => Certgen!JobsAgree
=============================================================================
