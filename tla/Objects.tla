------------------------------- MODULE Objects -------------------------------
(***************************************************************************)
(* The object store and the annotation parsers side by side.  A behaviour  *)
(* is one setup of one of the two components; the variables of the other   *)
(* one stand still.                                                        *)
(***************************************************************************)
EXTENDS Naturals, Sequences

CONSTANTS
  Chosen,                                  \* the setups that are looked at
  None,
  Ings, Secs, Certs, InitialSettings, Blocking, StoreSetups,       \* Store
  MaxLag, AnnotationSetups                                         \* Annotations

VARIABLES setup,
          cache, queue, withAnn, refs, ssl, clsStore, conf, th, mu, announced,
          started, changes,                                        \* Store
          ing, objs, pia, running, dirty                           \* Annotations

Store == INSTANCE Store WITH Setups <- StoreSetups

Annotations == INSTANCE Annotations WITH Nil <- None, Setups <- AnnotationSetups

\* Every setup has a name of its own.
ASSUME ObjectsAssumption ==
  /\ Store!StoreAssumption
  /\ Annotations!AnnotationAssumption
  /\ DOMAIN StoreSetups \cap DOMAIN AnnotationSetups = {}

-----------------------------------------------------------------------------
storeVars      == <<cache, queue, withAnn, refs, ssl, clsStore, conf, th, mu, announced,
                    started, changes>>
annotationVars == <<ing, objs, pia, running, dirty>>

OfStore       == setup \in DOMAIN StoreSetups
OfAnnotations == setup \in DOMAIN AnnotationSetups

NoStore ==
  /\ cache = None /\ queue = [t \in Store!Threads \cup {"class"} |-> <<>>]
  /\ withAnn = None /\ refs = {} /\ ssl = None /\ clsStore = FALSE /\ conf = None
  /\ th = [t \in Store!Threads |-> Store!Idle] /\ mu = None /\ announced = None
  /\ started = TRUE /\ changes = 0

NoAnnotations == ing = <<>> /\ objs = <<>> /\ pia = <<>> /\ running = <<>> /\ dirty = 0

Init == /\ setup \in Chosen
        /\ \/ OfStore /\ Store!Init /\ NoAnnotations
           \/ OfAnnotations /\ Annotations!Init /\ NoStore

Next == \/ OfStore /\ Store!Next /\ UNCHANGED annotationVars
        \/ OfAnnotations /\ Annotations!Next /\ UNCHANGED storeVars

vars == <<setup, storeVars, annotationVars>>

Spec == Init /\ [][Next]_vars /\ Store!Fairness

-----------------------------------------------------------------------------
(* Properties of the two components, where they apply *)

\* The variables of the store and of the annotations have their types (store.go,
\* annotations.go).
TypeOK == /\ OfStore => Store!TypeOK
          /\ OfAnnotations => Annotations!TypeOK

\* At rest, what changed in what syncIngress reads was followed by an event in updateCh
\* (the handlers of New), if annotations name ConfigMaps as documented; only a default
\* certificate may be gone that no ingress refers to, or a Service that is not an
\* ExternalName one have come or gone, without an event.
Announced == OfStore /\ Store!Documented => Store!Announced

\* A location that asks for protection is served with it or denied (Extract).
Guarded == OfAnnotations => Annotations!Guarded
=============================================================================
