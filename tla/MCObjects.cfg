SPECIFICATION Spec
CONSTANTS
    None = None
    s1 = s1
    s2 = s2
    Ings = {"i1"}
    Secs = {s1, s2}
    Certs = {"k1", "k2"}
    InitialSettings = "c1"
    Blocking = {"c2"}
    StoreSetups <- MCStoreSetups
    MaxLag = 1
    AnnotationSetups <- MCAnnotationSetups
    Chosen = {"ingress", "secrets", "settings", "guards", "plain", "auth"}
INVARIANTS StoreFollows  Guarded
PROPERTIES  SyncIsExact
CHECK_DEADLOCK FALSE
