SPECIFICATION Spec
CONSTANTS
    None = None
    s1 = s1
    s2 = s2
    Ings = {"i1"}
    Secs = {s1, s2}
    Certs = {"k1", "k2"}
    InitialSettings = "c1"
    Blocking = {"c2"}
    StoreSetups <- MCStoreSetups
    MaxLag = 1
    AnnotationSetups <- MCAnnotationSetups
    Chosen = {"race"}
INVARIANT DeletedIsGone
CHECK_DEADLOCK FALSE
