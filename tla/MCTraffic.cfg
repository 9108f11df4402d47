SPECIFICATION Spec
CONSTANTS
    None = None
    Absent = Absent
    n1 = n1
    n2 = n2
    four = four
    six = six
    ext1 = ext1
    ext2 = ext2
    Chosen = {"force", "names", "batches", "follow"}
INVARIANTS MetricsAreSound
PROPERTIES PickedUp MetricsFollow
CHECK_DEADLOCK FALSE
