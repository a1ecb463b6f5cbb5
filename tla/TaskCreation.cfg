\* Three callers race for the key, retry and crash; one row and the user whose
\* turn it is may be deleted.
CONSTANTS
    Caller = {c1, c2, c3}
    TaskId = {t1, t2, t3, t4}
    User = {u1}
    MaxDeletes = 1
    MaxCrashes = 1
    NONE = NONE
SPECIFICATION Spec
INVARIANTS
    DuplicatesAreLate
    NotifiedOnce
    ErrorsAreExplained
PROPERTIES
    CreatedTasksAreNotified
