\* Three ids, two of one address; two requests at a time; one restart.
CONSTANTS
    ann1 = ann1
    ann2 = ann2
    ben = ben
    annMail = annMail
    benMail = benMail
    Id = {ann1, ann2, ben}
    Address <- TheAddress
    Request = {c1, c2}
    MaxRestarts = 1
    NONE = NONE
SPECIFICATION Spec
SYMMETRY Symmetric
INVARIANTS
    LockoutsAreRaces
    FoundersExplained
\* Once every id is used up, nothing needs to happen.
CHECK_DEADLOCK FALSE
