\* Two reviewers, one pool, one handle; two creations at a time, of which there are
\* five that take a turn; one change of the directory or the roster; one restart.
SPECIFICATION Spec
SYMMETRY Symmetric
CONSTANTS
    pool = pool
    handle = handle
    c1 = c1
    c2 = c2
    NONE = NONE
    Users = 2
    Filter = {pool}
    Match <- MCMatch
    Handle = {handle}
    Ask <- MCAsk
    Creation <- Slots
    MaxPicks = 5
    MaxChanges = 1
    MaxRestarts = 1
INVARIANTS
    TurnsComeWithTasks
    WaitingIsBounded
    RecipientIsAssignee
\* Once the bounds are used up, nothing needs to happen.
CHECK_DEADLOCK FALSE
