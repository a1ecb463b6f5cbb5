\* One task, three overlapping requests, a notifier whose route fails, a crash.
\* Submissions over HTTP are in TaskLifecycle_liveness.cfg.
CONSTANTS
    Task = {t1}
    Request = {r1, r2, r3}
    User = {u1, u2}
    Channel = {"slack"}
    MaxAttempts = 2
    ForeignKeys = FALSE
    MaxCrashes = 1
    MaxRoutes = 1
    NONE = NONE
SPECIFICATION Spec
SYMMETRY Symmetric
INVARIANTS
    SettledOnce
    AuditExplainsRow
    AcceptedAnswerStands
    NeverExhaustedEarly
    ClaimedByWinner
