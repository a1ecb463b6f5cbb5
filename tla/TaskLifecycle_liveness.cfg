\* Two tasks share the scheduler's batch; rows may be deleted under it and the
\* process may crash.  Nobody is notified: reports go to the audit trail alone.
CONSTANTS
    Task = {t1, t2}
    Request = {r1}
    User = {}
    Channel = {"embed", "email"}
    MaxAttempts = 2
    ForeignKeys = TRUE
    MaxCrashes = 1
    MaxRoutes = 0
    NONE = NONE
SPECIFICATION FairSpec
INVARIANTS
    WebhooksAgree
PROPERTIES
    ExpiredTasksSettle
    HttpSettlementsAnnounced
    KeepsPromise
