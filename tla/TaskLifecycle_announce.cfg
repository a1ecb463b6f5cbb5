\* One task with a callback, one submission over Slack, no crash.
CONSTANTS
    Task = {t1}
    Request = {r1}
    User = {u1}
    Channel = {"dashboard", "slack", "email"}
    MaxAttempts = 1
    ForeignKeys = FALSE
    MaxCrashes = 0
    MaxRoutes = 1
    NONE = NONE
SPECIFICATION FairSpec
PROPERTIES
    EveryTerminalTransitionIsAnnounced
