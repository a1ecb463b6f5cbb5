\* Two messages in two workspaces, two reviewers, two updates at a time.
CONSTANTS
    channel = channel
    acme = acme
    Route = {channel, direct}
    Broadcast = {channel}
    Identity <- TheIdentity
    Team = {acme, other}
    Form = {"section", "switch"}
    Env = {NIL, other}
    User = {alice, bob}
    Operator = {}
    Updater = {x1, x2}
    Outcome = {"completed", "timed_out"}
    MaxCrashes = 1
    MaxChanges = 1
    NIL = NIL
SPECIFICATION SlackSpec
SYMMETRY Symmetric
INVARIANTS
    StaleMessagesExplained
    HeadlinesAreTrue
    LinksNameTheAssignee
\* Once the task has ended and its messages are final, nothing needs to happen.
CHECK_DEADLOCK FALSE
