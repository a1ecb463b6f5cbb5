\* Two questions asked by each adapter, in each way that matters to it: rows are deleted
\* under the agent, responses are lost and webhooks arrive twice.
CONSTANTS
    Task = {t1, t2, t3}
    Answer = {a1}
    Waits = 2
    Program <- AllPrograms
    MaxDeliveries = 2
    MaxFailures = 1
    MaxDeletes = 1
    NONE = NONE
SPECIFICATION FairSpec
INVARIANTS
    OnlyConfusionCrosses
    ReportsAreTrue
    RerunsAgree
    OneTicket
PROPERTIES
    WaitsEnd
CHECK_DEADLOCK FALSE
