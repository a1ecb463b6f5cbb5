\* Three runs in two directories, two ports, an agent in Python and one in TypeScript.
CONSTANTS
    s1 = s1
    s2 = s2
    s3 = s3
    here = here
    there = there
    Server = {s1, s2, s3}
    Folder <- TheFolder
    Client = {py, ts}
    Python = {py}
    Ports = 2
    Pid = {p1, p2}
    MaxCalls = 2
    NIL = NIL
SPECIFICATION DevSpec
SYMMETRY Symmetric
INVARIANTS
    ServersAreFound
    SecretsAreShared
\* Once every run is over, nothing needs to happen.
CHECK_DEADLOCK FALSE
