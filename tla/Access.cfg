\* One user at two addresses, one key, two requests; lifetimes of one or two ticks; no
\* admin token, so that what changes the directory is a session.
CONSTANTS
    ann = ann
    bob = bob
    own = own
    done = done
    open = open
    early = early
    mail = mail
    User = {ann}
    Person = {ann, bob}
    Task = {own, done, open, early}
    TaskTable <- MCTaskTable
    Search = {mail, nickname}
    Finds <- MCFinds
    MaxPage = 4
    Password = {ann}
    Address = {office, home}
    Key = {k1}
    Request = {c1, c2}
    Limit = 1
    Window = 2
    SessionTtl = 1
    LinkDeadline = 1
    AdminToken = FALSE
    Origin <- MCOrigin
    Allowlist <- MCAllowlist
    Ask = {0, 2}
    DefaultTtl = 1
    MinTtl = 0
    MaxTtl = 1
    Leeway = 1
    MaxTime = 2
    MaxChanges = 1
    NONE = NONE
SPECIFICATION Spec
SYMMETRY Symmetric
INVARIANTS
    CredentialsFade
    WindowHolds
    ReadersAreEntitled
    ViewsAgree
PROPERTIES
    KeysStayRevoked
\* The clock is bounded.
CHECK_DEADLOCK FALSE
