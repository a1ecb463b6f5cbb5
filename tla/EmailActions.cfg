\* Two addresses with one button each, two browsers, no default transport.
CONSTANTS
    ann = ann
    support = support
    yes = yes
    Route = {ann, ben}
    Form <- Acknowledge
    Identity <- TheIdentity
    Sender = {support}
    EnvTransport = {FALSE}
    Reviewer = {rita}
    Outcome = {"completed", "timed_out"}
    Browser = {b1, b2}
    MaxCrashes = 1
    MaxChanges = 1
    NONE = NONE
SPECIFICATION Spec
SYMMETRY Symmetric
INVARIANTS
    TokensActOnce
    BurntTokensExplained
    LandedMeansOwned
\* Once the mails are out and nobody clicks any more, nothing needs to happen.
CHECK_DEADLOCK FALSE
