\* Two schedulers, a good delivery and a malformed one, a pin shorter than a slow POST,
\* one redrive, one crash.
CONSTANTS
    Delivery = {d1, d2}
    Dispatcher = {s1, s2}
    Malformed = {d2}
    PinWindow = 1
    Backoff <- OneDelay
    MaxAge = 2
    MaxRedrives = 1
    MaxCrashes = 1
    MaxExcuses = 2
    NONE = NONE
SPECIFICATION Spec
INVARIANTS
    SucceededMeansReceived
    ResendsAreExplained
    SuccessIsNotBuried
PROPERTIES
    EveryDeliveryEnds
