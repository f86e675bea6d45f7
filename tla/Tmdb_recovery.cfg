CONSTANTS
    Tasks = {t1, t2}
    Limit = 2
    Capacity = 2
    Rate = 1
    Retries = 1
    RetryDelay = 1
    RetryAfters = {NoHeader, 1, 3}
    AcquireTimeout = 1
    MaxRequests = 3
    Window = 1
    MinRequests = 2
    Threshold = 60
    MaxRetryAfter = 2
    BackoffCap = 2
    NoHeader = NoHeader
    Nobody = Nobody
SPECIFICATION FairSpec
PROPERTY BreakerRecovers
