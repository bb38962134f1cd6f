CONSTANTS
    NoAnswer = 7
    RetryWindow = 6
    RedirectWait = 1
    Keep = 4
    TimerB = 5
    MaxRinging = 1
    MaxRedirects = 1
    MinPeriod = 6
    Margin = 4
    Part = 3
    Slack = 5
    Longest = 7
    RetryWait = 3
    ReleaseAge = 2
    DeletionGap = 1
    TimerF = 1
    Requested = {0, 1}
    Publishes = {0, 12}
    Granted = {6, 12}
    MinExpires = 12
    MaxRequests = 1
    DefaultPeriod = 13
    Settle = 4
    Linger = 2
    TimerK = 1
    Subscribes = {0, 6, 12}
    MaxLosses = 1
    Incoming = {0, 1}
    MaxNotifies = 2
SPECIFICATION FairSpec
INVARIANTS
    TypeOK
    RefreshedBeforeExpiry
PROPERTIES
    NotReleasedEarly
    InitiatedSettles
    RemovalEnds
    PublicationRefreshed
