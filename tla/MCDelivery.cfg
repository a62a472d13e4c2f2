SPECIFICATION PartSpec
CONSTANTS
    Attempts = 2
    Readers = {"u1", "u2"}
    Calls = {c1, c2}
    Announced <- MCAnnounced
    Kinds = {"SYSTEM", "PARTNER_WITHDRAWAL_PENDING"}
    MaxRows = 3
    Limits = {1, 2}
    WorkersEnabled = TRUE
    MaxStops = 1
    N = 5
    Role <- MCRole
    Targets = {"ALL", "USERS", "OWNERS", "VIP"}
    Channels = {"ALL", "EMAIL", "MOBILE"}
    BatchSize = 2
    MaxCrashes = 1
    Cap = 6
    Mails = {m1, m2}
    To <- MCTo
    EventList <- MCEventList
    Texts <- MCTexts
    Editable = {"WELCOME_NEW_ACCOUNT"}
    Services = {"auth", "user", "admin"}
    Seeders = {"s1", "s2"}
    QueueEnabled = TRUE
    MaxTime = 1
    MaxFaults = 1
    MaxScheduled = 3
    Batch = 2
    EmptyTemplate = TRUE
    Campaign = 2
    MaxLost = 2
SYMMETRY Symmetry
INVARIANTS
    NotificationsCounted
    BroadcastsExact
    MailsOnce
    ScheduledOnce
CHECK_DEADLOCK FALSE
