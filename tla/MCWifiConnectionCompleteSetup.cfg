SPECIFICATION Spec
CONSTANTS
    Networks = {n1}
    NoNetwork = NoNetwork
    Reasons = {"auth"}
    Backlog = 0
    Users = {u1}
    UI = UI
    QueueLength = 1
    MaxAttempts = 1
    ScanAttempts = 2
    AuthLimit = 1
    MaxProfiles = 1
    SavedAtBoot <- AnySaved
PROPERTY
    CompletedOnlyWhileUp
