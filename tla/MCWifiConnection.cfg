SPECIFICATION Spec
CONSTANTS
    Networks = {n1, n2}
    NoNetwork = NoNetwork
    Reasons = {"auth"}
    Backlog = 0
    Users = {u1}
    UI = UI
    QueueLength = 2
    MaxAttempts = 2
    ScanAttempts = 2
    AuthLimit = 1
    MaxProfiles = 2
    SavedAtBoot <- AnySaved
INVARIANTS
    StateIsBacked
    OneAnswerPerRequest
PROPERTY
    ImplementsService
SYMMETRY Symmetry
