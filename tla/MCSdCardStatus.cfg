SPECIFICATION FairSpec
CONSTANTS
    Loggers = {app}
    Monitor = monitor
    Keys = {a}
    NoteKey = note
    Slots = 1
    Batch = 1
    HoldLines = 1
INVARIANTS
    NeverOvertakes
    WritesToLiveStream
    NothingLeftBehind
    CountsAreTold
    StateIsTrue
PROPERTIES
    GoodCardComesBack
