SPECIFICATION Spec
CONSTANTS
    Apps <- ProductApps
    NoApp = NoApp
    Stepless = {"touch_calibration"}
    MaxErrors = 2
    MaxChain = 4
    FreeAttempts = 0
    MaxGuesses = 1
INVARIANTS
    LockHolds
    GuessesOutliveRestart
    SteplessNeverRests
