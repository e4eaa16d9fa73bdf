SPECIFICATION Spec
CONSTANTS
    None = None
    alarm = alarm
    pump = pump
    Keys = {alarm, pump}
    Alarms = {alarm}
    Configs <- OneOfEach
    Default <- DefaultAlarm
    MaxEntries = 1
    Days = {0, 1}
    Seconds = {0, 1}
    FlashMayFail = TRUE
INVARIANTS
    BlobAgrees
PROPERTY
    OneShotGoesOffOnce
