SPECIFICATION Spec
CONSTANTS
    None = None
    alarm = alarm
    pump = pump
    Keys = {alarm, pump}
    Alarms = {alarm}
    Configs <- OneOfEach
    Default <- DefaultAlarm
    MaxEntries = 2
    Days = {1}
    Seconds = {0, 1}
    FlashMayFail = FALSE
PROPERTY
    MovedIsNeverLost
