SPECIFICATION FairSpec
CONSTANTS
    h1 = h1
    h2 = h2
    Handlers = {h1, h2}
    Settings = {1, 6}
    DefaultSetting = 1
    MinReset = 2
    MaxReset = 3
    FieldInit = 0
    MaxAge = 4
    MaxReports = 2
    MaxCrashes = 1
INVARIANTS
    TypeOK
    NoStuckMotion
    ResetAfterInRange
    SettingInUse
PROPERTIES
    MotionEnds
    ResetNotEarly
