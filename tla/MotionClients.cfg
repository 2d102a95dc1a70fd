SPECIFICATION FairSpec
CONSTANTS
    h1 = h1
    Handlers = {h1}
    Settings = {1, 3, 6}
    DefaultSetting = 3
    MinReset = 2
    MaxReset = 4
    FieldInit = 0
    MaxAge = 5
    MaxReports = 2
    MaxCrashes = 0
PROPERTY ClientsToldReset
