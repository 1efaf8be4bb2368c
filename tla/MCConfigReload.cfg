SPECIFICATION Spec
CONSTANTS
    defaults = defaults  fast = fast  slow = slow  invalid = invalid  absent = absent
    Settings <- ThreeSettings
    Defaults = defaults
    Invalid = invalid
    Absent = absent
    LastTime = 3
PROPERTIES
    ConvergesToFile
    StopIsFinal
