SPECIFICATION Spec
CONSTANTS
    Settings = {d, a, b}
    Default = d
    Mixed = mixed
    NoFile = nofile
    SAVE_TIMEOUT = 2
    Faults = {"unlink", "rename"}
PROPERTY OldSettingsSurvive
