SPECIFICATION Spec
CONSTANTS
    Restores = {restored}
    Halts = {}
    Cancels = {cancelled}
    Hook = {h1}
    Key = {k1}
    Reader = {r1}
    FreeKeys = 0
    MaxTrouble = 1
CHECK_DEADLOCK FALSE
PROPERTIES RevokedKeyRefused StaleConfigDropped
