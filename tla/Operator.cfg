SPECIFICATION Spec
CHECK_DEADLOCK FALSE
CONSTANTS
    Images = {"v1", "v2"}
    Envs = {"E"}
    None = None
    Importable = FALSE
    MaxChanges = 3
    MaxFaults = 2
PROPERTY Converges
