\* Every save asks for fsync, as Save, Save As and the application's autosave do.
CONSTANTS
    MaxSaves = 4
    Writers = {"document", "registry", "export"}
    FsyncModes <- AlwaysFsync
    PowerLoss = TRUE
SPECIFICATION Spec
INVARIANTS
    TypeOK
    ReplacementInvariant
    TargetNeverTorn
PROPERTY DurableSpec
