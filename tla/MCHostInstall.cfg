SPECIFICATION Spec
CONSTANTS
    MaxRuns = 2
    MaxVer = 2
    SandboxVer = 1
INVARIANTS
    TypeOK
    OriginalKept
    RollbackTarget
    FailedInstallKeepsPanel
    FailedInstallKeepsRuntimes
    RuntimeAsFound
    FailedUninstallKeepsAll
    UninstallLeavesOnlyDropin
PROPERTIES
    StateKeptUntilPanelRuns
