CONSTANTS
    A = A
    B = B
    C = C
    NoPkg = NoPkg
    Pkgs = {A, B, C}
    Parts <- MCParts
    Len <- MCLen
    SectorOf <- MCSectorOf
    OnChip = {"app"}
    Fw <- MCFwAlgo
    UseKey = FALSE
    UseShell = FALSE
    InitApp = {A}
    InitFactory = {NoPkg, A}
    DlParts = {"download"}
    MaxLosses = 2
    MaxFaults = 0
    MaxDownloads = 2
SPECIFICATION FairSpec
INVARIANTS TypeOK RunsOnlyIntact
PROPERTIES UpdateCompletes UpdateIsAtomic
