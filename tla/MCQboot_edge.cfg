CONSTANTS
    A = A
    B = B
    C = C
    NoPkg = NoPkg
    Pkgs = {A, B}
    Parts <- MCParts
    Len <- MCLen
    SectorOf <- MCSectorOf
    OnChip = {"app"}
    Fw <- MCFwEdge
    UseKey = FALSE
    UseShell = FALSE
    InitApp = {A}
    InitFactory = {NoPkg}
    DlParts = {"download"}
    MaxLosses = 0
    MaxFaults = 0
    MaxDownloads = 2
SPECIFICATION FairSpec
PROPERTIES RestartStartsNew
