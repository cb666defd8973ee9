CONSTANTS
    A = A
    B = B
    C = C
    NoPkg = NoPkg
    Pkgs = {A, B, C}
    Parts <- MCParts
    Len <- MCLen
    SectorOf <- MCSectorOf
    OnChip = {"app"}
    Fw <- MCFwPart
    UseKey = TRUE
    UseShell = FALSE
    InitApp = {NoPkg, A}
    InitFactory = {NoPkg, B}
    DlParts = {"download"}
    MaxLosses = 1
    MaxFaults = 1
    MaxDownloads = 1
SPECIFICATION FairSpec
INVARIANTS SignAfterRelease
PROPERTIES BootEnds PackageSurvivesBoot
