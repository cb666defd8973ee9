CONSTANTS
    A = A
    B = B
    C = C
    NoPkg = NoPkg
    Pkgs = {A, B, C}
    Parts <- MCParts
    Len <- MCLen
    SectorOf <- MCSectorOf
    OnChip = {"app"}
    Fw <- MCFwSelf
    UseKey = FALSE
    UseShell = TRUE
    InitApp = {A}
    InitFactory = {NoPkg, A}
    DlParts = {"download"}
    MaxLosses = 0
    MaxFaults = 1
    MaxDownloads = 1
SPECIFICATION Spec
INVARIANTS SignAfterRelease
