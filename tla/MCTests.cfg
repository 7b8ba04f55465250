SPECIFICATION MCSpec
CONSTANTS
    lib = lib
    mid = mid
    app = app
    unit = unit
    integration = integration
    None = None
    Packages = {lib, mid, app}
    Bins = {unit, integration}
    Deps <- MCDeps
    PkgOf <- MCPkgOf
    Links <- MCLinks
    ToolLinks <- MCToolLinks
    Keep = 2
    MaxEdits = 2
    EditsWhileRunning = FALSE
    Documents <- MCDocuments
    Releases <- MCReleases
    CompareSchemas <- MCCompareSchemas
    Accepts <- MCAccepts
    Understands <- MCUnderstands
INVARIANTS
    PassesAreEarned
    GreenIsEarned
    ConsumersServed
PROPERTIES
    UnselectedUnchanged
