SPECIFICATION Spec
CONSTANTS
    old = old  new1 = new1  new2 = new2  noBuild = noBuild
    Builds = {old, new1, new2}
    OldBuilds = {old}
    NoBuild = noBuild
    Names <- MCNames
    Order <- FewPaths
    Roots = {"opt"}
    Skipped <- MCSkipped
    Image <- MCImage
    MaxEdits = 1
    MaxBoots = 3
    Racing = FALSE
INVARIANT NoForeignFiles
PROPERTY KeepsIdentity
