SPECIFICATION Spec
CONSTANTS
    old = old  new1 = new1  new2 = new2  noBuild = noBuild
    Builds = {new1}
    OldBuilds = {}
    NoBuild = noBuild
    Names <- MCNames
    Order <- MCOrder
    Roots = {"opt", "srv"}
    Skipped <- MCSkipped
    Image <- MCImage
    MaxEdits = 1
    MaxBoots = 1
    Racing = FALSE
INVARIANT InPlaceKeeps
