CONSTANTS
    Chars <- MCChars
    Scrollback = 1
    Slack = 0
    PS1 <- MCPS1
    Keys = {"$", " "}
    Outputs <- MCOutputs
    Geometries <- MCGeometries
    First <- MCFirst
    MaxKeys = 3
    MaxEvents = 2
SPECIFICATION Spec
INVARIANTS TypeOK NeverFalseIdle LineIsTyped PromptSeen SavedRowHolds WholeWide
PROPERTY FitKeepsLine
CHECK_DEADLOCK FALSE
