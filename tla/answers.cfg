CONSTANTS
    Null = Null
    False = False
    Fraction = Fraction
    Dotted = Dotted
    Foreign = Foreign
    None = None
    Files <- AllFiles
    Contexts <- Reaches
    Radius = 1
    Margin = 1
    Snap = 1
    MaxLine = 4
    Rewritten <- Rewrites
SPECIFICATION Spec
INVARIANTS
    ShownNumbersHold
    EvidenceWasShown
    ResumedAsJudged
    FindingsLand
CHECK_DEADLOCK FALSE
