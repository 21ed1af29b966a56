SPECIFICATION Spec
CONSTANTS
    Units = {u1}
    MaxHead = 3
    MaxBase = 1
    Producers = {p1}
    Answers = {"fixed", "deferred", "escalated"}
    Blocking = {"escalated"}
    Candidates = {7}
    Null = Null
    False = False
    Fraction = Fraction
    Dotted = Dotted
    Beyond = Beyond
    Foreign = Foreign
    Destination = "github_issues"
    SchemaNative = FALSE
    KeepDisk = TRUE
    MayLose = TRUE
    MaxPass = 2
    MaxMoves = 1
    MaxFaults = 1
INVARIANTS
    PushedIsAnswered
    DeferralsFiledOnce
    SettledAnswersReview
PROPERTIES
    RepliedOnce
    FixedThreadIsPushed
CHECK_DEADLOCK FALSE
